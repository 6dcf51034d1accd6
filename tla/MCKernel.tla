-------------------------------- MODULE MCKernel -------------------------------
EXTENDS Kernel, TLC

Symmetric == Permutations(Callers)

(* 1 is init; 2 is kthreadd, whose parent is the idle process 0, its own   *)
(* parent; 3 and 4 are children of init.  7 is nobody.                     *)
MCParent == 0 :> 0 @@ 1 :> 0 @@ 2 :> 0 @@ 3 :> 1 @@ 4 :> 1
MCPids == {2, 3, 4, 7}

(* The pages of a process: 0 present, with its flag bits, a software bit   *)
(* above the address and the no-execute bit; 1 part of a huge page in      *)
(* process 4, missing in the others; 2 swapped out.                        *)
Entry(pmd, pte) ==
  [pgd |-> "table", p4d |-> "table", pud |-> "table", pmd |-> pmd, pte |-> pte]
Pte(present, flags, frame, high) ==
  [present |-> present, flags |-> flags, frame |-> frame, high |-> high]
None == Pte(FALSE, 0, 0, 0)

User(frame, pmd) ==
  [page \in 0 .. 2 |-> CASE page = 0 -> Entry("table", Pte(TRUE, 3, frame, 2))
                         [] page = 1 -> Entry(pmd, None)
                         [] page = 2 -> Entry("table", Pte(FALSE, 2, 3 - frame, 1))]
MCMm == 0 :> NULL @@ 1 :> User(1, "table") @@ 2 :> NULL
     @@ 3 :> User(2, "table") @@ 4 :> User(3, "bad")
================================================================================
