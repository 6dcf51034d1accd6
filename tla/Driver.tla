-------------------------------- MODULE Driver --------------------------------
(***************************************************************************)
(* mdriver (mdriver.c): runs an allocator through trace files, in three    *)
(* passes over each: eval_mm_valid checks every block and fills it,        *)
(* eval_mm_util measures the heap, eval_mm_speed runs for the clock.  An   *)
(* operation of this module is one request of the trace; what the          *)
(* allocator answers, r = [p, heap], is a parameter, so that the module    *)
(* can be put around any allocator.                                        *)
(*                                                                         *)
(* A trace is read request by request during the first pass, and kept for  *)
(* the others.  Sizes are multiples of a word.                             *)
(***************************************************************************)
EXTENDS RangeList, Sequences, FiniteSets

CONSTANTS Ids,         \* block numbers of the traces
          Sizes,       \* request sizes, multiples of WSIZE
          NumTraces,   \* bound: num_tracefiles
          MaxOps,      \* bound: requests in all traces together
          Rounds       \* runs of eval_mm_speed by fsecs (10 in the code)

ASSUME DriverAssumption ==
  /\ Ids \subseteq Nat /\ IsFiniteSet(Ids)
  /\ Sizes \subseteq {s \in Nat : s > 0 /\ s % WSIZE = 0}
  /\ {NumTraces, MaxOps, Rounds} \subseteq Nat

VARIABLES heap,         \* memlib.c and the allocator's own variables
          trace,        \* trace->ops
          i,            \* requests of the pass that are done
          phase,        \* where main is
          round,        \* runs of eval_mm_speed that are done
          blocks,       \* trace->blocks
          block_sizes,  \* trace->block_sizes
          ranges,       \* the range list
          total,        \* total_size of eval_mm_util
          max_total,    \* max_total_size
          stats,        \* mm_stats[..].valid of the traces that are done
          errors,       \* errors
          msg,          \* the kind of the last error reported
          used          \* requests of the traces that are done

vars == <<heap, trace, i, phase, round, blocks, block_sizes, ranges, total,
          max_total, stats, errors, msg, used>>

Op(type, id, size) == [type |-> type, index |-> id, size |-> size]

(* The blocks that the first n requests leave allocated.                   *)
Live(n) ==
  {id \in Ids : \E k \in 1 .. n :
      /\ trace[k].index = id /\ trace[k].type # "FREE"
      /\ \A l \in k + 1 .. n : trace[l].index = id => trace[l].type # "FREE"}

(* Requests a trace may go on with.  Blocks are numbered in the order of   *)
(* their first request, as in the trace files.                             *)
Requests ==
  {Op("ALLOC", id, size) :
     id \in {d \in Ids \ Live(i) : \A o \in Ids : o < d =>
                                      \E k \in 1 .. i : trace[k].index = o},
     size \in Sizes}
    \cup {Op("REALLOC", id, size) : id \in Live(i), size \in Sizes}
    \cup {Op("FREE", id, 0) : id \in Live(i)}

(* A word of four bytes memset to the low byte of index; the check reads   *)
(* the bytes back as plain chars, which are signed.                        *)
LowByte(index) == index % 256
Fill(index) ==
  LET b == LowByte(index)
  IN  b * 65793 + (IF b < 128 THEN b ELSE b - 256) * 16777216
ReadsBack(word, index) == word = Fill(index) /\ LowByte(index) < 128

Init ==
  /\ \E garbage \in {0, 255} : heap = mem_init(garbage)
  /\ trace = << >> /\ i = 0 /\ round = 0 /\ used = 0
  /\ phase = "next trace"
  /\ blocks = [id \in Ids |-> NULL] /\ block_sizes = [id \in Ids |-> 0]
  /\ ranges = {} /\ total = 0 /\ max_total = 0
  /\ stats = << >> /\ errors = 0 /\ msg = "none"

-------------------------------------------------------------------------------
(* eval_mm_valid                                                           *)

(* malloc_error and return 0: main goes on with the next trace.            *)
Invalid(why) ==
  /\ errors' = errors + 1 /\ msg' = why
  /\ stats' = Append(stats, FALSE)
  /\ phase' = "next trace"
  /\ used' = used + Len(trace')

(* read_trace, and the start of the first pass; r is mm_init's answer.     *)
StartValid(r) ==
  /\ phase = "next trace" /\ Len(stats) < NumTraces /\ used < MaxOps
  /\ heap' = r.heap /\ ranges' = clear_ranges
  /\ trace' = << >> /\ i' = 0
  /\ IF r.p < 0
       THEN Invalid("mm_init failed")
       ELSE phase' = "valid" /\ UNCHANGED <<stats, errors, msg, used>>
  /\ UNCHANGED <<round, blocks, block_sizes, total, max_total>>

Preserved(op, r) ==
  LET old == block_sizes[op.index]
      size == IF op.size < old THEN op.size ELSE old
  IN  \A a \in Span(r.p, size) : ReadsBack(GET(r.heap, a), op.index)

NextRequest(op) ==
  /\ phase = "valid" /\ op \in Requests
  /\ used + Len(trace) < MaxOps
  /\ trace' = Append(trace, op) /\ i' = i + 1
  /\ UNCHANGED <<round, total, max_total>>

(* case ALLOC                                                              *)
ValidAlloc(op, r) ==
  LET why == IF r.p = NULL THEN "mm_malloc failed"
             ELSE RangeError(ranges, r.heap, r.p, op.size)
  IN  /\ op.type = "ALLOC" /\ NextRequest(op)
      /\ IF why # "none"
           THEN Invalid(why) /\ heap' = r.heap
                /\ UNCHANGED <<blocks, block_sizes, ranges>>
           ELSE /\ heap' = memset(r.heap, r.p, Fill(op.index), op.size)
                /\ blocks' = [blocks EXCEPT ![op.index] = r.p]
                /\ block_sizes' = [block_sizes EXCEPT ![op.index] = op.size]
                /\ ranges' = add_range(ranges, r.p, op.size)
                /\ UNCHANGED <<phase, stats, errors, msg, used>>

(* case REALLOC                                                            *)
ValidRealloc(op, r) ==
  LET others == remove_range(ranges, blocks[op.index])
      bad == RangeError(others, r.heap, r.p, op.size)
      why == IF r.p = NULL THEN "mm_realloc failed"
             ELSE IF bad # "none" THEN bad
             ELSE IF ~ Preserved(op, r) THEN "not preserved"
             ELSE "none"
  IN  /\ op.type = "REALLOC" /\ NextRequest(op)
      /\ ranges' = IF r.p = NULL THEN ranges
                   ELSE IF bad # "none" THEN others
                   ELSE add_range(others, r.p, op.size)
      /\ IF why # "none"
           THEN Invalid(why) /\ heap' = r.heap
                /\ UNCHANGED <<blocks, block_sizes>>
           ELSE /\ heap' = memset(r.heap, r.p, Fill(op.index), op.size)
                /\ blocks' = [blocks EXCEPT ![op.index] = r.p]
                /\ block_sizes' = [block_sizes EXCEPT ![op.index] = op.size]
                /\ UNCHANGED <<phase, stats, errors, msg, used>>

(* case FREE                                                               *)
ValidFree(op, h) ==
  /\ op.type = "FREE" /\ NextRequest(op)
  /\ ranges' = remove_range(ranges, blocks[op.index])
  /\ heap' = h
  /\ UNCHANGED <<phase, blocks, block_sizes, stats, errors, msg, used>>

-------------------------------------------------------------------------------
(* eval_mm_util and eval_mm_speed: the same requests again                 *)

(* app_error                                                               *)
Exit ==
  /\ phase' = "exit"
  /\ UNCHANGED <<total, max_total, stats, used>>

(* A pass begins on a heap that is reset but not cleared.                  *)
StartPass(next, r) ==
  /\ heap' = r.heap /\ i' = 0
  /\ IF r.p < 0 THEN Exit
     ELSE /\ phase' = next
          /\ total' = IF next = "util" THEN 0 ELSE total
          /\ max_total' = IF next = "util" THEN 0 ELSE max_total
          /\ UNCHANGED <<stats, used>>
  /\ UNCHANGED <<trace, blocks, block_sizes, ranges, errors, msg>>

StartUtil(r) ==
  /\ phase = "valid" /\ trace # << >>
  /\ round' = 0
  /\ StartPass("util", r)

StartSpeed(r) ==
  /\ phase \in {"util", "speed"} /\ i = Len(trace) /\ round < Rounds
  /\ round' = round + 1
  /\ StartPass("speed", r)

(* What a request adds to total_size; old is the block's size before it.   *)
Change(op, old) ==
  CASE op.type = "ALLOC" -> op.size
    [] op.type = "REALLOC" -> op.size - old
    [] op.type = "FREE" -> -old

(* total_size and its high-water mark, for the second pass.                *)
Count(change) ==
  IF phase = "util"
    THEN /\ total' = total + change
         /\ max_total' = IF total' > max_total THEN total' ELSE max_total
    ELSE UNCHANGED <<total, max_total>>

(* One request of a later pass: only the speed pass leaves block_sizes.    *)
Replay(r) ==
  LET op == trace[i + 1]
  IN  /\ phase \in {"util", "speed"} /\ i < Len(trace)
      /\ i' = i + 1 /\ heap' = r.heap
      /\ IF op.type # "FREE" /\ r.p = NULL
           THEN Exit /\ UNCHANGED <<blocks, block_sizes>>
           ELSE /\ Count(Change(op, block_sizes[op.index]))
                /\ blocks' = IF op.type = "FREE" THEN blocks
                             ELSE [blocks EXCEPT ![op.index] = r.p]
                /\ block_sizes' = IF op.type = "FREE" \/ phase = "speed"
                                    THEN block_sizes
                                    ELSE [block_sizes EXCEPT ![op.index] = op.size]
                /\ UNCHANGED <<phase, stats, used>>
      /\ UNCHANGED <<trace, round, ranges, errors, msg>>

(* free_trace: the trace is measured.                                      *)
EndTrace ==
  /\ phase = "speed" /\ i = Len(trace) /\ round = Rounds
  /\ stats' = Append(stats, TRUE) /\ used' = used + Len(trace)
  /\ phase' = "next trace" /\ round' = 0
  /\ UNCHANGED <<heap, trace, i, blocks, block_sizes, ranges, total, max_total,
                 errors, msg>>

(* The performance index is printed when there were no errors.             *)
Report ==
  /\ phase = "next trace" /\ Len(stats) \in 1 .. NumTraces
  /\ phase' = IF errors = 0 THEN "perf index" ELSE "errors"
  /\ UNCHANGED <<heap, trace, i, round, blocks, block_sizes, ranges, total,
                 max_total, stats, errors, msg, used>>
===============================================================================
