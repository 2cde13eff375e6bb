------------------------------- MODULE FillOnce -------------------------------
(***************************************************************************)
(* The two caches whose parts do not depend on each other, used by the     *)
(* threads that fetch pixels: runtime/gic.c, one memory for all rows of an *)
(* image, and runtime/iveccache.c, a memory per row.  The thread that      *)
(* comes first fills, under a mutex; all others wait for it, or see from a *)
(* flag read without the mutex that there is nothing to do.                *)
(*                                                                         *)
(* The image is filled by a whole sink run inside the fill: its rows come  *)
(* in the order in which the threads of its batch are done (op/ocache.c,   *)
(* op/memory.c).  Release at image destruction is left out.                *)
(***************************************************************************)
EXTENDS Integers, FiniteSets

CONSTANTS Readers,      \* the threads
          NumRows,
          Free          \* holder of a free mutex

ASSUME NumRowsAssumption == NumRows \in Nat \ {0}
ASSUME ReadersAssumption == Free \notin Readers

RowSet == 0 .. NumRows - 1

VARIABLES cache,        \* which of the two: "gic", "iveccache"
          memory,       \* per row: unset, zero after the setup, then row
          filled,       \* the memories whose flag is set: isfilled, area
          holder,       \* per memory, the thread that holds its mutex
          place,        \* where each thread is
          want,         \* the row it was asked for
          missing,      \* the rows its fill has still to do
          filling       \* per memory: the number of fills begun

onceVars == << cache, memory, filled, holder, place, want, missing, filling >>

(* The memory that has a row, and the rows that a memory has. *)
Memory(row) == IF cache = "gic" THEN 0 ELSE row

RowsOf(m) == {row \in RowSet : Memory(row) = m}

InitOnce == /\ cache \in {"gic", "iveccache"}
            /\ memory = [row \in RowSet |-> "unset"]
            /\ filled = {}
            /\ holder = [row \in RowSet |-> Free]
            /\ place = [t \in Readers |-> "idle"]
            /\ want = [t \in Readers |-> 0]
            /\ missing = [t \in Readers |-> {}]
            /\ filling = [row \in RowSet |-> 0]

At(t, here) == place[t] = here
GoTo(t, there) == place' = [place EXCEPT ![t] = there]
Mine(t) == Memory(want[t])

Request(t) == /\ At(t, "idle")
              /\ \E row \in RowSet : want' = [want EXCEPT ![t] = row]
              /\ GoTo(t, "check")
              /\ UNCHANGED << cache, memory, filled, holder, missing, filling >>

(* if (gic->isfilled), if (!area): without the mutex *)
FirstCheck(t) == /\ At(t, "check")
                 /\ GoTo(t, IF Mine(t) \in filled THEN "read" ELSE "lock")
                 /\ UNCHANGED << cache, memory, filled, holder, want, missing, filling >>

Claim(t) == /\ At(t, "lock")
            /\ holder[Mine(t)] = Free
            /\ holder' = [holder EXCEPT ![Mine(t)] = t]
            /\ GoTo(t, "recheck")
            /\ UNCHANGED << cache, memory, filled, want, missing, filling >>

(* The fill begins with memory that is cleared, or just allocated. *)
Fresh(row) == IF cache = "gic" THEN "zero" ELSE "unset"

BeginFill(t) == /\ memory' = [row \in RowSet |-> IF row \in RowsOf(Mine(t)) THEN Fresh(row)
                                                 ELSE memory[row]]
                /\ missing' = [missing EXCEPT ![t] = RowsOf(Mine(t))]
                /\ filling' = [filling EXCEPT ![Mine(t)] = @ + 1]
                /\ GoTo(t, "fill")

(* A faulty form of SecondCheck: none. *)
SecondCheckNone(t) == /\ At(t, "recheck")
                      /\ BeginFill(t)
                      /\ UNCHANGED << cache, filled, holder, want >>

(* The same with the mutex. *)
SecondCheck(t) == /\ At(t, "recheck")
                  /\ \/ /\ Mine(t) \in filled
                        /\ GoTo(t, "unlock")
                        /\ UNCHANGED << memory, missing, filling >>
                     \/ Mine(t) \notin filled /\ BeginFill(t)
                  /\ UNCHANGED << cache, filled, holder, want >>

FillRow(t) == /\ At(t, "fill")
              /\ \E row \in missing[t] :
                     /\ memory' = [memory EXCEPT ![row] = "row"]
                     /\ missing' = [missing EXCEPT ![t] = @ \ {row}]
              /\ UNCHANGED << cache, filled, holder, place, want, filling >>

(* A faulty form of MarkFilled: the flag comes before the last row, as it
   could without the barrier. *)
MarkFilledEarly(t) == /\ At(t, "fill")
                      /\ Cardinality(missing[t]) <= 1
                      /\ filled' = filled \cup {Mine(t)}
                      /\ GoTo(t, IF missing[t] = {} THEN "unlock" ELSE "fill")
                      /\ UNCHANGED << cache, memory, holder, want, missing, filling >>

(* gic->isfilled = 1, vec[index].area = area *)
MarkFilled(t) == /\ At(t, "fill")
                 /\ missing[t] = {}
                 /\ filled' = filled \cup {Mine(t)}
                 /\ GoTo(t, "unlock")
                 /\ UNCHANGED << cache, memory, holder, want, missing, filling >>

Release(t) == /\ At(t, "unlock")
              /\ holder' = [holder EXCEPT ![Mine(t)] = Free]
              /\ GoTo(t, "read")
              /\ UNCHANGED << cache, memory, filled, want, missing, filling >>

(* The pixels of the row have been copied. *)
Copied(t) == /\ At(t, "read")
             /\ GoTo(t, "idle")
             /\ want' = [want EXCEPT ![t] = 0]
             /\ UNCHANGED << cache, memory, filled, holder, missing, filling >>

OnceStep == \E t \in Readers : \/ Request(t) \/ FirstCheck(t) \/ Claim(t) \/ SecondCheck(t)
                               \/ FillRow(t) \/ MarkFilled(t) \/ Release(t) \/ Copied(t)

OnceSpec == InitOnce /\ [][OnceStep]_onceVars

-----------------------------------------------------------------------------
(* What a thread copies is the row it was asked for, from the beginning to the
   end of the copy: not memory that is cleared, or filled again, in between
   (aktive_gicache_fill, aktive_iveccache_get). *)
CopyComplete == \A t \in Readers : At(t, "read") => memory[want[t]] = "row"

(* Two threads that ask at the same time do not both run the fill, which may
   be the computation of a whole image. *)
FilledOnce == \A row \in RowSet : filling[row] <= 1
=============================================================================
