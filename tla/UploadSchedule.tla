---------------------------- MODULE UploadSchedule ----------------------------
(***************************************************************************)
(* The two pure decisions of the chunked upload scheduler                  *)
(* (packages/cli/src/bulletin/store.ts): which queued chunks form the next *)
(* wave, and how the concurrency window adapts to the wave that just       *)
(* ended.  Durations keep only what the code compares them with: a wave is *)
(* "clean" below 12 s, "slow" above 25 s and "steady" between the two.     *)
(***************************************************************************)
EXTENDS Integers, FiniteSets, FiniteSetsExt

WindowMin == 1            \* ADAPTIVE_WINDOW_MIN
WindowCap == 4            \* ADAPTIVE_WINDOW_DEFAULT_MAX

Durations == {"clean", "steady", "slow"}

AtMost(a, b)  == IF a <= b THEN a ELSE b
AtLeast(a, b) == IF a >= b THEN a ELSE b


\* The wave failed, retried or crawled: halve, never below the minimum.
HalvedWindow(window) == AtLeast(WindowMin, window \div 2)

\* The requested concurrency, forced into WindowMin..WindowCap.
SanitizedWindow(requested) == AtMost(WindowCap, AtLeast(WindowMin, requested))

(***************************************************************************)
(* The window and the streak of clean waves after a wave of the given      *)
(* duration; two clean waves in a row earn one more slot.                  *)
(***************************************************************************)
NextAdaptiveWindow(window, maxWindow, streak, duration, hadRetries) ==
    LET limit == AtLeast(WindowMin, maxWindow)
    IN  IF hadRetries \/ duration = "slow"
        THEN [window |-> HalvedWindow(window), streak |-> 0]
        ELSE IF duration = "steady"
        THEN [window |-> window, streak |-> 0]
        ELSE IF streak + 1 >= 2
        THEN [window |-> AtMost(limit, window + 1), streak |-> 0]
        ELSE [window |-> window, streak |-> streak + 1]

(***************************************************************************)
(* The next wave.  The queue is always in ascending chunk order (it is     *)
(* filled in stream order, emptied from the front, and a stalled wave goes *)
(* back to the front), so it is the set of its chunks, and what the loop   *)
(* shifts off is its longest prefix within the window and the byte budget. *)
(***************************************************************************)
IsPrefix(W, queue) == W \subseteq queue /\ \A c \in W, d \in queue \ W : c < d

BytesOf(W, length) == MapThenSumSet(LAMBDA c : length[c], W)

FittingPrefixes(queue, window, length, budget) ==
    {W \in SUBSET queue : /\ IsPrefix(W, queue)
                          /\ Cardinality(W) <= window
                          /\ BytesOf(W, length) <= budget}

SelectWaveChunks(queue, window, length, budget) ==
    UNION FittingPrefixes(queue, window, length, budget)
===============================================================================
