----------------------------- MODULE Framerate -----------------------------
(***************************************************************************)
(* FPSLimiter (draw/Framerate.cpp): the times of the last frames in a ring, *)
(* their average, and the delay at the end of a frame.  The ring is static, *)
(* one for all limiters.                                                    *)
(***************************************************************************)
EXTENDS Integers, Sequences, FiniteSets, FiniteSetsExt, SequencesExt

CONSTANTS
  Samples,    \* NUM_SAMPLES
  Works,      \* times that a frame may take before its end, in milliseconds
  Waits,      \* times that swapBuffer() may block, or SDL_Delay() oversleep
  Desired,    \* 1000 / m_maxFPS, in whole milliseconds
  MaxFrames   \* bound of the frames

ASSUME FrameAssumption ==
  /\ Samples \in Nat \ {0} /\ Works \subseteq Nat /\ Waits \subseteq Nat
  /\ Desired \in Nat /\ MaxFrames \in Nat

VARIABLES
  now,        \* SDL_GetTicks()
  frame,      \* start (m_startFrameTicks), prev (m_prevTicks), time (m_frameTime), open
  frameTimes, \* the ring
  count,      \* currentFrame
  average,    \* frameTimeAverage times the number of samples, and that number
  times       \* of all frames so far

frameVars == <<now, frame, frameTimes, count, average, times>>

FrameInit ==
  /\ now = 0
  /\ frame = [start |-> 0, prev |-> 0, time |-> 0, open |-> FALSE]
  /\ frameTimes = [i \in 0 .. Samples - 1 |-> 0] /\ count = 0
  /\ average = <<0, 0>> /\ times = <<>>

\* beginFrame(), after swapBuffer(), which may wait for the screen.
BeginFrame(wait) ==
  /\ ~frame.open /\ count < MaxFrames
  /\ now' = now + wait
  /\ frame' = [start |-> now + wait, prev |-> now + wait, time |-> (now + wait) - frame.prev, open |-> TRUE]
  /\ UNCHANGED <<frameTimes, count, average, times>>

Averaged(r, c) ==
  LET n == IF c < Samples THEN c ELSE Samples
  IN  <<MapThenSumSet(LAMBDA i : r[i], 0 .. n - 1), n>>

\* Mutation of StoredTime: the frame is counted before its time is stored.
LateStoredTime(r, c, t) == [r EXCEPT ![(c + 1) % Samples] = t]

StoredTime(r, c, t) == [r EXCEPT ![c % Samples] = t]

\* Mutation of Delay: the time that the work took is taken off twice.
HastyDelay(work) == IF Desired > 2 * work THEN Desired - 2 * work ELSE 0

Delay(work) == IF Desired > work THEN Desired - work ELSE 0

\* SDL_Delay() sleeps at least as long as it is asked to.
Slept(work, over) == IF Desired > work THEN Delay(work) + over ELSE 0

\* The work of the frame and endFrame().
EndFrame(work, over) ==
  /\ frame.open
  /\ frameTimes' = StoredTime(frameTimes, count, frame.time) /\ count' = count + 1
  /\ average' = Averaged(StoredTime(frameTimes, count, frame.time), count + 1)
  /\ times' = Append(times, frame.time)
  /\ now' = now + work + Slept(work, over)
  /\ frame' = [frame EXCEPT !.open = FALSE]

LastFrame == ~frame.open /\ count = MaxFrames /\ UNCHANGED frameVars

FrameNext ==
  \/ LastFrame
  \/ \E wait \in Waits : BeginFrame(wait)
  \/ \E work \in Works, over \in Waits : EndFrame(work, over)

-----------------------------------------------------------------------------

\* The average is that of the last frames, as many as there are samples.
AverageOfLast ==
  LET n == average[2]
  IN  /\ n = Min({Samples, Len(times)})
      /\ average[1] = MapThenSumSet(LAMBDA i : times[i], Len(times) - n + 1 .. Len(times))

\* But for the first, no frame is shorter than it should be, whatever its work and the
\* swap of the buffers took: the limit is one of the rate, not of the jitter.
FramesAreLimited == \A i \in 2 .. Len(times) : times[i] >= Desired
=============================================================================
