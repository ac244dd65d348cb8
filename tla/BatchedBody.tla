----------------------------- MODULE BatchedBody -----------------------------
(***************************************************************************)
(* BatchedBody::next_frames (mirrord/protocol/src/batched_body.rs): wait   *)
(* for the next frame of an HTTP body, then take every frame that is       *)
(* ready without blocking.                                                 *)
(*                                                                         *)
(* A body is seen through the outcomes of its polls, in order: a frame     *)
(* (its value), "pending" (not ready: now_or_never gives None, an await    *)
(* sleeps until woken and polls again), "end" (Some(None): the body is     *)
(* finished and stays so) or "error" (a frame result that is Err).  A      *)
(* batch is a record of the frames taken, is_last, whether the call        *)
(* returned an error, and the polls left after it.                         *)
(***************************************************************************)
EXTENDS Sequences

\* The outcomes of a poll that are not a frame.
NotFrames == {"pending", "end", "error"}

\* self.frame().await: pending polls only put the task to sleep.
RECURSIVE AwaitFrame(_)
AwaitFrame(s) == IF Head(s) = "pending" THEN AwaitFrame(Tail(s)) ELSE s

(***************************************************************************)
(* extend_with_ready: poll with now_or_never until not ready (is_last     *)
(* false) or finished (is_last true); each frame is pushed, and an Err    *)
(* frame returns the error at once through `?`, dropping the batch.       *)
(***************************************************************************)
RECURSIVE ExtendWithReady(_, _)
\* A batch that reports the body finished when a poll is not ready.
ExtendWithReadyPendingIsLast(s, frames) ==
    CASE Head(s) \in {"pending", "end"} ->
            [frames |-> frames, isLast |-> TRUE, err |-> FALSE, rest |-> s]
      [] Head(s) = "error" ->
            [frames |-> <<>>, isLast |-> FALSE, err |-> TRUE, rest |-> Tail(s)]
      [] OTHER -> ExtendWithReady(Tail(s), Append(frames, Head(s)))

ExtendWithReady(s, frames) ==
    CASE Head(s) = "pending" ->
            [frames |-> frames, isLast |-> FALSE, err |-> FALSE, rest |-> Tail(s)]
      [] Head(s) = "end" ->
            [frames |-> frames, isLast |-> TRUE, err |-> FALSE, rest |-> s]
      [] Head(s) = "error" ->
            [frames |-> <<>>, isLast |-> FALSE, err |-> TRUE, rest |-> Tail(s)]
      [] OTHER -> ExtendWithReady(Tail(s), Append(frames, Head(s)))

(***************************************************************************)
(* next_frames: the awaited poll ends the body (an empty last batch),     *)
(* fails, or gives the batch's first frame, after which extend_with_ready *)
(* takes the ready ones.                                                   *)
(***************************************************************************)
NextFrames(s) ==
    LET w == AwaitFrame(s)
    IN  CASE Head(w) = "end" ->
                [frames |-> <<>>, isLast |-> TRUE, err |-> FALSE, rest |-> w]
          [] Head(w) = "error" ->
                [frames |-> <<>>, isLast |-> FALSE, err |-> TRUE, rest |-> Tail(w)]
          [] OTHER -> ExtendWithReady(Tail(w), <<Head(w)>>)

=============================================================================
