------------------------------ MODULE OneShot -------------------------------
(***************************************************************************)
(* What a shared_state promises to a promise and to the subscriber of its  *)
(* future (state.hpp): a result and a callback are each set at most once,  *)
(* in either order, and the callback is called exactly once, after both    *)
(* are there.                                                              *)
(***************************************************************************)
VARIABLES hasResult, hasCallback, called

oneShotVars == <<hasResult, hasCallback, called>>

OneShotInit == ~hasResult /\ ~hasCallback /\ ~called

SetResult == ~hasResult /\ hasResult' = TRUE /\ UNCHANGED <<hasCallback, called>>

SetCallback == ~hasCallback /\ hasCallback' = TRUE /\ UNCHANGED <<hasResult, called>>

Call == /\ hasResult /\ hasCallback /\ ~called
        /\ called' = TRUE
        /\ UNCHANGED <<hasResult, hasCallback>>

OneShotNext == SetResult \/ SetCallback \/ Call

OneShotSpec == OneShotInit /\ [][OneShotNext]_oneShotVars

=============================================================================
