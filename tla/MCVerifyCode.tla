---------------------------- MODULE MCVerifyCode ----------------------------
(***************************************************************************)
(* Instances of VerifyCode for TLC.  No state constraint is needed: the    *)
(* counter of a key cannot pass MaxAttempts + Cardinality(Calls) *         *)
(* MaxSends, so the state space is finite.                                 *)
(*                                                                         *)
(* The messages that ask for a code are evaluated on the way: each length  *)
(* that matters for the padding, with AppIDs of several lengths.           *)
(***************************************************************************)
EXTENDS VerifyCodeProofs, WechatMessage

\* A message of WeChat is read as it was packed, by the app it is for.
ASSUME MessagesAreReadSmall ==
    \A m \in 1..40, a, b \in 0..3 :
        LET message == [i \in 1..m |-> 60]
            packed  == Padded(Frame([i \in 1..16 |-> 0], message, [i \in 1..a |-> 1]))
        IN  DecryptWechatMessage(packed, [i \in 1..b |-> 1])
                = IF a = b THEN {message} ELSE {}
=============================================================================
