---------------------------- MODULE MCForwarder ----------------------------
(* Model-checking instances of Forwarder; the .cfg files choose among them.  *)
EXTENDS Forwarder, TLC

CONSTANTS r1, r2, r3

Two == {r1, r2}
Three == {r1, r2, r3}

PoolPinned == [r \in Requests |-> IF r = r1 THEN [mode |-> "pool", key |-> 0]
                                  ELSE [mode |-> "pinned", key |-> 2]]
PoolPinnedTest == [r \in Requests |-> CASE r = r1 -> [mode |-> "pinned", key |-> 1]
                                        [] r = r2 -> [mode |-> "test", key |-> 1]
                                        [] OTHER -> [mode |-> "pool", key |-> 0]]

NoQuota == [k \in KeyIds |-> None]
QuotaOfTwo == [k \in KeyIds |-> 2]

NoKeys == {}
KeyOne == {1}
NoHeader == {None}
NoCredits == None
OneSecond == {1}

AllAnswers == AnswerKinds
OkOrTimeout == {"ok", "timeout"}
=============================================================================
