-------------------------- MODULE MCSessionCommands --------------------------
(* SessionCommands on small instances: one session, two processes.         *)
EXTENDS SessionCommands, TLC

CONSTANTS other, k1, v1, v2, c1, c2, i1, i2, s1, s2, t1, t2

Remember(v) == [type |-> "REMEMBER", key |-> k1, value |-> v, mid |-> Absent,
                expected |-> Absent]
Update(v, n) == [type |-> "UPDATE", key |-> k1, value |-> v, mid |-> Absent,
                 expected |-> n]
Forget(mid, n) == [type |-> "FORGET", key |-> k1, value |-> Absent, mid |-> mid,
                   expected |-> n]

Command(op) == [kind |-> "command", op |-> op]
Message == [kind |-> "message", op |-> Absent]
Other == [kind |-> "other", op |-> Absent]

MCBodies == {Command(Remember(v1)), Command(Update(v2, 1)),
             Command(Forget(Absent, Absent)), Command(Forget(1, 1)),
             Message, Other}

Call(id, key, body) ==
  [stream |-> Session, id |-> id, key |-> key, body |-> body]

\* Create, update under a version, forget; the last two can be retried under
\* their key or event id.
MCCommands == {Call(None, None, Command(Remember(v1))),
               Call(None, i1, Command(Update(v2, 1))),
               Call(c1, None, Command(Forget(1, 1)))}

\* The same update, retried under its idempotency key with a new event id.
MCRetries == {Call(None, None, Command(Remember(v1))),
              Call(c1, i1, Command(Update(v2, 1))),
              Call(c2, i1, Command(Update(v2, 1)))}

MCPlainWrites == {Call(None, None, Message), Call(None, i1, Other)}

\* The same, and an event of another stream under a command's event id.
MCTwoStreamWrites ==
  MCPlainWrites \cup {[stream |-> other, id |-> c1, key |-> None, body |-> Message]}

MCHome == (t1 :> s1) @@ (t2 :> s2)
=============================================================================
