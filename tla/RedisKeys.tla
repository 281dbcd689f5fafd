----------------------------- MODULE RedisKeys -----------------------------
(***************************************************************************)
(* The four Redis commands the server issues, as operators on one key.     *)
(* Redis itself is not in the repository: each operator is what the calls  *)
(* in src/server.rs rely on.  A set key is a record [members, exp]; a key  *)
(* that does not exist has no members.  `now` is the Redis clock.          *)
(***************************************************************************)
EXTENDS Integers

\* The expiry of a key that never got an EXPIRE (what TTL reports as -1).
NoTTL == -1

\* A set key no command has touched.
NoSet == [members |-> {}, exp |-> NoTTL]

Alive(key, now) == key.exp = NoTTL \/ now < key.exp

\* The members a command executed at `now` sees: an expired key is gone.
Members(key, now) == IF Alive(key, now) THEN key.members ELSE {}

\* SADD adds one member.  A live key keeps its expiry, an expired one is
\* created afresh and has none.
Sadd(key, m, now) ==
    [members |-> Members(key, now) \cup {m},
     exp     |-> IF Alive(key, now) THEN key.exp ELSE NoTTL]

\* EXPIRE restarts the countdown of an existing key and ignores a missing one.
Expire(key, ttl, now) ==
    IF Members(key, now) = {}
    THEN key
    ELSE [members |-> key.members, exp |-> now + ttl]

\* A string key written by SETEX is represented by its expiry alone; 0 stands
\* for a key that was never written.
NoString == 0

SetEx(ttl, now) == now + ttl

Exists(exp, now) == now < exp
=============================================================================
