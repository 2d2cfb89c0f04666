---- MODULE WebSessions ----
(***************************************************************************)
(* Logins and sessions of the web interface (crates/artd/src/web/auth.rs   *)
(* and the handlers of web/mod.rs that use it): attempts are counted for   *)
(* each address, passwords are verified a few at a time, and a login       *)
(* leaves a token in a short list of sessions.                             *)
(*                                                                         *)
(* The password is right or wrong; the n-th token issued is n, and two     *)
(* tokens never coincide.  The clock moves in steps longer than a handler  *)
(* needs from reading it to taking the lock.  Waiting for a slot and       *)
(* verifying may take any time, and meanwhile the client may hang up: its  *)
(* handler is then dropped, with the slot it holds.                        *)
(*                                                                         *)
(* The lists of the code are in the order of time.  Here a list of         *)
(* attempts is a set of tries, those of one instant told apart by their    *)
(* number, and the list of sessions is a function from tokens to expiry.   *)
(***************************************************************************)
EXTENDS Naturals, Sequences, FiniteSets

CONSTANTS
    Requests,         \* requests served at once
    Addresses,        \* peers of the connections
    Window,           \* LOGIN_WINDOW
    MaxAttempts,      \* LOGIN_ATTEMPTS
    SweepThreshold,   \* SWEEP_THRESHOLD
    MaxTracked,       \* MAX_TRACKED_ADDRESSES
    Slots,            \* MAX_VERIFICATIONS_IN_FLIGHT
    Lifetime,         \* SESSION_LIFETIME
    MaxSessions,      \* MAX_SESSIONS
    MaxOrphans,       \* bound of the model: verifications no handler waits for
    MaxTime,          \* bound of the model: the clock
    MaxTokens         \* bound of the model: logins

ASSUME LimitsAssumption ==
    /\ {Window, MaxAttempts, Slots, Lifetime, MaxSessions} \subseteq Nat \ {0}
    /\ {SweepThreshold, MaxTracked, MaxOrphans, MaxTime, MaxTokens} \subseteq Nat
    /\ SweepThreshold < MaxTracked

VARIABLES
    clock,
    attempts,   \* Auth::attempts
    sessions,   \* Auth::sessions
    free,       \* permits of Auth::verifiers
    logins,     \* the requests that are logging in
    orphans,    \* verifications that run on though their client hung up
    issued,     \* history: what each token was given, and whether it was revoked
    accepted,   \* history: recent tries of each address since it last logged in
    passed      \* history: the token the guard last let through

sessionVars ==
    <<clock, attempts, sessions, free, logins, orphans, issued, accepted, passed>>

NoToken == 0
NoLogin == [at |-> "idle"]
Login == [at : {"waiting", "verifying", "issuing"}, from : Addresses]

SessionsInit ==
    /\ clock = 0
    /\ attempts = [a \in {} |-> {}] /\ sessions = [token \in {} |-> 0]
    /\ free = Slots
    /\ logins = [h \in Requests |-> NoLogin] /\ orphans = 0
    /\ issued = << >>
    /\ accepted = [a \in Addresses |-> {}]
    /\ passed = NoToken

----
(* Lists *)

\* What retain leaves of a list of attempts.
Recent(tries) == {try \in tries : clock - try.time < Window}

\* The next try of this instant.
Again(tries) ==
    [time |-> clock, nth |-> Cardinality({try \in tries : try.time = clock}) + 1]

With(table, key, value) ==
    [k \in DOMAIN table \cup {key} |-> IF k = key THEN value ELSE table[k]]
Without(table, keys) == [k \in DOMAIN table \ keys |-> table[k]]

----
(* api_login *)

\* Mutant: the table is emptied whenever it is crowded.
Emptied == [a \in {} |-> {}]

\* The sweep of note_attempt: addresses whose attempts have all aged out go.
Swept ==
    [a \in {b \in DOMAIN attempts : Recent(attempts[b]) # {}} |-> Recent(attempts[a])]

Crowded(from) == Cardinality(DOMAIN attempts) > SweepThreshold /\ from \notin DOMAIN attempts

\* Only a newcomer to a crowded table can find it full.
Full(table, from) == Crowded(from) /\ Cardinality(DOMAIN table) >= MaxTracked

TriesOf(table, from) == IF from \in DOMAIN table THEN Recent(table[from]) ELSE {}

\* note_attempt; a refusal is answered at once.
Attempt(h) ==
    /\ logins[h] = NoLogin
    /\ \E from \in Addresses :
         LET table == IF Crowded(from) THEN Swept ELSE attempts
             tries == TriesOf(table, from)
         IN CASE Full(table, from) ->
                   attempts' = table /\ UNCHANGED <<logins, accepted>>
              [] ~Full(table, from) /\ Cardinality(tries) >= MaxAttempts ->
                   attempts' = With(table, from, tries) /\ UNCHANGED <<logins, accepted>>
              [] OTHER ->
                   /\ attempts' = With(table, from, tries \cup {Again(tries)})
                   /\ logins' = [logins EXCEPT ![h] = [at |-> "waiting", from |-> from]]
                   /\ accepted' = [accepted EXCEPT ![from] = Recent(@) \cup {Again(Recent(@))}]
    /\ UNCHANGED <<clock, sessions, free, orphans, issued, passed>>

\* verify_slot: the permit is a value of the handler.
TakeSlot(h) ==
    /\ logins[h].at = "waiting" /\ free > 0
    /\ free' = free - 1
    /\ logins' = [logins EXCEPT ![h].at = "verifying"]
    /\ UNCHANGED <<clock, attempts, sessions, orphans, issued, accepted, passed>>

\* VERIFY_WAIT is over, or the client hung up while it waited.
GiveUp(h) ==
    /\ logins[h].at = "waiting"
    /\ logins' = [logins EXCEPT ![h] = NoLogin]
    /\ UNCHANGED <<clock, attempts, sessions, free, orphans, issued, accepted, passed>>

\* The password is wrong: the slot is free again, the attempt stays counted.
Reject(h) ==
    /\ logins[h].at = "verifying"
    /\ free' = free + 1
    /\ logins' = [logins EXCEPT ![h] = NoLogin]
    /\ UNCHANGED <<clock, attempts, sessions, orphans, issued, accepted, passed>>

\* The client hangs up during the verification: its handler is dropped, and the
\* permit with it, but a blocking call cannot be called off.
HangUp(h) ==
    /\ logins[h].at = "verifying" /\ orphans < MaxOrphans
    /\ free' = free + 1 /\ orphans' = orphans + 1
    /\ logins' = [logins EXCEPT ![h] = NoLogin]
    /\ UNCHANGED <<clock, attempts, sessions, issued, accepted, passed>>

\* Nobody waits for the answer: it neither clears an attempt nor issues a token.
OrphanEnds ==
    /\ orphans > 0
    /\ orphans' = orphans - 1
    /\ UNCHANGED <<clock, attempts, sessions, free, logins, issued, accepted, passed>>

\* The password is right: clear_attempts.
Accept(h) ==
    /\ logins[h].at = "verifying" /\ Len(issued) < MaxTokens
    /\ LET from == logins[h].from
       IN /\ attempts' = Without(attempts, {from})
          /\ accepted' = [accepted EXCEPT ![from] = {}]
    /\ logins' = [logins EXCEPT ![h].at = "issuing"]
    /\ UNCHANGED <<clock, sessions, free, orphans, issued, passed>>

----
(* Sessions *)

Live(list) == Without(list, {token \in DOMAIN list : list[token] <= clock})

\* Mutant: the newest session makes room.
NewestOut(list) ==
    IF Cardinality(DOMAIN list) >= MaxSessions
    THEN Without(list, {token \in DOMAIN list : \A other \in DOMAIN list : token >= other})
    ELSE list

\* issue drops the oldest session of a full list.
Room(list) ==
    IF Cardinality(DOMAIN list) >= MaxSessions
    THEN Without(list, {token \in DOMAIN list : \A other \in DOMAIN list : token <= other})
    ELSE list

\* Auth::issue; the slot is given back with the answer.
Issue(h) ==
    /\ logins[h].at = "issuing"
    /\ sessions' = With(Room(Live(sessions)), Len(issued) + 1, clock + Lifetime)
    /\ issued' = Append(issued, [expires |-> clock + Lifetime, revoked |-> FALSE])
    /\ free' = free + 1
    /\ logins' = [logins EXCEPT ![h] = NoLogin]
    /\ UNCHANGED <<clock, attempts, orphans, accepted, passed>>

\* guard, for a path that is not public: Auth::validate.
Guard(token) ==
    /\ sessions' = Live(sessions)
    /\ passed' = IF token \in DOMAIN sessions' THEN token ELSE NoToken
    /\ UNCHANGED <<clock, attempts, free, logins, orphans, issued, accepted>>

\* api_logout: Auth::revoke.
Logout(token) ==
    /\ sessions' = Without(sessions, {token})
    /\ issued' = [issued EXCEPT ![token].revoked = TRUE]
    /\ passed' = NoToken
    /\ UNCHANGED <<clock, attempts, free, logins, orphans, accepted>>

Tick ==
    /\ clock < MaxTime
    /\ clock' = clock + 1
    /\ passed' = NoToken
    /\ UNCHANGED <<attempts, sessions, free, logins, orphans, issued, accepted>>

SessionsNext ==
    \/ \E h \in Requests :
         \/ Attempt(h) \/ TakeSlot(h) \/ GiveUp(h)
         \/ Reject(h) \/ HangUp(h) \/ Accept(h) \/ Issue(h)
    \/ OrphanEnds
    \/ \E token \in 1 .. Len(issued) : Guard(token) \/ Logout(token)
    \/ Tick

SessionsSpec == SessionsInit /\ [][SessionsNext]_sessionVars

----
(* Properties *)

Tries == [time : Nat, nth : Nat]
Grants == [expires : Nat, revoked : BOOLEAN]

\* Types of the table of attempts, of the sessions and of the logins.  (auth.rs, Auth.)
SessionsTypeOK ==
    /\ clock \in Nat /\ free \in Nat /\ orphans \in Nat /\ passed \in Nat
    /\ DOMAIN attempts \subseteq Addresses
    /\ \A a \in DOMAIN attempts : attempts[a] \subseteq Tries
    /\ DOMAIN sessions \subseteq 1 .. Len(issued)
    /\ \A token \in DOMAIN sessions : sessions[token] \in Nat
    /\ logins \in [Requests -> Login \cup {NoLogin}]
    /\ issued \in Seq(Grants)
    /\ accepted \in [Addresses -> SUBSET Tries]

\* What a login can cost is bounded: an address that has not logged in since gets
\* no more than MaxAttempts tries in any window, though its entry is pruned, swept
\* and made again; the table of addresses never outgrows its limit; and a slot is
\* free or held by one handler that verifies, which gives it back once however it
\* ends, so that only verifications whose client hung up can run beyond the
\* slots.  (auth.rs, note_attempt, clear_attempts, verify_slot; mod.rs, api_login.)
AttemptsAreBounded ==
    /\ \A a \in Addresses : Cardinality(Recent(accepted[a])) <= MaxAttempts
    /\ Cardinality(DOMAIN attempts) <= MaxTracked
    /\ free + Cardinality({h \in Requests : logins[h].at \in {"verifying", "issuing"}}) = Slots

Valid(token) == issued[token].expires > clock /\ ~issued[token].revoked

\* A token works until it expires, its owner logs out, or MaxSessions logins
\* have followed it; and a token that was logged out or has expired never lets
\* a request through again.  (auth.rs, issue, validate, revoke.)
SessionsLast ==
    /\ \A token \in 1 .. Len(issued) :
         Valid(token) /\ Len(issued) - token < MaxSessions => token \in DOMAIN sessions
    /\ passed # NoToken => Valid(passed)
    /\ Cardinality(DOMAIN sessions) <= MaxSessions
====
