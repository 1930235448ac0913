------------------------------- MODULE Login --------------------------------
(***************************************************************************)
(* The login of the SDK (_auth.py).  A login polls the service until the   *)
(* user has signed in with the browser, lets it make an API key, and saves *)
(* the key in a file that all processes of the user share.  Each process   *)
(* keeps what it read from that file until it logs in or out itself.       *)
(***************************************************************************)
EXTENDS Naturals, FiniteSets

CONSTANTS Process,       \* processes of the user, each with one login at a time
          Backend,       \* the services one may log in to
          MaxAttempts,   \* max_attempts of the polling
          Lifetime,      \* how long a key is good for
          MaxTime,       \* bound: the time
          MaxLogins      \* bound: logins begun

VARIABLES disk,     \* auth.json
          cache,    \* _stored_login_cache, or Unread
          login,    \* the login of each process
          now,      \* the time
          keys,     \* how many keys the service has made
          others    \* history: who has read the file before another process changed it

loginVars == <<disk, cache, login, now, keys, others>>

Nothing == [key |-> 0, backend |-> "none", expires |-> 0]
Unread == [key |-> 0, backend |-> "unread", expires |-> 0]
Key == 0 .. MaxLogins
Credentials == [key : Key, backend : Backend \cup {"none", "unread"}, expires : Nat]
Polls == [at |-> "poll", backend |-> "none", attempt |-> 0, errors |-> 0, get |-> FALSE,
          key |-> 0, expires |-> 0]
Away == [Polls EXCEPT !.at = "away"]

TypeOK ==
  /\ disk \in Credentials /\ cache \in [Process -> Credentials]
  /\ \A p \in Process : /\ login[p].at \in {"away", "poll", "mint", "name", "save"}
                        /\ login[p].attempt \in 0 .. MaxAttempts /\ login[p].errors \in 0 .. 2
                        /\ login[p].key \in Key
  /\ now \in 0 .. MaxTime /\ keys \in Key
  /\ others \subseteq Process

Init == /\ disk = Nothing /\ cache = [p \in Process |-> Unread]
        /\ login = [p \in Process |-> Away]
        /\ now = 0 /\ keys = 0 /\ others = {}

Leaves(p) == login' = [login EXCEPT ![p] = Away]
Kept == UNCHANGED <<disk, cache, others>>

-----------------------------------------------------------------------------
Begin(p, b) ==
  /\ login[p].at = "away" /\ keys + Cardinality({q \in Process : login[q].at # "away"}) < MaxLogins
  /\ login' = [login EXCEPT ![p] = [Polls EXCEPT !.backend = b]]
  /\ UNCHANGED now /\ UNCHANGED keys /\ Kept

\* the next attempt, or the login fails
Again(p, errors, get) ==
  IF login[p].attempt + 1 = MaxAttempts \/ errors = 3 THEN Leaves(p)
  ELSE login' = [login EXCEPT ![p].attempt = @ + 1, ![p].errors = errors, ![p].get = get]

\* the request fails, or its status says so
PollFails(p) ==
  /\ login[p].at = "poll" /\ Again(p, login[p].errors + 1, login[p].get)
  /\ UNCHANGED <<now, keys>> /\ Kept
\* 404 of a service that knows POST, or that is asked with GET: not yet
NotYet(p) ==
  /\ login[p].at = "poll" /\ Again(p, 0, login[p].get)
  /\ UNCHANGED <<now, keys>> /\ Kept
\* 404 of a service that does not: GET from now on
NoPost(p) ==
  /\ login[p].at = "poll" /\ ~login[p].get /\ Again(p, login[p].errors, TRUE)
  /\ UNCHANGED <<now, keys>> /\ Kept
\* an answer: tokens, or something that ends the login
SignedIn(p) ==
  /\ login[p].at = "poll"
  /\ \/ Leaves(p)
     \/ login' = [login EXCEPT ![p] = [@ EXCEPT !.at = "mint", !.expires = now + Lifetime,
                                                !.attempt = 0, !.errors = 0, !.get = FALSE]]
  /\ UNCHANGED <<now, keys>> /\ Kept

\* a key that was made is lost when its answer is
Mint(p) ==
  /\ login[p].at = "mint" /\ keys < MaxLogins
  /\ \/ /\ keys' = keys + 1
        /\ login' = [login EXCEPT ![p].at = "name", ![p].key = keys']
     \/ keys' \in {keys, keys + 1} /\ Leaves(p)
  /\ UNCHANGED now /\ Kept
\* Mutant: the cache is left as it is.
ChangesDisk(p, new) ==
  /\ disk' = new /\ UNCHANGED cache
  /\ others' = (Process \ {p}) \cap (others \cup {q \in Process : cache[q] # Unread})

\* the e-mail address is asked for; then the key is saved and the cache is
\* forgotten, in one step
Changes(p, new) == /\ disk' = new
                   /\ cache' = [cache EXCEPT ![p] = Unread]
                   /\ others' = (Process \ {p}) \cap (others \cup {q \in Process : cache[q] # Unread})
Saved(p) ==
  /\ login[p].at = "name"
  /\ Changes(p, [key |-> login[p].key, backend |-> login[p].backend, expires |-> login[p].expires])
  /\ Leaves(p)
  /\ UNCHANGED <<now, keys>>
Logout(p) == Changes(p, Nothing) /\ UNCHANGED <<login, now, keys>>

\* get_stored_login_api_key: the file is read once; a key counts only until it
\* expires, and for the service it was made by
Known(p) == IF cache[p] = Unread THEN disk ELSE cache[p]
Usable(creds, b) ==
  IF creds.key # 0 /\ creds.expires > now /\ creds.backend = b THEN creds.key ELSE 0
Lookup(p) ==
  /\ cache' = [cache EXCEPT ![p] = Known(p)]
  /\ UNCHANGED <<disk, login, now, keys, others>>

Tick == now < MaxTime /\ now' = now + 1 /\ UNCHANGED <<disk, cache, login, keys, others>>

Step(p) == PollFails(p) \/ NotYet(p) \/ NoPost(p) \/ SignedIn(p) \/ Mint(p) \/ Saved(p)
Next == \/ \E p \in Process : \/ \E b \in Backend : Begin(p, b)
                              \/ Step(p) \/ Logout(p) \/ Lookup(p)
        \/ Tick
Spec == Init /\ [][Next]_loginVars
\* requests have time limits
Fairness == \A p \in Process : WF_loginVars(Step(p))
FairSpec == Spec /\ Fairness

-----------------------------------------------------------------------------
(* However logins, logouts and look-ups of processes interleave, a process *)
(* is given the key that is stored, if it is usable, unless another one    *)
(* changed the file after this one read it.                                *)
KeysAreCurrent ==
  /\ TypeOK
  /\ \A p \in Process \ others, b \in Backend : Usable(Known(p), b) = Usable(disk, b)

(* A login ends, however the service answers: every poll counts.           *)
LoginsEnd == \A p \in Process : []<>(login[p].at = "away")
=============================================================================
