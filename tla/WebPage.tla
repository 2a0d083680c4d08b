------------------------------- MODULE WebPage -------------------------------
(***************************************************************************)
(* One tab of the web front end with one page mounted: the React state of  *)
(* the page, the calls whose promise is pending, and what the services     *)
(* hold about what the page shows.  A handler runs up to its first await   *)
(* in one step; its continuation is a step of its own and finds whatever   *)
(* the user, timers and other continuations have made of the state since.  *)
(***************************************************************************)
EXTENDS Integers, Sequences, FiniteSets, SequencesExt, FiniteSetsExt

CONSTANTS MaxInFlight   \* bound: promises pending when a handler starts a call

ASSUME MaxInFlightAssumption == MaxInFlight \in Nat \ {0}

\* A continuation may start calls of its own.
Positions == 1..(MaxInFlight + 2)

VARIABLES
  page,     \* the mounted page
  ui,       \* its state: a record, the page's useState and useRef values
  net,      \* the pending calls, oldest first
  srv,      \* what the services hold
  mishap    \* history: a call failed, or was handled or answered before an older one

vars == <<page, ui, net, srv, mishap>>

Pending == [code |-> "pending"]
Failed  == [code |-> "failed"]     \* the promise rejects
Refused == [code |-> "refused"]    \* an answer whose code is not 0
Ok(v)   == [code |-> "ok", data |-> v]

\* A call with the values its continuation closes over.  request() of api.ts
\* rejects on any error status; a bare fetch parses the error like an answer.
Request(op, arg) == [op |-> op, arg |-> arg, ans |-> Pending, bare |-> FALSE]
Fetch(op, arg)   == [op |-> op, arg |-> arg, ans |-> Pending, bare |-> TRUE]

\* A handler or an effect leaves state s and starts calls.
Handle(s, calls) ==
  /\ Len(net) + Len(calls) <= MaxInFlight
  /\ ui' = s
  /\ net' = net \o calls
  /\ UNCHANGED <<page, srv, mishap>>

\* State changes that start no call.
Update(s) == Handle(s, <<>>)

Asked(i, ops)    == i \in DOMAIN net /\ net[i].op \in ops /\ net[i].ans = Pending
Answered(i, ops) == i \in DOMAIN net /\ net[i].op \in ops /\ net[i].ans # Pending
IsOk(i)          == net[i].ans.code = "ok"
Data(i)          == net[i].ans.data

\* The service handles call i: it answers v and holds s from now on, unless
\* the answer is lost on its way back.
Reply(i, v, s) ==
  /\ net[i].ans = Pending
  /\ \E a \in {Ok(v), Failed} :
       /\ net' = [net EXCEPT ![i].ans = a]
       /\ mishap' = (mishap \/ a = Failed \/ \E j \in 1..(i - 1) : net[j].ans = Pending)
  /\ srv' = s
  /\ UNCHANGED <<page, ui>>

\* Call i never reaches its service, or the service is in no state to do it.
Deny(i) ==
  /\ i \in DOMAIN net /\ net[i].ans = Pending
  /\ \E a \in {Failed} \cup (IF net[i].bare THEN {Refused} ELSE {}) :
       net' = [net EXCEPT ![i].ans = a]
  /\ mishap' = TRUE
  /\ UNCHANGED <<page, ui, srv>>

\* The continuation of call i leaves state s and starts calls.
Settle(i, s, calls) ==
  /\ net' = RemoveAt(net, i) \o calls
  /\ ui' = s
  /\ mishap' = (mishap \/ i > 1)
  /\ UNCHANGED <<page, srv>>

Quiet == net = <<>>

(***************************************************************************)
(* Lists of records with an id that grows.                                 *)
(***************************************************************************)
NewestFirst(s) == \A j, k \in DOMAIN s : j < k => s[j].id > s[k].id

\* What ORDER BY created_at DESC makes of h, which has at most n members.
Listings(h, n) == {s \in UNION {[1..m -> h] : m \in 0..n} : ToSet(s) = h /\ NewestFirst(s)}

\* The filter of a continuation that takes an entry off its list.
Without(s, id) ==
  LET kept[k \in 0..Len(s)] ==
        IF k = 0 THEN <<>>
        ELSE IF s[k].id = id THEN kept[k - 1] ELSE Append(kept[k - 1], s[k])
  IN kept[Len(s)]
==============================================================================
