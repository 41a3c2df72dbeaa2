---------------------------- MODULE RelayProcess ----------------------------
(***************************************************************************)
(* Relay processes and the authorities that list them: how `gotham-relay   *)
(* run' starts (crypto-gotham-relay/src/main.rs, nat.rs), its enrollment   *)
(* loop and its self-check (enroll_client.rs, main.rs), the authority's    *)
(* /enroll handler with its probe of the relay                             *)
(* (crypto-gotham-authority/src/main.rs), the possession proof and the     *)
(* rules of an enrollment (crypto-gotham/src/enroll.rs).  A probe is a     *)
(* connection of module Link.  Enrollment starts before the listener, and  *)
(* a process may end between the two.  Sequence numbers, times and the     *)
(* caps of a list are in module Authority.                                 *)
(***************************************************************************)
EXTENDS Link

CONSTANTS
  Authorities,
  QUORUM,        \* of watch_own_listing and doctor
  Private,       \* an address that does not answer from outside
  Bounds         \* the bounds `bound' is one of: the authorities a relay knows (urls),
                 \* the permits (inflight, probes), the configurations of a launch
                 \* and how often things may happen

VARIABLES
  proc,     \* [Relays -> [stage, cfg, addr, inc]]
  wan,      \* [Relays -> Addrs]: the public address of the relay's host
  open,     \* [Relays -> BOOLEAN]: packets to it reach the host
  popKey,   \* [Authorities -> Nat]: the authority's possession-proof key
  target,   \* [Relays -> [Authorities -> key or None]]: AuthorityTarget.pop_pk
  loop,     \* [Relays -> [at, phase, payload]]: run_enrollment_loop
  desk,     \* [Authorities -> [Relays -> request or None]]: /enroll
  reg,      \* [Authorities -> [Relays -> entry or None]]: the registry
  watch,    \* [Relays -> [at, seen, asked, was]]: watch_own_listing
  reached,  \* history: pairs a relay was reachable by
  learned,  \* history: [Relays -> keys its process was given as queriers]
  launches, \* launches so far
  moves     \* changes of the network, and restarts of authorities, so far

procVars == <<bound, proc, wan, open, popKey, target, loop, desk, reg, watch,
              reached, learned, launches, moves>>
vars == <<linkVars, procVars>>

Key(a) == <<a, popKey[a]>>
Urls == ToSet(bound.urls)
NextUrl(i) == (i % Len(bound.urls)) + 1
Running(r) == proc[r].stage \in {"enrolling", "serving"}
Down == [stage |-> "down", cfg |-> None, addr |-> None, inc |-> 0]
FirstTurn == [at |-> 1, phase |-> "ready", payload |-> None]
FirstWatch == [at |-> 1, seen |-> 0, asked |-> 0, was |-> {}]

(* Who answers at an address: a listener whose host has it.                *)
Answering(p, w, o) ==
  [a \in Addrs |->
     LET here == {r \in Relays : p[r].stage = "serving" /\ p[r].cfg.via = None /\ w[r] = a /\ o[r]}
     IN  IF here = {} THEN None ELSE CHOOSE r \in here : TRUE]
Reachable(p, w, o) == {<<Answering(p, w, o)[a], a>> : a \in {b \in Addrs : Answering(p, w, o)[b] # None}}

-----------------------------------------------------------------------------
(* RelayEnrollment.                                                        *)
new_enrollment(kem, addr, operator, inc) ==
  [kem |-> kem, addr |-> addr, operator |-> operator, inc |-> inc,
   rendezvous |-> None, capable |-> FALSE, mailbox |-> FALSE]
base_enrollment(r) ==
  LET cfg == proc[r].cfg IN
  [new_enrollment(r, proc[r].addr, cfg.operator, proc[r].inc) EXCEPT
     !.rendezvous = cfg.via, !.capable = cfg.capable, !.mailbox = cfg.mailbox]

binding_hash(e) == [f \in DOMAIN e \ {"pop_proof"} |-> e[f]]

with_pop_proof(e, pk) ==
  [f \in DOMAIN e \cup {"pop_proof"} |->
     IF f \in DOMAIN e THEN e[f]
     ELSE IF pk = None THEN None ELSE [key |-> pk, by |-> e.kem, of |-> e]]

verify_pop_v2(e, a) ==
  e.pop_proof # None /\ e.pop_proof = [key |-> Key(a), by |-> e.kem, of |-> binding_hash(e)]

(* The rules of validate that a relay's own configuration can break.       *)
valid(e) ==
  IF e.rendezvous # None THEN ~e.capable /\ e.rendezvous # "garbled"
  ELSE e.addr \in Addrs \cup {Private}

(* Registry::rendezvous_point.                                             *)
IsPoint(a, p) == p \in Relays /\ reg[a][p] # None /\ reg[a][p].rendezvous = None /\ reg[a][p].capable

-----------------------------------------------------------------------------
(* `run' up to the enrollment task: the address it advertises, or an       *)
(* error.                                                                  *)
Advertised(r, cfg) ==
  IF cfg.via # None THEN {None}
  ELSE IF cfg.advertise # None THEN {cfg.advertise} \ {"garbage"}
  ELSE IF ~cfg.upnp \/ cfg.nat \notin {"igd", "cgnat"} THEN {}
  ELSE {IF cfg.nat = "cgnat" THEN Private ELSE wan[r]}

(* upnp_autoconfigure has the router forward the port.                     *)
Forwards(cfg) == cfg.via = None /\ cfg.advertise = None /\ cfg.upnp /\ cfg.nat = "igd"

Launch(r) ==
  /\ proc[r].stage = "down" /\ launches < bound.launches
  /\ launches' = launches + 1
  /\ \E cfg \in bound.configs[r] :
       /\ open' = [open EXCEPT ![r] = @ \/ cfg.nat = "open" \/ Forwards(cfg)]
       /\ IF bound.urls # <<>> /\ (Advertised(r, cfg) = {} \/ ~cfg.tier)
          THEN UNCHANGED <<proc, target, queriers, learned, loop, watch>>
          ELSE /\ proc' = [proc EXCEPT ![r] = [stage |-> "enrolling", cfg |-> cfg, inc |-> launches + 1,
                                               addr |-> CHOOSE x \in Advertised(r, cfg) : TRUE]]
               /\ target' = [target EXCEPT ![r] = [a \in Authorities |->
                                IF bound.urls # <<>> /\ a = Head(bound.urls) THEN cfg.pin ELSE None]]
               /\ queriers' = [queriers EXCEPT ![r] = querier_keys(cfg.pin)]
               /\ learned' = [learned EXCEPT ![r] = {cfg.pin} \ {None}]
               /\ loop' = [loop EXCEPT ![r] = FirstTurn]
               /\ watch' = [watch EXCEPT ![r] = FirstWatch]
  /\ UNCHANGED <<listening, services, tunnels, permits, conns, faults,
                 bound, wan, popKey, desk, reg, reached, moves>>

(* The rest of `run': gossip, the flags of the rendezvous, the listener.   *)
MayServe(cfg) ==
  /\ cfg.gossip = "on" => cfg.advertise # None
  /\ cfg.gossip # "broken"
  /\ (cfg.via = None) = (cfg.dial = None)
  /\ cfg.via # "garbled"

Serve(r) ==
  LET cfg == proc[r].cfg IN
  /\ proc[r].stage = "enrolling" /\ MayServe(cfg)
  /\ proc' = [proc EXCEPT ![r].stage = "serving"]
  /\ services' = [services EXCEPT ![r] =
                    IF cfg.via # None THEN {}
                    ELSE (IF cfg.mailbox THEN {"mailbox"} ELSE {})
                         \cup (IF cfg.gossip = "on" THEN {"gossip"} ELSE {})]
  /\ listening' = Answering(proc', wan, open)
  /\ reached' = reached \cup Reachable(proc', wan, open)
  /\ UNCHANGED <<queriers, tunnels, permits, conns, faults, bound, wan, open, popKey, target, loop,
                 desk, reg, watch, learned, launches, moves>>

(* The process ends: a configuration `run' refuses only now, SIGTERM, or a *)
(* crash.  What it writes to disk then is in ReplayCache and Mailbox.      *)
End(r) ==
  /\ proc' = [proc EXCEPT ![r] = Down]
  /\ LinkCrash(r)
  /\ UNCHANGED <<faults, bound, wan, open, popKey, target, loop, desk, reg, watch, reached,
                 learned, launches, moves>>
ExitWithError(r) == proc[r].stage = "enrolling" /\ ~MayServe(proc[r].cfg) /\ End(r)
Stop(r) == Running(r) /\ launches < bound.launches /\ End(r)

-----------------------------------------------------------------------------
(* The network.  The router drops the forwarding; the lease's renewal puts *)
(* it back (the task upnp_autoconfigure leaves behind).  The host gets     *)
(* another public address, which the process never asks for again.         *)
Moved(w, o) ==
  /\ wan' = w /\ open' = o
  /\ listening' = Answering(proc, w, o)
  /\ reached' = reached \cup Reachable(proc, w, o)
  /\ UNCHANGED <<services, queriers, tunnels, permits, conns, faults, bound, proc, popKey, target,
                 loop, desk, reg, watch, learned, launches>>
LeaseLost(r) ==
  /\ Running(r) /\ Forwards(proc[r].cfg) /\ open[r] /\ moves < bound.moves
  /\ moves' = moves + 1 /\ Moved(wan, [open EXCEPT ![r] = FALSE])
RenewLease(r) ==
  /\ Running(r) /\ Forwards(proc[r].cfg) /\ ~open[r]
  /\ UNCHANGED moves /\ Moved(wan, [open EXCEPT ![r] = TRUE])
NewAddress(r) ==
  /\ moves < bound.moves /\ moves' = moves + 1
  /\ \E a \in Addrs \ {wan[q] : q \in Relays} : Moved([wan EXCEPT ![r] = a], open)

(* The tunnel of a hosted relay, which module Rendezvous has in detail: it *)
(* holds a permit of the point's listener.                                 *)
TunnelUp(h) ==
  LET cfg == proc[h].cfg IN
  /\ proc[h].stage = "serving" /\ cfg.via # None
  /\ cfg.dial \in Addrs /\ listening[cfg.dial] = cfg.via
  /\ <<cfg.via, h>> \notin tunnels /\ permits[cfg.via] > 0
  /\ tunnels' = tunnels \cup {<<cfg.via, h>>}
  /\ permits' = [permits EXCEPT ![cfg.via] = @ - 1]
  /\ reached' = reached \cup {<<h, cfg.via>>}
  /\ UNCHANGED <<listening, services, queriers, conns, faults, bound, proc, wan, open, popKey, target,
                 loop, desk, reg, watch, learned, launches, moves>>
TunnelLost(t) ==
  /\ t \in tunnels /\ faults > 0 /\ faults' = faults - 1
  /\ tunnels' = tunnels \ {t}
  /\ permits' = [permits EXCEPT ![t[1]] = @ + 1]
  /\ UNCHANGED <<listening, services, queriers, conns, procVars>>

-----------------------------------------------------------------------------
(* run_enrollment_loop, at one authority: the key is fetched if there is   *)
(* none, handed to the listener as a querier, and the proof attached.      *)
At(r) == bound.urls[loop[r].at]
Enrolling(r) == Running(r) /\ bound.urls # <<>>

BuildWith(r, pk, learn) ==
  /\ target' = [target EXCEPT ![r][At(r)] = pk]
  /\ queriers' = [queriers EXCEPT ![r] = IF learn THEN add_querier_key(@, pk) ELSE @]
  /\ learned' = [learned EXCEPT ![r] = IF learn THEN @ \cup {pk} ELSE @]
  /\ loop' = [loop EXCEPT ![r].phase = "built",
                          ![r].payload = with_pop_proof(base_enrollment(r), pk)]
  /\ UNCHANGED <<listening, services, tunnels, permits, conns, bound, proc, wan, open,
                 popKey, desk, reg, watch, reached, launches, moves>>
Build(r) ==
  /\ Enrolling(r) /\ loop[r].phase = "ready" /\ UNCHANGED faults
  /\ LET pk == IF target[r][At(r)] # None THEN target[r][At(r)] ELSE Key(At(r))
     IN  BuildWith(r, pk, proc[r].cfg.capable)
(* The fetch of /pop fails: enrollment goes on without a proof.            *)
BuildUnproven(r) ==
  /\ Enrolling(r) /\ loop[r].phase = "ready" /\ target[r][At(r)] = None
  /\ faults > 0 /\ faults' = faults - 1
  /\ BuildWith(r, None, FALSE)

(* The request reaches /enroll: token, possession proof and probe permit,  *)
(* and the connection of the probe; or the answer at once.                 *)
Probing(a) == {r \in Relays : desk[a][r] # None /\ desk[a][r].reply = None}
Request(e, reply) == [e |-> e, reply |-> reply]
ReplyAtOnce(a, r, e) ==
  IF ~proc[r].cfg.token THEN "token"
  ELSE IF ~valid(e) THEN "invalid"
  ELSE IF ~verify_pop_v2(e, a) THEN "possession proof"
  ELSE IF Cardinality(Probing(a)) >= bound.probes THEN "busy"
  ELSE IF e.rendezvous # None /\ ~IsPoint(a, e.rendezvous) THEN "no point"
  ELSE None
Post(r) ==
  LET a == At(r)
      e == loop[r].payload
      reply == ReplyAtOnce(a, r, e)
  IN
  /\ Running(r) /\ loop[r].phase = "built" /\ desk[a][r] = None /\ ~InUse(<<a, r>>)
  /\ loop' = [loop EXCEPT ![r].phase = "waiting", ![r].payload = None]
  /\ desk' = [desk EXCEPT ![a][r] = Request(e, reply)]
  /\ IF reply # None THEN UNCHANGED conns
     ELSE IF e.rendezvous = None THEN Dial(<<a, r>>, "probe", a, e.addr, r, None)
     ELSE Dial(<<a, r>>, "query", Key(a), reg[a][e.rendezvous].addr, e.rendezvous, r)
  /\ UNCHANGED <<listening, services, queriers, tunnels, permits, faults, bound, proc, wan, open, popKey,
                 target, reg, watch, reached, learned, launches, moves>>

(* The probe is over: only a handshake that was done, or a yes, registers. *)
(* Mutant: a query that is answered registers, whatever it says.           *)
ProvenByAnswer(c) == conns[c].client = "done" /\ (conns[c].use = "query" => conns[c].answer # None)
Proven(c) == conns[c].client = "done" /\ (conns[c].use = "query" => conns[c].answer = "yes")
Probed(a, r) ==
  LET c == <<a, r>> IN
  /\ desk[a][r] # None /\ desk[a][r].reply = None /\ InUse(c)
  /\ \/ conns[c].client = "failed"
     \/ conns[c].client = "done" /\ (conns[c].use = "query" => conns[c].answer # None)
  /\ conns' = Set(c, "closed", conns[c].server)
  /\ desk' = [desk EXCEPT ![a][r].reply = IF Proven(c) THEN "ok" ELSE "unreachable"]
  /\ reg' = [reg EXCEPT ![a][r] = IF Proven(c) THEN desk[a][r].e ELSE @]
  /\ UNCHANGED <<listening, services, queriers, tunnels, permits, faults, bound, proc, wan, open, popKey,
                 target, loop, watch, reached, learned, launches, moves>>

(* The loop reads the answer.  A key it was not given but fetched is       *)
(* dropped when the authority says the proof is wrong.                     *)
NextTurn(r) == [at |-> NextUrl(loop[r].at), phase |-> "ready", payload |-> None]
Pinned(r, a) == proc[r].cfg.pin # None /\ a = Head(bound.urls)
(* Mutant: the key is kept, so a new key of the authority is never learned.*)
HeardKeeping(r) ==
  LET a == At(r) IN
  /\ Running(r) /\ loop[r].phase = "waiting" /\ desk[a][r] # None /\ desk[a][r].reply # None
  /\ UNCHANGED target
  /\ desk' = [desk EXCEPT ![a][r] = None]
  /\ loop' = [loop EXCEPT ![r] = NextTurn(r)]
  /\ UNCHANGED <<linkVars, bound, proc, wan, open, popKey, reg, watch, reached, learned,
                 launches, moves>>
Heard(r) ==
  LET a == At(r) IN
  /\ Running(r) /\ loop[r].phase = "waiting" /\ desk[a][r] # None /\ desk[a][r].reply # None
  /\ target' = [target EXCEPT ![r][a] =
                  IF desk[a][r].reply = "possession proof" /\ ~Pinned(r, a) THEN None ELSE @]
  /\ desk' = [desk EXCEPT ![a][r] = None]
  /\ loop' = [loop EXCEPT ![r] = NextTurn(r)]
  /\ UNCHANGED <<linkVars, bound, proc, wan, open, popKey, reg, watch, reached, learned,
                 launches, moves>>
(* The request fails: the authority restarted, or the answer is too late.  *)
Unheard(r) ==
  /\ Running(r) /\ loop[r].phase = "waiting"
  /\ \/ desk[At(r)][r] = None /\ UNCHANGED faults
     \/ desk[At(r)][r] # None /\ faults > 0 /\ faults' = faults - 1
  /\ loop' = [loop EXCEPT ![r] = NextTurn(r)]
  /\ UNCHANGED <<listening, services, queriers, tunnels, permits, conns, bound, proc, wan, open, popKey,
                 target, desk, reg, watch, reached, learned, launches, moves>>
(* A handler whose caller is gone writes its answer to nobody.             *)
Waits(r, a) == Running(r) /\ loop[r].phase = "waiting" /\ At(r) = a
LeaveDesk(a, r) ==
  /\ desk[a][r] # None /\ desk[a][r].reply # None /\ ~Waits(r, a)
  /\ desk' = [desk EXCEPT ![a][r] = None]
  /\ UNCHANGED <<linkVars, bound, proc, wan, open, popKey, target, loop, reg, watch, reached,
                 learned, launches, moves>>

(* An authority restarts, with the key it had or with another: the         *)
(* registry is in memory.                                                  *)
Restart(a) ==
  /\ moves < bound.moves /\ moves' = moves + 1 /\ a \in Urls
  /\ popKey' \in {popKey, [popKey EXCEPT ![a] = 3 - @]}
  /\ reg' = [reg EXCEPT ![a] = [r \in Relays |-> None]]
  /\ desk' = [desk EXCEPT ![a] = [r \in Relays |-> None]]
  /\ conns' = [c \in Slots |-> IF InUse(c) /\ OfDesk(c) /\ c[1] = a
                               THEN [conns[c] EXCEPT !.client = "closed"] ELSE conns[c]]
  /\ UNCHANGED <<listening, services, queriers, tunnels, permits, faults, bound, proc, wan, open, target,
                 loop, watch, reached, learned, launches>>

(* prune_at: an entry that is not renewed goes.                            *)
Prune(a, r) ==
  /\ reg[a][r] # None /\ ~Running(r)
  /\ reg' = [reg EXCEPT ![a][r] = None]
  /\ UNCHANGED <<linkVars, bound, proc, wan, open, popKey, target, loop, desk, watch, reached,
                 learned, launches, moves>>

-----------------------------------------------------------------------------
(* watch_own_listing looks for the relay's key anywhere in the list, so a  *)
(* relay it hosts counts too.                                              *)
Lists(a, r) == reg[a][r] # None
to_descriptor(e) == [f \in {"kem", "addr", "operator", "mailbox", "rendezvous", "capable"} |-> e[f]]
Mentions(a, r) ==
  \E q \in Relays : Lists(a, q) /\ r \in {to_descriptor(reg[a][q]).kem, to_descriptor(reg[a][q]).rendezvous}

(* Mutant: a first result of FALSE is not a change.                        *)
ReportedChanges(was, seen, asked) ==
  IF asked = 0 \/ (was = {} /\ seen < QUORUM) THEN was ELSE {seen >= QUORUM}
Reported(was, seen, asked) == IF asked = 0 THEN was ELSE {seen >= QUORUM}

Asked(r, answered) ==
  LET w == watch[r]
      asked == w.asked + (IF answered THEN 1 ELSE 0)
      seen == w.seen + (IF answered /\ Mentions(bound.urls[w.at], r) THEN 1 ELSE 0)
  IN
  /\ watch' = [watch EXCEPT ![r] =
       IF w.at < Len(bound.urls) THEN [w EXCEPT !.at = @ + 1, !.seen = seen, !.asked = asked]
       ELSE [FirstWatch EXCEPT !.was = Reported(w.was, seen, asked)]]
  /\ UNCHANGED <<listening, services, queriers, tunnels, permits, conns, bound, proc, wan, open, popKey,
                 target, loop, desk, reg, reached, learned, launches, moves>>
Watching(r) == Enrolling(r) /\ bound.watched
Ask(r) == Watching(r) /\ UNCHANGED faults /\ Asked(r, TRUE)
AskInVain(r) ==
  Watching(r) /\ faults > 0 /\ faults' = faults - 1 /\ Asked(r, FALSE)

(* doctor: a view of each authority, and a verdict.                        *)
ask_authority(a, r) == [listed |-> Lists(a, r), operator |-> Lists(a, r) /\ to_descriptor(reg[a][r]).operator]
(* Mutant: any list that names the relay decides.                          *)
run_doctor_any(views, urls) ==
  IF \A i \in DOMAIN urls : ~views[urls[i]].listed THEN 1
  ELSE LET i == CHOOSE i \in DOMAIN urls : views[urls[i]].listed
       IN IF views[urls[i]].operator THEN 0 ELSE 1
run_doctor(views, urls) ==
  IF Cardinality({i \in DOMAIN urls : views[urls[i]].listed}) < QUORUM THEN 1
  ELSE LET first == CHOOSE i \in DOMAIN urls :
                      views[urls[i]].listed /\ \A j \in 1 .. i - 1 : ~views[urls[j]].listed
       IN IF views[urls[first]].operator THEN 0 ELSE 1
Doctor(r) == run_doctor([a \in Urls |-> ask_authority(a, r)], bound.urls)

(* Other clients of the listeners.                                         *)
Connect(c) ==
  /\ c \in bound.slots
  /\ \E d \in bound.dials : Dial(c, d.use, "client", d.addr, d.expect, None)
  /\ UNCHANGED <<listening, services, queriers, tunnels, permits, faults, procVars>>

-----------------------------------------------------------------------------
Init ==
  /\ bound \in Bounds
  /\ LinkInit /\ faults = bound.faults
  /\ proc = [r \in Relays |-> Down]
  /\ wan = bound.wan
  /\ open = [r \in Relays |-> FALSE]
  /\ popKey = [a \in Authorities |-> 1]
  /\ target = [r \in Relays |-> [a \in Authorities |-> None]]
  /\ loop = [r \in Relays |-> FirstTurn]
  /\ desk = [a \in Authorities |-> [r \in Relays |-> None]]
  /\ reg = [a \in Authorities |-> [r \in Relays |-> None]]
  /\ watch = [r \in Relays |-> FirstWatch]
  /\ reached = {}
  /\ learned = [r \in Relays |-> {}]
  /\ launches = 0
  /\ moves = 0

EnrollStep(r) == Build(r) \/ Post(r) \/ Heard(r) \/ Unheard(r)

Next ==
  \/ \E r \in Relays :
       \/ Launch(r) \/ Serve(r) \/ ExitWithError(r) \/ Stop(r)
       \/ LeaseLost(r) \/ RenewLease(r) \/ NewAddress(r) \/ TunnelUp(r)
       \/ EnrollStep(r) \/ BuildUnproven(r) \/ Ask(r) \/ AskInVain(r)
  \/ \E a \in Authorities :
       \/ Restart(a)
       \/ \E r \in Relays : Probed(a, r) \/ LeaveDesk(a, r) \/ Prune(a, r)
  \/ \E t \in tunnels : TunnelLost(t)
  \/ \E c \in Slots : Connect(c) \/ ((LinkStep(c) \/ LinkOther(c)) /\ UNCHANGED procVars)

Spec == Init /\ [][Next]_vars

(* Tasks run, timers fire, and the losses and changes of the network end   *)
(* (bound.faults, bound.moves): from then on what is sent arrives.  Nothing*)
(* is asked of the other clients of a listener.                            *)
FairSpec ==
  /\ Spec
  /\ \A r \in Relays :
       /\ WF_vars(Serve(r)) /\ WF_vars(RenewLease(r)) /\ WF_vars(TunnelUp(r))
       /\ WF_vars(EnrollStep(r)) /\ WF_vars(Ask(r))
       /\ \A a \in Authorities : /\ WF_vars(Probed(a, r) \/ LeaveDesk(a, r))
                                 /\ WF_vars(LinkStep(<<a, r>>) /\ UNCHANGED procVars)

-----------------------------------------------------------------------------
(* A point that an authority lists answers that authority's queries about  *)
(* the relays it hosts: the key that proved the enrollment is in its table *)
(* while no more than MAX_QUERIER_KEYS were learned (add_querier_key).     *)
QuerierKept(a, r) ==
  /\ Running(r) /\ proc[r].cfg.capable /\ Cardinality(learned[r]) <= MaxQuerierKeys
  /\ reg[a][r].inc = proc[r].inc
  => querier_known(queriers[r], reg[a][r].pop_proof.key)

(* An authority lists a relay only at an address where a process with that *)
(* key answered, or through a point that held its tunnel, although         *)
(* enrollment starts before the listener does and addresses change hands;  *)
(* a serving relay has the mailbox its entry promises (enroll, `run'), and *)
(* a point answers the authority's queries.                                *)
ListedAsServed ==
  \A a \in Authorities, r \in Relays :
    LET e == reg[a][r] IN
    e # None =>
      /\ <<r, IF e.rendezvous = None THEN e.addr ELSE e.rendezvous>> \in reached
      /\ proc[r].stage = "serving" /\ e.inc = proc[r].inc /\ e.rendezvous = None /\ e.mailbox
           => "mailbox" \in services[r]
      /\ QuerierKept(a, r)

(* doctor tells an operator that the relay works just when a quorum lists  *)
(* it with the operator path selection asks for, unless the authorities'   *)
(* entries differ (run_doctor).                                            *)
VerdictRight ==
  \A r \in Relays :
    (\A a, b \in Urls : Lists(a, r) /\ Lists(b, r) => reg[a][r].operator = reg[b][r].operator)
    => (Doctor(r) = 0 <=> Cardinality({a \in Urls : Lists(a, r) /\ reg[a][r].operator}) >= QUORUM)

(* A relay that keeps running with a sound configuration is in the end     *)
(* listed by every authority it knows, whatever failed before: retries,    *)
(* restarts, a new key of the authority, a tunnel or a lease lost on the   *)
(* way (run_enrollment_loop).  The authority has a probe permit for each   *)
(* relay that may ask at the same time.                                    *)
Direct(r) == proc[r].stage = "serving" /\ proc[r].cfg.via = None /\ proc[r].addr = wan[r] /\ open[r]
Sound(r, a) ==
  /\ proc[r].stage = "serving" /\ a \in Urls /\ bound.probes >= Cardinality(Relays)
  /\ LET cfg == proc[r].cfg IN
     /\ cfg.token
     /\ Pinned(r, a) => cfg.pin = Key(a)
     /\ \/ Direct(r)
        \/ /\ cfg.via \in Relays /\ ~cfg.capable
           /\ Direct(cfg.via) /\ cfg.dial = wan[cfg.via]
           /\ proc[cfg.via].cfg.token /\ proc[cfg.via].cfg.capable
           /\ Pinned(cfg.via, a) => proc[cfg.via].cfg.pin = Key(a)
SoundListed ==
  \A r \in Relays, a \in Authorities : <>[]Sound(r, a) => <>[]Lists(a, r)

(* The self-check ends with the report that is right: listed when a quorum *)
(* keeps listing the relay, not listed when fewer than a quorum mention it *)
(* (watch_own_listing).                                                    *)
SelfCheckSettles ==
  \A r \in Relays :
    /\ <>[](Watching(r) /\ Cardinality({a \in Urls : Lists(a, r)}) >= QUORUM)
         => <>[](watch[r].was = {TRUE})
    /\ <>[](Watching(r) /\ Cardinality({a \in Urls : Mentions(a, r)}) < QUORUM)
         => <>[](watch[r].was = {FALSE})
=============================================================================
