------------------------------ MODULE NetRepair ------------------------------
(***************************************************************************)
(* The network set-up of the arms (netsetup): match() finds by trial the   *)
(* NIC on which an arm answers, repair() does so only for arms that do not *)
(* answer, reconcile() pins the profiles to the NICs found.  repair() is   *)
(* run as root by the NetworkManager dispatcher on every up or down of a   *)
(* NIC, one at a time under a file lock; match() is run by a user, at the  *)
(* start of a session or by hand, and takes no lock.                       *)
(*                                                                         *)
(* NetworkManager, the cables and the control boxes are the environment.   *)
(* A NIC and its MAC are one; the reads of one round of nmcli, ip and ping *)
(* are one step, every nmcli call that changes something is its own.       *)
(***************************************************************************)
EXTENDS Naturals, Sequences, FiniteSets, SequencesExt

CONSTANTS Arms, Order,   \* the arms, and their order in the configuration
          Nics,          \* ethernet NICs but the one of the default route
          Stray,         \* NICs with a carrier that does not come from an arm
          Profiles, Of,  \* connection profiles, and the arm of each one's subnet
          Cabling,       \* where the arms are plugged in at first
          Fresh,         \* profiles that exist where nothing has been matched yet
          Mapped,        \* and those that are in use where the arms have been matched
          Booting,       \* arms whose box does not answer yet at first
          Hung,          \* arms whose box may stay silent for ever
          None,
          MaxEvents      \* bound: changes of cables and power, repairs that raise, and
                         \* calls of match() by users

Procs == {"root", "user"}
Entries == [nic : Nics, prof : Profiles]     \* of nic_map.json

ASSUME NetAssumption ==
  /\ Order \in Seq(Arms) /\ Arms = {Order[i] : i \in DOMAIN Order}
  /\ Stray \subseteq Nics /\ Fresh \subseteq Profiles /\ Mapped \subseteq Profiles
  /\ Booting \subseteq Arms /\ Hung \subseteq Arms
  /\ Cabling \in [Arms -> Nics \ Stray] /\ IsInjective(Cabling) /\ Of \in [Profiles -> Arms]
  /\ None \notin Nics \cup Profiles \cup Entries /\ MaxEvents \in Nat

VARIABLES
  dev, pin, auto,        \* profiles: active on, pinned to, connection.autoconnect
  known,                 \* profiles that exist
  blocked,               \* profiles NetworkManager does not activate by itself
  cable, box,            \* the arms: plugged into, "off", "silent" or "up"
  nicmap,                \* the system's and the user's nic_map.json
  recent,                \* the hold-off stamp is younger than REPAIR_HOLDOFF_S
  queued,                \* a worker of the dispatcher waits for the lock
  loc,                   \* what a process remembers
  changes, matches,
  raised                 \* a repair of root has raised

nm    == <<dev, pin, auto, known, blocked>>
world == <<cable, box, changes>>
files == <<nicmap, recent>>
events == <<matches, raised>>
vars  == <<nm, world, files, queued, loc, events>>

NoMap    == [a \in Arms |-> None]
PcSet    == {"idle", "verify", "list", "match", "try", "probe", "down", "restore", "save",
             "plan", "apply"}
Locals   == [pc : PcSet,
             todo : SUBSET Arms,                     \* arms still to be matched
             seen : SUBSET Nics, snap : [Arms -> Entries \cup {None}],  \* verify's reads
             frozen : SUBSET Nics,                   \* RepairDecision.frozen
             carried : SUBSET Nics,                  \* match's reads: carriers, pins and
             pinned : SUBSET Profiles,               \* the first profile of every arm
             choice : [Arms -> Profiles \cup {None}],
             taken : SUBSET Nics,                    \* mapped_devs
             prof : Profiles \cup {None}, pool : SUBSET Nics, nic : Nics \cup {None},
             found : [Arms -> Entries \cup {None}], lost : SUBSET Arms,
             plan : SUBSET (Profiles \X (Nics \cup {None}))]
Idle == [pc |-> "idle", todo |-> {}, seen |-> {}, snap |-> NoMap, frozen |-> {},
         carried |-> {}, pinned |-> {}, choice |-> NoMap, taken |-> {}, prof |-> None,
         pool |-> {}, nic |-> None, found |-> NoMap, lost |-> {}, plan |-> {}]

Carrier(n) == n \in Stray \/ \E a \in Arms : cable[a] = n /\ box[a] # "off"
Carried == {n \in Nics : Carrier(n)}
ProfilesOf(a) == {q \in Profiles : Of[q] = a}

\* resolve_state_path: --state for root; for a user its own map before the system's
MapOf(p) == IF p = "root" \/ (nicmap["user"] = NoMap /\ nicmap["system"] # NoMap)
              THEN "system" ELSE "user"
Load(p) == nicmap[MapOf(p)]

At(p, l) == loc[p].pc = l
Set(p, r) == loc' = [loc EXCEPT ![p] = r]
Goto(p, l) == Set(p, [loc[p] EXCEPT !.pc = l])

(***************************************************************************)
(* NetworkManager: a profile is active on one NIC, a NIC has one profile.  *)
(* Activations and deactivations are events for the dispatcher.            *)
(***************************************************************************)
CanActivate(q, n) == q \in known /\ pin[q] \in {None, n} /\ Carrier(n)

Activate(q, n) ==
  /\ dev' = [x \in Profiles |-> IF x = q THEN n ELSE IF dev[x] = n THEN None ELSE dev[x]]
  /\ blocked' = blocked \ {q} /\ queued' = TRUE
  /\ UNCHANGED <<pin, auto, known>>

Deactivate(q) ==
  /\ dev' = [dev EXCEPT ![q] = None] /\ blocked' = blocked \cup {q}
  /\ queued' = (queued \/ dev[q] # None)
  /\ UNCHANGED <<pin, auto, known>>

Autoconnect(q, n) ==
  /\ q \notin blocked /\ auto[q] /\ dev[q] = None /\ CanActivate(q, n)
  /\ \A x \in Profiles : dev[x] # n
  /\ Activate(q, n)
  /\ UNCHANGED <<world, files, loc, events>>

\* the cables or the power of a box change: where the carrier is lost the profile goes
\* down, and NetworkManager looks again at every profile
LinksChange ==
  /\ changes + matches < MaxEvents /\ changes' = changes + 1
  /\ dev' = [q \in Profiles |-> IF dev[q] \in Carried' THEN dev[q] ELSE None]
  /\ blocked' = {} /\ queued' = TRUE
  /\ UNCHANGED <<pin, auto, known, files, loc, events>>

Recable ==                         \* bound: not within the hold-off
  /\ ~recent /\ cable' \in {c \in [Arms -> Nics \cup {None}] :
                             /\ \A a, b \in Arms : a # b /\ c[a] = c[b] => c[a] = None
                             /\ \A a \in Arms : c[a] \notin Stray}
  /\ cable' # cable /\ UNCHANGED box
  /\ LinksChange

Power(a) ==
  /\ box' = [box EXCEPT ![a] = IF @ = "off" THEN "silent" ELSE "off"] /\ UNCHANGED cable
  /\ LinksChange

Boots(a) ==
  /\ box[a] = "silent" /\ box' = [box EXCEPT ![a] = "up"]
  /\ UNCHANGED <<nm, cable, changes, files, queued, loc, events>>

\* bound: REPAIR_HOLDOFF_S outlasts the repairs that follow from one another
HoldoffExpires ==
  /\ recent /\ ~queued /\ At("root", "idle") /\ recent' = FALSE
  /\ UNCHANGED <<nm, world, nicmap, queued, loc, events>>

Environment ==
  \/ \E q \in Profiles, n \in Nics : Autoconnect(q, n)
  \/ Recable \/ \E a \in Arms : Power(a) \/ Boots(a)
  \/ HoldoffExpires

(***************************************************************************)
(* repair(): verify and decide.                                            *)
(***************************************************************************)
Answers(a, n) == cable[a] = n /\ box[a] = "up"     \* ping, neigh, and 502 open or refused

Worker ==                          \* dispatcher: a queued event gets the lock
  /\ queued /\ At("root", "idle") /\ queued' = FALSE
  /\ Goto("root", "verify")
  /\ UNCHANGED <<nm, world, files, events>>

Miss(a, e) ==
  IF e = None THEN "no-mapping"
  ELSE IF dev[e.prof] # e.nic THEN "profile-inactive"
  ELSE IF Answers(a, e.nic) THEN "" ELSE "unreachable"

FrozenNics(m) == {m[a].nic : a \in {b \in Arms : Miss(b, m[b]) = ""}}
FreeNics(m) == Carried \ {m[a].nic : a \in {b \in Arms : m[b] # None}}

\* classify_for_repair: arms to be matched at once
Probe(m) ==
  {a \in Arms : \/ Miss(a, m[a]) = "no-mapping"
                \/ /\ Miss(a, m[a]) = "profile-inactive"
                   /\ m[a].nic \in Carried \/ FreeNics(m) # {}}

Pending(m) == {a \in Arms : Miss(a, m[a]) = "unreachable"}

\* (mutant) the hold-off is not written
NoStamp(m) == recent

\* write_holdoff, before anything is probed
Stamp(m) == recent \/ Pending(m) # {}

\* the last round of verify(): nothing is pending, or the deadline has passed
Verify ==
  /\ At("root", "verify")
  /\ LET m == Load("root")
         targets == Probe(m) \cup (IF recent THEN {} ELSE Pending(m))
     IN /\ Set("root", [Idle EXCEPT !.pc = IF targets = {} THEN "plan" ELSE "list",
                                    !.todo = targets, !.seen = Carried, !.snap = m,
                                    !.frozen = FrozenNics(m)])
        /\ recent' = Stamp(m)
  /\ UNCHANGED <<nm, world, nicmap, queued, events>>

UserMatches ==
  /\ At("user", "idle") /\ changes + matches < MaxEvents /\ matches' = matches + 1
  /\ Set("user", [Idle EXCEPT !.pc = "list", !.todo = Arms])
  /\ UNCHANGED <<nm, world, files, queued, raised>>

(***************************************************************************)
(* match(): one arm after the other, one NIC after the other.              *)
(***************************************************************************)
\* (mutant) the frozen NICs are candidates
NoneReserved(p) == {}

\* mapped_devs at first: the NICs of arms that answer
Reserved(p) == loc[p].frozen

List(p) ==
  /\ At(p, "list")
  /\ \E c \in [Arms -> Profiles \cup {None}] :
       /\ \A a \in Arms : IF known \cap ProfilesOf(a) = {} THEN c[a] = None
                                                     ELSE c[a] \in known \cap ProfilesOf(a)
       /\ Set(p, [loc[p] EXCEPT !.pc = "match", !.carried = Carried, !.choice = c,
                                !.pinned = {q \in known : pin[q] # None},
                                !.taken = Reserved(p)])
  /\ UNCHANGED <<nm, world, files, queued, events>>

\* (mutant) pinned profiles stay pinned
UnpinsNone(p, q, pool) == FALSE

\* an arm that there is nothing to try for keeps its pins
Unpins(p, q, pool) == pool # {} /\ q \in loc[p].pinned

Place(a) == CHOOSE i \in DOMAIN Order : Order[i] = a

\* the next arm in the order of the configuration: find or create its profile, and unpin it
\* if there is something to try
MatchArm(p) ==
  /\ At(p, "match")
  /\ \E a \in loc[p].todo, q \in Profiles :
       LET pool == loc[p].carried \ loc[p].taken
       IN /\ q \in ProfilesOf(a) /\ \A b \in loc[p].todo : Place(a) <= Place(b)
          /\ IF loc[p].choice[a] = None
               THEN q \notin known /\ auto' = [auto EXCEPT ![q] = FALSE]
               ELSE q = loc[p].choice[a] /\ UNCHANGED auto
          /\ known' = known \cup {q}
          /\ pin' = IF Unpins(p, q, pool) THEN [pin EXCEPT ![q] = None] ELSE pin
          /\ Set(p, [loc[p] EXCEPT !.pc = "try", !.todo = @ \ {a}, !.prof = q, !.pool = pool])
  /\ UNCHANGED <<dev, blocked, world, files, queued, events>>

Try(p, n) ==                       \* connection up uuid ... ifname n
  /\ At(p, "try") /\ n \in loc[p].pool
  /\ LET q == loc[p].prof
     IN IF CanActivate(q, n)
          THEN Activate(q, n) /\ Set(p, [loc[p] EXCEPT !.pc = "probe", !.nic = n])
          ELSE Set(p, [loc[p] EXCEPT !.pool = @ \ {n}]) /\ UNCHANGED <<nm, queued>>
  /\ UNCHANGED <<world, files, events>>

ProbeArm(p) ==
  /\ At(p, "probe")
  /\ LET q == loc[p].prof  n == loc[p].nic
     IN IF dev[q] = n /\ Answers(Of[q], n)
          THEN Set(p, [loc[p] EXCEPT !.pc = "match", !.taken = @ \cup {n}, !.prof = None,
                         !.pool = {}, !.nic = None,
                         !.found = [@ EXCEPT ![Of[q]] = [nic |-> n, prof |-> q]]])
          ELSE Goto(p, "down")
  /\ UNCHANGED <<nm, world, files, queued, events>>

Down(p) ==                         \* connection down uuid ...: release the NIC
  /\ At(p, "down") /\ Deactivate(loc[p].prof)
  /\ Set(p, [loc[p] EXCEPT !.pc = "try", !.pool = @ \ {loc[p].nic}, !.nic = None])
  /\ UNCHANGED <<world, files, events>>

NoCandidate(p) ==
  /\ At(p, "try") /\ loc[p].pool = {}
  /\ Set(p, [loc[p] EXCEPT !.pc = "match", !.prof = None, !.lost = @ \cup {Of[loc[p].prof]}])
  /\ UNCHANGED <<nm, world, files, queued, events>>

Matched(p) ==                      \* nothing to save: only repair() goes on
  /\ At(p, "match") /\ loc[p].todo = {}
  /\ IF p = "root" THEN Goto(p, "restore")
     ELSE IF loc[p].found = NoMap THEN Set(p, Idle) ELSE Goto(p, "save")
  /\ UNCHANGED <<nm, world, files, queued, events>>

(***************************************************************************)
(* repair(): arms that no NIC answered go back to the stored NIC.          *)
(***************************************************************************)
Restore(a) ==
  /\ At("root", "restore") /\ a \in loc["root"].lost
  /\ LET e == loc["root"].snap[a]
     IN IF e # None /\ e.nic \in loc["root"].seen \ loc["root"].frozen /\ CanActivate(e.prof, e.nic)
          THEN Activate(e.prof, e.nic)
          ELSE UNCHANGED <<nm, queued>>
  /\ Set("root", [loc["root"] EXCEPT !.lost = @ \ {a}])
  /\ UNCHANGED <<world, files, events>>

Restored ==
  /\ At("root", "restore") /\ loc["root"].lost = {}
  /\ Goto("root", IF loc["root"].found = NoMap THEN "plan" ELSE "save")
  /\ UNCHANGED <<nm, world, files, queued, events>>

\* _save: merged into the map that is in force; a user may not write the system's
Save(p) ==
  /\ At(p, "save")
  /\ nicmap' = [nicmap EXCEPT ![IF p = "root" THEN "system" ELSE "user"] =
                  [a \in Arms |-> IF loc[p].found[a] # None THEN loc[p].found[a] ELSE Load(p)[a]]]
  /\ Set(p, [Idle EXCEPT !.pc = "plan"])
  /\ UNCHANGED <<nm, world, recent, queued, events>>

(***************************************************************************)
(* reconcile(apply = True): pin the mapped profiles and let them connect   *)
(* by themselves; the other profiles of a mapped arm no longer do.         *)
(***************************************************************************)
Pins(m) == {<<m[a].prof, m[a].nic>> :
              a \in {b \in Arms : m[b] # None /\ m[b].prof \in known
                                    /\ ~(pin[m[b].prof] = m[b].nic /\ auto[m[b].prof])}}
Stale(m) == {<<q, None>> :
               q \in {x \in known : /\ m[Of[x]] # None /\ auto[x]
                                    /\ \A a \in Arms : m[a] # None => m[a].prof # x}}

Plan(p) ==
  /\ At(p, "plan")
  /\ LET steps == Pins(Load(p)) \cup Stale(Load(p))
     IN Set(p, IF steps = {} THEN Idle ELSE [Idle EXCEPT !.pc = "apply", !.plan = steps])
  /\ UNCHANGED <<nm, world, files, queued, events>>

Apply(p) ==
  /\ At(p, "apply")
  /\ \E s \in loc[p].plan :
       /\ pin' = [pin EXCEPT ![s[1]] = IF s[2] = None THEN @ ELSE s[2]]
       /\ auto' = [auto EXCEPT ![s[1]] = s[2] # None]
       /\ Set(p, IF loc[p].plan = {s} THEN Idle ELSE [loc[p] EXCEPT !.plan = @ \ {s}])
  /\ UNCHANGED <<dev, known, blocked, world, files, queued, events>>

\* a user interrupts match(), or a step of it fails and raises
Aborts ==
  /\ loc["user"].pc # "idle" /\ Set("user", Idle)
  /\ UNCHANGED <<nm, world, files, queued, events>>

\* nmcli() runs out of time, or a step of apply_plan() fails: repair() raises and the worker
\* is gone
Raises ==
  /\ loc["root"].pc # "idle" /\ changes + matches < MaxEvents
  /\ changes' = changes + 1 /\ raised' = TRUE
  /\ Set("root", Idle)
  /\ UNCHANGED <<nm, cable, box, files, queued, matches>>

Match(p) ==
  \/ List(p) \/ MatchArm(p) \/ (\E n \in Nics : Try(p, n))
  \/ ProbeArm(p) \/ Down(p) \/ NoCandidate(p) \/ Matched(p)
  \/ Save(p) \/ Plan(p) \/ Apply(p)

Repair == Worker \/ Verify \/ Match("root") \/ (\E a \in Arms : Restore(a)) \/ Restored

Init ==
  /\ blocked = {} /\ recent = FALSE /\ queued = TRUE
  /\ loc = [p \in Procs |-> Idle] /\ matches = 0 /\ raised = FALSE
  /\ box = [a \in Arms |-> IF a \in Booting THEN "silent" ELSE "up"]
  /\ cable = Cabling
  /\ dev = [q \in Profiles |-> None]
  /\ \/ /\ changes = MaxEvents         \* bound: the first match is not disturbed
        /\ known = Fresh /\ pin = [q \in Profiles |-> None] /\ auto = [q \in Profiles |-> TRUE]
        /\ nicmap = [f \in {"system", "user"} |-> NoMap]
     \/ \E m \in [Arms -> Entries] :
          /\ \A a \in Arms : m[a].prof \in Mapped /\ Of[m[a].prof] = a /\ m[a].nic = cable[a]
          /\ changes = 0 /\ known = Mapped
          /\ nicmap = [f \in {"system", "user"} |-> IF f = "system" THEN m ELSE NoMap]
          /\ pin = [q \in Profiles |-> IF m[Of[q]].prof = q THEN cable[Of[q]] ELSE None]
          /\ auto = [q \in Profiles |-> m[Of[q]].prof = q]

Next == Environment \/ Repair \/ UserMatches \/ Match("user") \/ Aborts \/ Raises

\* processes run and nmcli returns; NetworkManager brings up what it may; boxes boot
Fairness ==
  /\ WF_vars(Repair) /\ WF_vars(Match("user"))
  /\ WF_vars(\E q \in Profiles, n \in Nics : Autoconnect(q, n))
  /\ \A a \in Arms \ Hung : WF_vars(Boots(a))

Spec == Init /\ [][Next]_vars
FairSpec == Spec /\ Fairness

(***************************************************************************)
(* Properties                                                              *)
(***************************************************************************)
\* Every variable keeps its range.
TypeOK ==
  /\ dev \in [Profiles -> Nics \cup {None}] /\ pin \in [Profiles -> Nics \cup {None}]
  /\ auto \in [Profiles -> BOOLEAN] /\ known \subseteq Profiles /\ blocked \subseteq Profiles
  /\ cable \in [Arms -> Nics \cup {None}] /\ box \in [Arms -> {"off", "silent", "up"}]
  /\ nicmap \in [{"system", "user"} -> [Arms -> Entries \cup {None}]]
  /\ recent \in BOOLEAN /\ queued \in BOOLEAN
  /\ loc \in [Procs -> Locals]
  /\ changes \in 0..MaxEvents /\ matches \in 0..MaxEvents
  /\ raised \in BOOLEAN

\* q is active on the NIC stored for its arm, and that NIC is stored for no other arm.
InPlace(q, m) ==
  /\ m[Of[q]] = [nic |-> dev[q], prof |-> q]
  /\ \A b \in Arms \ {Of[q]} : m[b] = None \/ m[b].nic # dev[q]

\* A repair does not touch the NIC of an arm that answered when it decided, whatever
\* cables, boxes and a user's match do meanwhile: its profile stays active on it.
FrozenUndisturbed ==
  [][Repair => \A q \in Profiles :
       dev[q] \in loc["root"].frozen /\ InPlace(q, loc["root"].snap) => dev'[q] = dev[q]]_vars

Quiet == ~queued /\ \A p \in Procs : loc[p].pc = "idle"

\* Where a box does not answer, the system's map has its arm on the NIC it is plugged into.
Placed(a) ==
  box[a] = "silent" => nicmap["system"][a] # None /\ nicmap["system"][a].nic = cable[a]

\* The events that the repairs cause do not keep the dispatcher going: once cables and
\* boxes are left alone it comes to rest, also with an arm that is in its place and never
\* answers.  (The probes of an arm without a map entry, or of one whose stored NIC another
\* arm has got, are events that have it probed again: the hold-off is not for those.)
Converges == <>[](\A a \in Arms : Placed(a)) => <>[]Quiet

Reached(a) == \E q \in ProfilesOf(a) : cable[a] # None /\ dev[q] = cable[a] /\ Answers(a, cable[a])
Settled(a) == \E q \in ProfilesOf(a) : dev[q] = cable[a] /\ pin[q] = cable[a] /\ auto[q]
AllUp == \A a \in Arms : cable[a] # None /\ box[a] = "up"

\* With every arm plugged in and its box up, an event outside the hold-off has all arms
\* reached through the NICs they are plugged into, after a swap of the cables and after
\* a match of a user that was interrupted, unless the repair raises (an event after that
\* does it); and where no user matched, each is pinned to its NIC for the next boot.
Rematches ==
  \A r \in BOOLEAN :
    (AllUp /\ queued /\ ~recent /\ raised = r) ~>
      \/ Quiet /\ \A a \in Arms : Reached(a) /\ (matches = 0 => Settled(a))
      \/ ~AllUp \/ raised # r
=============================================================================
