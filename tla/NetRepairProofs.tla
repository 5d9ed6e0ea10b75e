---------------------------- MODULE NetRepairProofs ----------------------------
(***************************************************************************)
(* Proofs about NetRepair, for every set of arms, NICs, profiles and       *)
(* cables, and any number of events and of matches by users.               *)
(*                                                                         *)
(* FrozenUndisturbed says that a repair does not touch an arm that answered*)
(* when it decided.  The decision and the step that could break it are far *)
(* apart: between them lie the reads of match(), the trials of other arms, *)
(* and whatever a user's match, NetworkManager and the cables do.  Spared  *)
(* carries the decision along: such an arm is neither to be matched nor    *)
(* tried nor lost, and no frozen NIC is in a pool.                         *)
(***************************************************************************)
EXTENDS NetRepair, TLAPS

\* A process that is idle remembers nothing.
LEMMA IdleTyped == Idle \in Locals
BY NetAssumption DEF Idle, Locals, PcSet, NoMap, Entries

\* What a process remembers keeps its type when one field of it changes.
LEMMA WithPc ==
  ASSUME NEW r \in Locals, NEW l \in PcSet
  PROVE  [r EXCEPT !.pc = l] \in Locals
BY DEF Locals

LEMMA WithTodo ==
  ASSUME NEW r \in Locals, NEW S \in SUBSET Arms
  PROVE  [r EXCEPT !.todo = S] \in Locals
BY DEF Locals

LEMMA WithPool ==
  ASSUME NEW r \in Locals, NEW S \in SUBSET Nics
  PROVE  [r EXCEPT !.pool = S] \in Locals
BY DEF Locals

LEMMA WithNic ==
  ASSUME NEW r \in Locals, NEW n \in Nics \cup {None}
  PROVE  [r EXCEPT !.nic = n] \in Locals
BY DEF Locals

\* What NetworkManager does when it activates a profile.
LEMMA ActivateTyped ==
  ASSUME TypeOK, NEW q \in Profiles, NEW n \in Nics, Activate(q, n)
  PROVE  /\ dev' \in [Profiles -> Nics \cup {None}] /\ blocked' \subseteq Profiles
         /\ queued' \in BOOLEAN /\ UNCHANGED <<pin, auto, known>>
BY DEF Activate, TypeOK

\* An arm that is being tried has a profile, and one that is being probed a NIC.
Tried == \A p \in Procs :
  /\ loc[p].pc \in {"try", "probe", "down"} => loc[p].prof # None
  /\ loc[p].pc = "probe" => loc[p].nic # None

\* An entry of a map names a profile of its arm.
OwnProfile(m) == \A a \in Arms : m[a] # None => Of[m[a].prof] = a

\* So do the files and what a process remembers of them.
Entered ==
  /\ OwnProfile(nicmap["system"]) /\ OwnProfile(nicmap["user"])
  /\ \A p \in Procs : OwnProfile(loc[p].snap) /\ OwnProfile(loc[p].found)

\* The NIC stored for arm a is frozen, and stored for no other arm.
Sole(r, a) ==
  /\ r.snap[a] # None /\ r.snap[a].nic \in r.frozen
  /\ \A b \in Arms \ {a} : r.snap[b] = None \/ r.snap[b].nic # r.snap[a].nic

\* Such an arm is not matched, and no frozen NIC is tried.
Spares(r) ==
  /\ \A a \in r.todo \cup r.lost : ~Sole(r, a)
  /\ r.prof # None => ~Sole(r, Of[r.prof])
  /\ r.pc \in {"match", "try", "probe", "down"} => r.frozen \subseteq r.taken
  /\ r.pool \cap r.frozen = {}

Spared == Spares(loc["root"])

\* What keeps it from one step of a process to the next.
LEMMA SparesOn ==
  ASSUME NEW r, NEW s, Spares(r), s.snap = r.snap, s.frozen = r.frozen,
         s.todo \subseteq r.todo, s.pool \cap r.frozen = {},
         \A a \in s.lost : a \in r.lost \/ ~Sole(r, a),
         s.prof # None => ~Sole(r, Of[s.prof]),
         s.pc \in {"match", "try", "probe", "down"} => r.frozen \subseteq s.taken
  PROVE  Spares(s)
BY DEF Spares, Sole

\* TypeOK is preserved by every step.
LEMMA TypeStep ==
  TypeOK /\ Tried /\ [Next]_vars => TypeOK'
<1> SUFFICES ASSUME TypeOK, Tried, [Next]_vars PROVE TypeOK'
  OBVIOUS
<1> USE NetAssumption DEF nm, world, files, events, Set, At, Procs
<1>0. loc \in [Procs -> Locals] /\ "root" \in Procs /\ "user" \in Procs
  BY DEF TypeOK
<1>1. ASSUME NEW q \in Profiles, NEW n \in Nics, Autoconnect(q, n) PROVE TypeOK'
  BY <1>1, <1>0 DEF Autoconnect, Activate, TypeOK
<1>2. CASE Recable
  BY <1>2, <1>0 DEF Recable, LinksChange, TypeOK
<1>3. ASSUME NEW a \in Arms, Power(a) PROVE TypeOK'
  BY <1>3, <1>0 DEF Power, LinksChange, TypeOK
<1>4. ASSUME NEW a \in Arms, Boots(a) PROVE TypeOK'
  BY <1>4, <1>0 DEF Boots, TypeOK
<1>5. CASE HoldoffExpires
  BY <1>5, <1>0 DEF HoldoffExpires, TypeOK
<1>6. CASE Worker
  <2>0. loc["root"] \in Locals
    BY <1>0
  <2>1. [loc["root"] EXCEPT !.pc = "verify"] \in Locals
    BY <2>0, WithPc DEF PcSet
  <2>2. loc' \in [Procs -> Locals]
    BY <1>6, <2>1, <1>0 DEF Worker, Goto
  <2>3. QED
    BY <1>6, <2>2 DEF Worker, Goto, TypeOK
<1>7. CASE Verify
  <2> DEFINE m == Load("root")
              targets == Probe(m) \cup (IF recent THEN {} ELSE Pending(m))
              new == [Idle EXCEPT !.pc = IF targets = {} THEN "plan" ELSE "list", !.todo = targets,
                                  !.seen = Carried, !.snap = m, !.frozen = FrozenNics(m)]
  <2>1. m \in [Arms -> Entries \cup {None}]
    BY DEF Load, MapOf, TypeOK
  <2>2. targets \in SUBSET Arms /\ Carried \in SUBSET Nics
    BY DEF Probe, Pending, Carried
  <2>3. FrozenNics(m) \in SUBSET Nics
    <3>1. \A a \in Arms : Miss(a, m[a]) = "" => m[a] \in Entries
      BY <2>1 DEF Miss
    <3>2. QED
      BY <3>1 DEF FrozenNics, Entries
  <2> HIDE DEF m, targets
  <2>4. new \in Locals
    <3>1. PICK l \in PcSet : l = IF targets = {} THEN "plan" ELSE "list"
      BY DEF PcSet
    <3>2. [Idle EXCEPT !.pc = l, !.todo = targets, !.seen = Carried, !.snap = m,
              !.frozen = FrozenNics(m)] \in Locals
      BY <2>1, <2>2, <2>3, IdleTyped DEF Locals
    <3>3. QED
      BY <3>1, <3>2
  <2>5. loc' = [loc EXCEPT !["root"] =
                new] /\ recent' = Stamp(m) /\ UNCHANGED <<nm, world, nicmap, queued, events>>
    BY <1>7 DEF Verify, m, targets
  <2> HIDE DEF new
  <2>6. loc' \in [Procs -> Locals] /\ recent' \in BOOLEAN
    BY <2>4, <2>5, <1>0 DEF Stamp, TypeOK
  <2>7. QED
    BY <2>5, <2>6 DEF TypeOK
<1>8. ASSUME NEW a \in Arms, Restore(a) PROVE TypeOK'
  <2>0. loc["root"] \in Locals
    BY <1>0
  <2>1. [loc["root"] EXCEPT !.lost = @ \ {a}] \in Locals
    BY <2>0 DEF Locals, PcSet
  <2>2. loc' \in [Procs -> Locals]
    BY <1>8, <2>1, <1>0 DEF Restore
  <2>3. /\ dev' \in [Profiles -> Nics \cup {None}] /\ blocked' \subseteq Profiles
        /\ queued' \in BOOLEAN /\ UNCHANGED <<pin, auto, known>>
    <3>1. loc["root"].snap[a] \in Entries \cup {None}
      BY <2>0 DEF Locals
    <3>2. CASE UNCHANGED <<nm, queued>>
      BY <3>2 DEF TypeOK
    <3>3. CASE /\ loc["root"].snap[a] # None
               /\ Activate(loc["root"].snap[a].prof, loc["root"].snap[a].nic)
      <4>1. loc["root"].snap[a].prof \in Profiles /\ loc["root"].snap[a].nic \in Nics
        BY <3>1, <3>3 DEF Entries
      <4>2. QED
        BY <3>3, <4>1, ActivateTyped
    <3>4. QED
      BY <1>8, <3>2, <3>3 DEF Restore
  <2>4. QED
    BY <1>8, <2>2, <2>3 DEF Restore, TypeOK
<1>9. CASE Restored
  <2>0. loc["root"] \in Locals
    BY <1>0
  <2>1. [loc["root"] EXCEPT !.pc = "plan"] \in Locals /\ [loc["root"] EXCEPT !.pc = "save"] \in Locals
    BY <2>0, WithPc DEF PcSet
  <2>2. loc' \in [Procs -> Locals]
    BY <1>9, <2>1, <1>0 DEF Restored, Goto
  <2>3. QED
    BY <1>9, <2>2 DEF Restored, TypeOK
<1>10. CASE UserMatches
  <2>1. [Idle EXCEPT !.pc = "list", !.todo = Arms] \in Locals
    <3>1. [Idle EXCEPT !.pc = "list"] \in Locals
      BY IdleTyped, WithPc DEF PcSet
    <3>2. [[Idle EXCEPT !.pc = "list"] EXCEPT !.todo = Arms] \in Locals
      BY <3>1, WithTodo
    <3>3. [Idle EXCEPT !.pc = "list", !.todo = Arms]
            = [[Idle EXCEPT !.pc = "list"] EXCEPT !.todo = Arms]
      BY DEF Idle
    <3>4. QED
      BY <3>2, <3>3
  <2>2. loc' \in [Procs -> Locals]
    BY <1>10, <2>1, <1>0 DEF UserMatches
  <2>3. QED
    BY <1>10, <2>2 DEF UserMatches, TypeOK
<1>11. CASE Aborts
  <2>1. loc' \in [Procs -> Locals]
    BY <1>11, IdleTyped, <1>0 DEF Aborts
  <2>2. QED
    BY <1>11, <2>1 DEF Aborts, TypeOK
<1>11a. CASE Raises
  <2>1. loc' \in [Procs -> Locals]
    BY <1>11a, IdleTyped, <1>0 DEF Raises
  <2>2. changes' \in 0 .. MaxEvents
    BY <1>11a DEF Raises, TypeOK
  <2>3. QED
    BY <1>11a, <2>1, <2>2 DEF Raises, TypeOK
<1>12. ASSUME NEW p \in Procs, List(p) PROVE TypeOK'
  <2>0. loc[p] \in Locals
    BY <1>0
  <2>1. PICK c \in [Arms -> Profiles \cup {None}] :
           loc' = [loc EXCEPT ![p] =
                   [loc[p] EXCEPT !.pc = "match", !.carried = Carried, !.choice = c,
                                        !.pinned = {q \in known : pin[q] # None},
                                        !.taken = Reserved(p)]]
    BY <1>12 DEF List
  <2>2. /\ Carried \in SUBSET Nics /\ Reserved(p) \in SUBSET Nics
        /\ {q \in known : pin[q] # None} \in SUBSET Profiles
    BY <2>0 DEF Carried, Reserved, Locals, TypeOK
  <2>3. [loc[p] EXCEPT !.pc = "match", !.carried = Carried, !.choice = c,
            !.pinned = {q \in known : pin[q] # None}, !.taken = Reserved(p)] \in Locals
    BY <2>2, <2>0 DEF Locals, PcSet
  <2>4. loc' \in [Procs -> Locals]
    BY <2>1, <2>3, <1>0
  <2>5. QED
    BY <1>12, <2>4 DEF List, TypeOK
<1>13. ASSUME NEW p \in Procs, MatchArm(p) PROVE TypeOK'
  <2>0. loc[p] \in Locals
    BY <1>0
  <2> DEFINE pool == loc[p].carried \ loc[p].taken
  <2>1. PICK a \in loc[p].todo, q \in Profiles :
           /\ auto' = [auto EXCEPT ![q] = FALSE] \/ auto' = auto
           /\ known' = known \cup {q}
           /\ pin' = [pin EXCEPT ![q] = None] \/ pin' = pin
           /\ loc' = [loc EXCEPT ![p] =
                   [loc[p] EXCEPT !.pc = "try", !.todo = @ \ {a}, !.prof = q, !.pool = pool]]
    BY <1>13 DEF MatchArm
  <2>2. [loc[p] EXCEPT !.pc = "try", !.todo = @ \ {a}, !.prof = q, !.pool = pool] \in Locals
    BY <2>0 DEF Locals, PcSet
  <2>3. loc' \in [Procs -> Locals]
    BY <2>1, <2>2, <1>0
  <2>4. /\ auto' \in [Profiles -> BOOLEAN] /\ known' \subseteq Profiles
        /\ pin' \in [Profiles -> Nics \cup {None}]
    BY <2>1 DEF TypeOK
  <2>5. QED
    BY <1>13, <2>3, <2>4 DEF MatchArm, TypeOK
<1>14. ASSUME NEW p \in Procs, NEW n \in Nics, Try(p, n) PROVE TypeOK'
  <2>0. loc[p] \in Locals
    BY <1>0
  <2>1. /\ [loc[p] EXCEPT !.pc = "probe", !.nic = n] \in Locals
        /\ [loc[p] EXCEPT !.pool = @ \ {n}] \in Locals
    <3>1. [[loc[p] EXCEPT !.pc = "probe"] EXCEPT !.nic = n] \in Locals
      <4>1. [loc[p] EXCEPT !.pc = "probe"] \in Locals
        BY <2>0, WithPc DEF PcSet
      <4>2. QED
        BY <4>1, WithNic
    <3>2. [loc[p] EXCEPT !.pc = "probe", !.nic = n]
            = [[loc[p] EXCEPT !.pc = "probe"] EXCEPT !.nic = n]
      BY <2>0 DEF Locals
    <3>3. loc[p].pool \ {n} \in SUBSET Nics
      BY <2>0 DEF Locals
    <3>4. [loc[p] EXCEPT !.pool = loc[p].pool \ {n}] \in Locals
      BY <2>0, <3>3, WithPool
    <3>5. QED
      BY <3>1, <3>2, <3>4
  <2>2. loc' \in [Procs -> Locals]
    BY <1>14, <2>1, <1>0 DEF Try
  <2>3. /\ dev' \in [Profiles -> Nics \cup {None}] /\ blocked' \subseteq Profiles
        /\ queued' \in BOOLEAN /\ UNCHANGED <<pin, auto, known>>
    <3>1. CASE UNCHANGED <<nm, queued>>
      BY <3>1 DEF TypeOK
    <3>2. CASE Activate(loc[p].prof, n)
      <4>1. loc[p].prof \in Profiles
        BY <1>14, <2>0, <1>0 DEF Try, Locals, Tried
      <4>2. QED
        BY <3>2, <4>1, ActivateTyped
    <3>3. QED
      BY <1>14, <3>1, <3>2 DEF Try
  <2>4. QED
    BY <1>14, <2>2, <2>3 DEF Try, TypeOK
<1>15. ASSUME NEW p \in Procs, ProbeArm(p) PROVE TypeOK'
  <2>0. loc[p] \in Locals
    BY <1>0
  <2> DEFINE q == loc[p].prof
              n == loc[p].nic
              new == [loc[p] EXCEPT !.pc = "match", !.taken = @ \cup {n}, !.prof = None,
                        !.pool = {}, !.nic = None,
                        !.found = [@ EXCEPT ![Of[q]] = [nic |-> n, prof |-> q]]]
  <2>1. /\ loc[p].found \in [Arms -> Entries \cup {None}] /\ loc[p].taken \in SUBSET Nics
        /\ q \in Profiles \cup {None} /\ n \in Nics \cup {None}
    BY <2>0 DEF Locals
  <2>2. ASSUME q # None, n # None PROVE new \in Locals
    <3>1. [loc[p].found EXCEPT ![Of[q]] = [nic |-> n, prof |-> q]] \in [Arms -> Entries \cup {None}]
      BY <2>1, <2>2 DEF Entries
    <3>2. loc[p].taken \cup {n} \in SUBSET Nics
      BY <2>1, <2>2
    <3>3. QED
      BY <3>1, <3>2, <2>0 DEF Locals, PcSet
  <2>3. [loc[p] EXCEPT !.pc = "down"] \in Locals
    BY <2>0, WithPc DEF PcSet
  <2>4. q # None /\ n # None
    BY <1>15, <1>0 DEF ProbeArm, Tried
  <2>5. loc' \in [Procs -> Locals]
    BY <1>15, <2>2, <2>3, <2>4, <1>0 DEF ProbeArm, Goto
  <2>6. QED
    BY <1>15, <2>5 DEF ProbeArm, TypeOK
<1>16. ASSUME NEW p \in Procs, Down(p) PROVE TypeOK'
  <2>0. loc[p] \in Locals
    BY <1>0
  <2>1. [loc[p] EXCEPT !.pc = "try", !.pool = @ \ {loc[p].nic}, !.nic = None] \in Locals
    BY <2>0 DEF Locals, PcSet
  <2>2. loc' \in [Procs -> Locals]
    BY <1>16, <2>1, <1>0 DEF Down
  <2>3. loc[p].prof \in Profiles
    BY <1>16, <1>0 DEF Down, Locals, Tried
  <2>4. /\ dev' \in [Profiles -> Nics \cup {None}] /\ blocked' \subseteq Profiles
        /\ queued' \in BOOLEAN /\ UNCHANGED <<pin, auto, known>>
    BY <1>16, <2>3 DEF Down, Deactivate, TypeOK
  <2>5. QED
    BY <1>16, <2>2, <2>4 DEF Down, TypeOK
<1>17. ASSUME NEW p \in Procs, NoCandidate(p) PROVE TypeOK'
  <2>0. loc[p] \in Locals
    BY <1>0
  <2>1. loc[p].prof \in Profiles
    BY <1>17, <1>0 DEF NoCandidate, Locals, Tried
  <2>2. [loc[p] EXCEPT !.pc = "match", !.prof = None, !.lost = @ \cup {Of[loc[p].prof]}] \in Locals
    <3>1. PICK b \in Arms : b = Of[loc[p].prof]
      BY <2>1
    <3>2. [loc[p] EXCEPT !.pc = "match", !.prof = None, !.lost = @ \cup {b}] \in Locals
      BY <2>0 DEF Locals, PcSet
    <3>3. QED
      BY <3>1, <3>2
  <2>3. loc' \in [Procs -> Locals]
    BY <1>17, <2>2, <1>0 DEF NoCandidate
  <2>4. QED
    BY <1>17, <2>3 DEF NoCandidate, TypeOK
<1>18. ASSUME NEW p \in Procs, Matched(p) PROVE TypeOK'
  <2>0. loc[p] \in Locals
    BY <1>0
  <2>1. /\ [loc[p] EXCEPT !.pc = "restore"] \in Locals
        /\ [loc[p] EXCEPT !.pc = "save"] \in Locals
    BY <2>0, WithPc DEF PcSet
  <2>2. loc' \in [Procs -> Locals]
    BY <1>18, <2>1, <1>0, IdleTyped DEF Matched, Goto
  <2>3. QED
    BY <1>18, <2>2 DEF Matched, TypeOK
<1>19. ASSUME NEW p \in Procs, Save(p) PROVE TypeOK'
  <2>0. loc[p] \in Locals
    BY <1>0
  <2>1. [Idle EXCEPT !.pc = "plan"] \in Locals
    BY IdleTyped, WithPc DEF PcSet
  <2>2. loc' \in [Procs -> Locals]
    BY <1>19, <2>1, <1>0 DEF Save
  <2>3. Load(p) \in [Arms -> Entries \cup {None}] /\ loc[p].found \in [Arms -> Entries \cup {None}]
    BY <2>0 DEF Load, MapOf, Locals, TypeOK
  <2>4. nicmap' \in [{"system", "user"} -> [Arms -> Entries \cup {None}]]
    BY <1>19, <2>3 DEF Save, TypeOK
  <2>5. QED
    BY <1>19, <2>2, <2>4 DEF Save, TypeOK
<1>20. ASSUME NEW p \in Procs, Plan(p) PROVE TypeOK'
  <2> DEFINE steps == Pins(Load(p)) \cup Stale(Load(p))
  <2>1. Load(p) \in [Arms -> Entries \cup {None}]
    BY DEF Load, MapOf, TypeOK
  <2>2. Pins(Load(p)) \in SUBSET (Profiles \X (Nics \cup {None}))
    <3>1. \A a \in Arms : Load(p)[a] # None => Load(p)[a].prof \in Profiles /\ Load(p)[a].nic \in Nics
      BY <2>1 DEF Entries
    <3>2. QED
      BY <3>1 DEF Pins
  <2>3. Stale(Load(p)) \in SUBSET (Profiles \X (Nics \cup {None}))
    BY DEF Stale, TypeOK
  <2>4. steps \in SUBSET (Profiles \X (Nics \cup {None}))
    BY <2>2, <2>3
  <2> HIDE DEF steps
  <2>5. [Idle EXCEPT !.pc = "apply", !.plan = steps] \in Locals
    BY <2>4, IdleTyped DEF Locals, PcSet
  <2>6. /\ loc' = [loc EXCEPT ![p] =
                IF steps = {} THEN Idle ELSE [Idle EXCEPT !.pc = "apply", !.plan = steps]]
        /\ UNCHANGED <<nm, world, files, queued, events>>
    BY <1>20 DEF Plan, steps
  <2>7. loc' \in [Procs -> Locals]
    BY <2>5, <2>6, <1>0, IdleTyped
  <2>8. QED
    BY <2>6, <2>7 DEF TypeOK
<1>21. ASSUME NEW p \in Procs, Apply(p) PROVE TypeOK'
  <2>0. loc[p] \in Locals
    BY <1>0
  <2>1. PICK s \in loc[p].plan :
           /\ pin' = [pin EXCEPT ![s[1]] = IF s[2] = None THEN @ ELSE s[2]]
           /\ auto' = [auto EXCEPT ![s[1]] = s[2] # None]
           /\ loc' = [loc EXCEPT ![p] =
                   IF loc[p].plan = {s} THEN Idle ELSE [loc[p] EXCEPT !.plan = @ \ {s}]]
    BY <1>21 DEF Apply
  <2>2. s \in Profiles \X (Nics \cup {None})
    BY <2>0 DEF Locals
  <2>3. pin' \in [Profiles -> Nics \cup {None}] /\ auto' \in [Profiles -> BOOLEAN]
    BY <2>1, <2>2 DEF TypeOK
  <2>4. [loc[p] EXCEPT !.plan = @ \ {s}] \in Locals
    BY <2>0 DEF Locals, PcSet
  <2>5. loc' \in [Procs -> Locals]
    BY <2>1, <2>4, <1>0, IdleTyped
  <2>6. QED
    BY <1>21, <2>3, <2>5 DEF Apply, TypeOK
<1>22. CASE UNCHANGED vars
  BY <1>22, <1>0 DEF vars, TypeOK
<1>23. QED
  BY <1>1, <1>2, <1>3, <1>4, <1>5, <1>6, <1>7, <1>8, <1>9, <1>10, <1>11, <1>11a, <1>12, <1>13,
     <1>14, <1>15, <1>16, <1>17, <1>18, <1>19, <1>20, <1>21, <1>22 DEF Next, Environment, Repair, Match,
     Procs

\* Tried is preserved: a trial begins with a profile and ends without.
LEMMA TriedStep ==
  TypeOK /\ Tried /\ [Next]_vars => Tried'
<1> SUFFICES ASSUME TypeOK, Tried, [Next]_vars PROVE Tried'
  OBVIOUS
<1> USE NetAssumption DEF nm, world, files, events, Set, At, Procs, Tried
<1>0. /\ loc \in [Procs -> Locals] /\ "root" \in Procs /\ "user" \in Procs
      /\ \A p \in Procs : loc[p] \in Locals
  BY DEF TypeOK
<1>1. ASSUME NEW q \in Profiles, NEW n \in Nics, Autoconnect(q, n) PROVE Tried'
  BY <1>1, <1>0 DEF Autoconnect, Activate
<1>2. CASE Recable
  BY <1>2, <1>0 DEF Recable, LinksChange
<1>3. ASSUME NEW a \in Arms, Power(a) PROVE Tried'
  BY <1>3, <1>0 DEF Power, LinksChange
<1>4. ASSUME NEW a \in Arms, Boots(a) PROVE Tried'
  BY <1>4, <1>0 DEF Boots
<1>5. CASE HoldoffExpires
  BY <1>5, <1>0 DEF HoldoffExpires
<1>6. CASE Worker
  BY <1>6, <1>0 DEF Worker, Goto, Locals, Idle
<1>7. CASE Verify
  BY <1>7, <1>0 DEF Verify, Locals, Idle
<1>8. ASSUME NEW a \in Arms, Restore(a) PROVE Tried'
  BY <1>8, <1>0 DEF Restore, Activate, Locals, Idle
<1>9. CASE Restored
  BY <1>9, <1>0 DEF Restored, Goto, Locals, Idle
<1>10. CASE UserMatches
  BY <1>10, <1>0 DEF UserMatches, Locals, Idle
<1>11. CASE Aborts
  BY <1>11, <1>0 DEF Aborts, Locals, Idle
<1>11a. CASE Raises
  BY <1>11a, <1>0 DEF Raises, Locals, Idle
<1>12. ASSUME NEW p \in Procs, List(p) PROVE Tried'
  BY <1>12, <1>0 DEF List, Locals, Idle
<1>13. ASSUME NEW p \in Procs, MatchArm(p) PROVE Tried'
  BY <1>13, <1>0 DEF MatchArm, ProfilesOf, Locals, Idle
<1>14. ASSUME NEW p \in Procs, NEW n \in Nics, Try(p, n) PROVE Tried'
  <2>1. loc[p] \in Locals
    BY <1>0
  <2>2. loc[p].pc = "try"
    BY <1>14 DEF Try
  <2>3. CASE loc' = [loc EXCEPT ![p] = [loc[p] EXCEPT !.pc = "probe", !.nic = n]]
    <3>1. \A x \in Procs : x # p => loc'[x] = loc[x]
      BY <2>3, <1>0
    <3>2. /\ loc'[p].pc = "probe"
          /\ loc'[p].nic = n
          /\ loc'[p].prof = loc[p].prof
      BY <2>1, <2>3, <1>0 DEF Locals
    <3>3. QED
      BY <2>2, <3>1, <3>2, <2>1, <1>0 DEF Tried
  <2>4. CASE loc' = [loc EXCEPT ![p] = [loc[p] EXCEPT !.pool = @ \ {n}]]
    <3>1. \A x \in Procs : x # p => loc'[x] = loc[x]
      BY <2>4, <1>0
    <3>2. /\ loc'[p].pc = loc[p].pc
          /\ loc'[p].prof = loc[p].prof
      BY <2>1, <2>4, <1>0 DEF Locals
    <3>3. QED
      BY <2>2, <3>1, <3>2, <2>1, <1>0 DEF Tried
  <2>5. QED
    BY <1>14, <2>3, <2>4 DEF Try
<1>15. ASSUME NEW p \in Procs, ProbeArm(p) PROVE Tried'
  <2>1. loc[p] \in Locals
    BY <1>0
  <2>2. loc[p].pc = "probe"
    BY <1>15 DEF ProbeArm
  <2>3. CASE loc' = [loc EXCEPT ![p] = [loc[p] EXCEPT !.pc = "down"]]
    <3>1. \A x \in Procs : x # p => loc'[x] = loc[x]
      BY <2>3, <1>0
    <3>2. /\ loc'[p].pc = "down"
          /\ loc'[p].prof = loc[p].prof
      BY <2>1, <2>3, <1>0 DEF Locals
    <3>3. QED
      BY <2>2, <3>1, <3>2, <2>1, <1>0 DEF Tried
  <2>4. CASE loc' = [loc EXCEPT ![p] = [loc[p] EXCEPT !.pc = "match", !.taken = @ \cup {loc[p].nic},
           !.prof = None, !.pool = {}, !.nic = None,
           !.found = [@ EXCEPT ![Of[loc[p].prof]] = [nic |-> loc[p].nic, prof |-> loc[p].prof]]]]
    <3>1. \A x \in Procs : x # p => loc'[x] = loc[x]
      BY <2>4, <1>0
    <3>2. /\ loc'[p].pc = "match"
          /\ loc'[p].prof = None
      BY <2>1, <2>4, <1>0 DEF Locals
    <3>3. QED
      BY <2>2, <3>1, <3>2, <2>1, <1>0 DEF Tried
  <2>5. QED
    BY <1>15, <2>3, <2>4 DEF ProbeArm, Goto
<1>16. ASSUME NEW p \in Procs, Down(p) PROVE Tried'
  BY <1>16, <1>0 DEF Down, Deactivate, Locals, Idle
<1>17. ASSUME NEW p \in Procs, NoCandidate(p) PROVE Tried'
  BY <1>17, <1>0 DEF NoCandidate, Locals, Idle
<1>18. ASSUME NEW p \in Procs, Matched(p) PROVE Tried'
  BY <1>18, <1>0 DEF Matched, Goto, Locals, Idle
<1>19. ASSUME NEW p \in Procs, Save(p) PROVE Tried'
  BY <1>19, <1>0 DEF Save, Locals, Idle
<1>20. ASSUME NEW p \in Procs, Plan(p) PROVE Tried'
  BY <1>20, <1>0 DEF Plan, Pins, Stale, Locals, Idle
<1>21. ASSUME NEW p \in Procs, Apply(p) PROVE Tried'
  BY <1>21, <1>0 DEF Apply, Locals, Idle
<1>22. CASE UNCHANGED vars
  BY <1>22, <1>0 DEF vars
<1>23. QED
  BY <1>1, <1>2, <1>3, <1>4, <1>5, <1>6, <1>7, <1>8, <1>9, <1>10, <1>11, <1>11a, <1>12, <1>13,
     <1>14, <1>15, <1>16, <1>17, <1>18, <1>19, <1>20, <1>21, <1>22 DEF Next, Environment, Repair, Match,
     Procs

\* Entered is preserved: match() enters the profile it found the arm with.
LEMMA EnteredStep ==
  TypeOK /\ Tried /\ Entered /\ [Next]_vars => Entered'
<1> SUFFICES ASSUME TypeOK, Tried, Entered, [Next]_vars PROVE Entered'
  OBVIOUS
<1> USE NetAssumption DEF nm, world, files, events, Set, At, Procs
<1>0. /\ loc \in [Procs -> Locals] /\ "root" \in Procs /\ "user" \in Procs
      /\ \A p \in Procs : loc[p] \in Locals
  BY DEF TypeOK
<1>1. ASSUME NEW q \in Profiles, NEW n \in Nics, Autoconnect(q, n) PROVE Entered'
  BY <1>1, <1>0 DEF Autoconnect, Activate, Locals, Idle, NoMap, Load, MapOf, Entered, OwnProfile
<1>2. CASE Recable
  BY <1>2, <1>0 DEF Recable, LinksChange, Locals, Idle, NoMap, Load, MapOf, Entered, OwnProfile
<1>3. ASSUME NEW a \in Arms, Power(a) PROVE Entered'
  BY <1>3, <1>0 DEF Power, LinksChange, Locals, Idle, NoMap, Load, MapOf, Entered, OwnProfile
<1>4. ASSUME NEW a \in Arms, Boots(a) PROVE Entered'
  BY <1>4, <1>0 DEF Boots, Locals, Idle, NoMap, Load, MapOf, Entered, OwnProfile
<1>5. CASE HoldoffExpires
  BY <1>5, <1>0 DEF HoldoffExpires, Locals, Idle, NoMap, Load, MapOf, Entered, OwnProfile
<1>6. CASE Worker
  BY <1>6, <1>0 DEF Worker, Goto, Locals, Idle, NoMap, Load, MapOf, Entered, OwnProfile
<1>7. CASE Verify
  BY <1>7, <1>0 DEF Verify, Locals, Idle, NoMap, Load, MapOf, Entered, OwnProfile
<1>8. ASSUME NEW a \in Arms, Restore(a) PROVE Entered'
  BY <1>8, <1>0 DEF Restore, Activate, Locals, Idle, NoMap, Load, MapOf, Entered, OwnProfile
<1>9. CASE Restored
  BY <1>9, <1>0 DEF Restored, Goto, Locals, Idle, NoMap, Load, MapOf, Entered, OwnProfile
<1>10. CASE UserMatches
  BY <1>10, <1>0 DEF UserMatches, Locals, Idle, NoMap, Load, MapOf, Entered, OwnProfile
<1>11. CASE Aborts
  BY <1>11, <1>0 DEF Aborts, Locals, Idle, NoMap, Load, MapOf, Entered, OwnProfile
<1>11a. CASE Raises
  BY <1>11a, <1>0 DEF Raises, Locals, Idle, NoMap, Load, MapOf, Entered, OwnProfile
<1>12. ASSUME NEW p \in Procs, List(p) PROVE Entered'
  BY <1>12, <1>0 DEF List, Locals, Idle, NoMap, Load, MapOf, Entered, OwnProfile
<1>13. ASSUME NEW p \in Procs, MatchArm(p) PROVE Entered'
  BY <1>13, <1>0 DEF MatchArm, ProfilesOf, Locals, Idle, NoMap, Load, MapOf, Entered, OwnProfile
<1>14. ASSUME NEW p \in Procs, NEW n \in Nics, Try(p, n) PROVE Entered'
  <2>1. loc[p] \in Locals
    BY <1>0
  <2>2. loc[p].pc = "try"
    BY <1>14 DEF Try
  <2>3. CASE loc' = [loc EXCEPT ![p] = [loc[p] EXCEPT !.pc = "probe", !.nic = n]]
    <3>1. \A x \in Procs : x # p => loc'[x] = loc[x]
      BY <2>3, <1>0
    <3>2. /\ loc'[p].snap = loc[p].snap
          /\ loc'[p].found = loc[p].found
      BY <2>1, <2>3, <1>0 DEF Locals
    <3>3. OwnProfile(loc'[p].snap) /\ OwnProfile(loc'[p].found)
      BY <3>2, <1>0 DEF Entered, OwnProfile, NoMap
    <3>4. nicmap' = nicmap
      BY <1>14 DEF Try
    <3>5. QED
      BY <3>1, <3>3, <3>4, <1>0 DEF Entered
  <2>4. CASE loc' = [loc EXCEPT ![p] = [loc[p] EXCEPT !.pool = @ \ {n}]]
    <3>1. \A x \in Procs : x # p => loc'[x] = loc[x]
      BY <2>4, <1>0
    <3>2. /\ loc'[p].snap = loc[p].snap
          /\ loc'[p].found = loc[p].found
      BY <2>1, <2>4, <1>0 DEF Locals
    <3>3. OwnProfile(loc'[p].snap) /\ OwnProfile(loc'[p].found)
      BY <3>2, <1>0 DEF Entered, OwnProfile, NoMap
    <3>4. nicmap' = nicmap
      BY <1>14 DEF Try
    <3>5. QED
      BY <3>1, <3>3, <3>4, <1>0 DEF Entered
  <2>5. QED
    BY <1>14, <2>3, <2>4 DEF Try
<1>15. ASSUME NEW p \in Procs, ProbeArm(p) PROVE Entered'
  <2>1. loc[p] \in Locals
    BY <1>0
  <2>2. loc[p].pc = "probe"
    BY <1>15 DEF ProbeArm
  <2>3. CASE loc' = [loc EXCEPT ![p] = [loc[p] EXCEPT !.pc = "down"]]
    <3>1. \A x \in Procs : x # p => loc'[x] = loc[x]
      BY <2>3, <1>0
    <3>2. /\ loc'[p].snap = loc[p].snap
          /\ loc'[p].found = loc[p].found
      BY <2>1, <2>3, <1>0 DEF Locals
    <3>3. OwnProfile(loc'[p].snap) /\ OwnProfile(loc'[p].found)
      BY <3>2, <1>0 DEF Entered, OwnProfile, NoMap
    <3>4. nicmap' = nicmap
      BY <1>15 DEF ProbeArm
    <3>5. QED
      BY <3>1, <3>3, <3>4, <1>0 DEF Entered
  <2>4. CASE loc' = [loc EXCEPT ![p] = [loc[p] EXCEPT !.pc = "match", !.taken = @ \cup {loc[p].nic},
           !.prof = None, !.pool = {}, !.nic = None,
           !.found = [@ EXCEPT ![Of[loc[p].prof]] = [nic |-> loc[p].nic, prof |-> loc[p].prof]]]]
    <3>1. \A x \in Procs : x # p => loc'[x] = loc[x]
      BY <2>4, <1>0
    <3>2. /\ loc'[p].snap = loc[p].snap
          /\ loc'[p].found = [loc[p].found EXCEPT ![Of[loc[p].prof]] =
                                  [nic |-> loc[p].nic, prof |-> loc[p].prof]]
      BY <2>1, <2>4, <1>0 DEF Locals
    <3>3. loc[p].prof # None /\ loc[p].prof \in Profiles
      BY <2>1, <2>2, <1>0 DEF Tried, Locals
    <3>4. loc[p].found \in [Arms -> Entries \cup {None}]
      BY <2>1 DEF Locals
    <3>5. OwnProfile(loc'[p].found)
      BY <3>2, <3>3, <3>4, <1>0 DEF Entered, OwnProfile
    <3>6. OwnProfile(loc'[p].snap)
      BY <3>2, <1>0 DEF Entered
    <3>7. nicmap' = nicmap
      BY <1>15 DEF ProbeArm
    <3>8. QED
      BY <3>1, <3>5, <3>6, <3>7, <1>0 DEF Entered
  <2>5. QED
    BY <1>15, <2>3, <2>4 DEF ProbeArm, Goto
<1>16. ASSUME NEW p \in Procs, Down(p) PROVE Entered'
  BY <1>16, <1>0 DEF Down, Deactivate, Locals, Idle, NoMap, Load, MapOf, Entered, OwnProfile
<1>17. ASSUME NEW p \in Procs, NoCandidate(p) PROVE Entered'
  BY <1>17, <1>0 DEF NoCandidate, Locals, Idle, NoMap, Load, MapOf, Entered, OwnProfile
<1>18. ASSUME NEW p \in Procs, Matched(p) PROVE Entered'
  <2>1. loc[p] \in Locals
    BY <1>0
  <2>2. loc[p].pc = "match"
    BY <1>18 DEF Matched
  <2>3. CASE loc' = [loc EXCEPT ![p] = [loc[p] EXCEPT !.pc = "restore"]]
    <3>1. \A x \in Procs : x # p => loc'[x] = loc[x]
      BY <2>3, <1>0
    <3>2. /\ loc'[p].snap = loc[p].snap
          /\ loc'[p].found = loc[p].found
      BY <2>1, <2>3, <1>0 DEF Locals
    <3>3. OwnProfile(loc'[p].snap) /\ OwnProfile(loc'[p].found)
      BY <3>2, <1>0 DEF Entered, OwnProfile, NoMap
    <3>4. nicmap' = nicmap
      BY <1>18 DEF Matched
    <3>5. QED
      BY <3>1, <3>3, <3>4, <1>0 DEF Entered
  <2>4. CASE loc' = [loc EXCEPT ![p] = [loc[p] EXCEPT !.pc = "save"]]
    <3>1. \A x \in Procs : x # p => loc'[x] = loc[x]
      BY <2>4, <1>0
    <3>2. /\ loc'[p].snap = loc[p].snap
          /\ loc'[p].found = loc[p].found
      BY <2>1, <2>4, <1>0 DEF Locals
    <3>3. OwnProfile(loc'[p].snap) /\ OwnProfile(loc'[p].found)
      BY <3>2, <1>0 DEF Entered, OwnProfile, NoMap
    <3>4. nicmap' = nicmap
      BY <1>18 DEF Matched
    <3>5. QED
      BY <3>1, <3>3, <3>4, <1>0 DEF Entered
  <2>5. CASE loc' = [loc EXCEPT ![p] = Idle]
    <3>1. \A x \in Procs : x # p => loc'[x] = loc[x]
      BY <2>5, <1>0
    <3>2. /\ loc'[p].snap = NoMap
          /\ loc'[p].found = NoMap
      BY <2>1, <2>5, <1>0 DEF Idle
    <3>3. OwnProfile(loc'[p].snap) /\ OwnProfile(loc'[p].found)
      BY <3>2, <1>0 DEF Entered, OwnProfile, NoMap
    <3>4. nicmap' = nicmap
      BY <1>18 DEF Matched
    <3>5. QED
      BY <3>1, <3>3, <3>4, <1>0 DEF Entered
  <2>6. QED
    BY <1>18, <2>3, <2>4, <2>5 DEF Matched, Goto
<1>19. ASSUME NEW p \in Procs, Save(p) PROVE Entered'
  BY <1>19, <1>0 DEF Save, Locals, Idle, NoMap, Load, MapOf, Entered, OwnProfile
<1>20. ASSUME NEW p \in Procs, Plan(p) PROVE Entered'
  <2>1. loc[p] \in Locals
    BY <1>0
  <2>2. loc[p].pc = "plan"
    BY <1>20 DEF Plan
  <2>3. CASE loc' = [loc EXCEPT ![p] = Idle]
    <3>1. \A x \in Procs : x # p => loc'[x] = loc[x]
      BY <2>3, <1>0
    <3>2. /\ loc'[p].snap = NoMap
          /\ loc'[p].found = NoMap
      BY <2>1, <2>3, <1>0 DEF Idle
    <3>3. OwnProfile(loc'[p].snap) /\ OwnProfile(loc'[p].found)
      BY <3>2, <1>0 DEF Entered, OwnProfile, NoMap
    <3>4. nicmap' = nicmap
      BY <1>20 DEF Plan
    <3>5. QED
      BY <3>1, <3>3, <3>4, <1>0 DEF Entered
  <2>4. CASE \E S : loc' = [loc EXCEPT ![p] = [Idle EXCEPT !.pc = "apply", !.plan = S]]
    <3>1. \A x \in Procs : x # p => loc'[x] = loc[x]
      BY <2>4, <1>0
    <3>2. /\ loc'[p].snap = NoMap
          /\ loc'[p].found = NoMap
      BY <2>1, <2>4, <1>0 DEF Idle
    <3>3. OwnProfile(loc'[p].snap) /\ OwnProfile(loc'[p].found)
      BY <3>2, <1>0 DEF Entered, OwnProfile, NoMap
    <3>4. nicmap' = nicmap
      BY <1>20 DEF Plan
    <3>5. QED
      BY <3>1, <3>3, <3>4, <1>0 DEF Entered
  <2>5. QED
    BY <1>20, <2>3, <2>4 DEF Plan
<1>21. ASSUME NEW p \in Procs, Apply(p) PROVE Entered'
  <2>1. loc[p] \in Locals /\ nicmap' = nicmap
    BY <1>21, <1>0 DEF Apply
  <2>2. PICK s \in loc[p].plan : loc' = [loc EXCEPT ![p] =
                   IF loc[p].plan = {s} THEN Idle ELSE [loc[p] EXCEPT !.plan = @ \ {s}]]
    BY <1>21 DEF Apply
  <2>3. \A x \in Procs : x # p => loc'[x] = loc[x]
    BY <2>2, <1>0
  <2>4. \/ loc'[p].snap = NoMap /\ loc'[p].found = NoMap
        \/ loc'[p].snap = loc[p].snap /\ loc'[p].found = loc[p].found
    BY <2>1, <2>2, <1>0 DEF Idle, Locals
  <2>5. OwnProfile(loc'[p].snap) /\ OwnProfile(loc'[p].found)
    BY <2>4, <1>0 DEF Entered, OwnProfile, NoMap
  <2>6. QED
    BY <2>1, <2>3, <2>5, <1>0 DEF Entered
<1>22. CASE UNCHANGED vars
  BY <1>22, <1>0 DEF vars, Entered
<1>23. QED
  BY <1>1, <1>2, <1>3, <1>4, <1>5, <1>6, <1>7, <1>8, <1>9, <1>10, <1>11, <1>11a, <1>12, <1>13,
     <1>14, <1>15, <1>16, <1>17, <1>18, <1>19, <1>20, <1>21, <1>22 DEF Next, Environment, Repair, Match,
     Procs

\* Spared is preserved: verify chooses only arms that do not answer, match() takes no frozen NIC.
LEMMA SparedStep ==
  TypeOK /\ Tried /\ Spared /\ [Next]_vars => Spared'
<1> SUFFICES ASSUME TypeOK, Tried, Spared, [Next]_vars PROVE Spared'
  OBVIOUS
<1> USE NetAssumption DEF nm, world, files, events, Set, At, Procs
<1>0. /\ loc \in [Procs -> Locals] /\ "root" \in Procs /\ "user" \in Procs
      /\ \A p \in Procs : loc[p] \in Locals
  BY DEF TypeOK
<1>1. ASSUME NEW q \in Profiles, NEW n \in Nics, Autoconnect(q, n) PROVE Spared'
  BY <1>1, <1>0 DEF Autoconnect, Activate, Locals, Idle, Spared, Spares, Sole
<1>2. CASE Recable
  BY <1>2, <1>0 DEF Recable, LinksChange, Locals, Idle, Spared, Spares, Sole
<1>3. ASSUME NEW a \in Arms, Power(a) PROVE Spared'
  BY <1>3, <1>0 DEF Power, LinksChange, Locals, Idle, Spared, Spares, Sole
<1>4. ASSUME NEW a \in Arms, Boots(a) PROVE Spared'
  BY <1>4, <1>0 DEF Boots, Locals, Idle, Spared, Spares, Sole
<1>5. CASE HoldoffExpires
  BY <1>5, <1>0 DEF HoldoffExpires, Locals, Idle, Spared, Spares, Sole
<1>6. CASE Worker
  BY <1>6, <1>0 DEF Worker, Goto, Locals, Idle, Spared, Spares, Sole
<1>7. CASE Verify
  <2> DEFINE m == Load("root")
              targets == Probe(m) \cup (IF recent THEN {} ELSE Pending(m))
  <2>1. loc' = [loc EXCEPT !["root"] =
                [Idle EXCEPT !.pc = IF targets = {} THEN "plan" ELSE "list", !.todo = targets,
                                  !.seen = Carried, !.snap = m, !.frozen = FrozenNics(m)]]
    BY <1>7 DEF Verify
  <2>2. \A a \in targets : a \in Arms /\ Miss(a, m[a]) # ""
    BY DEF Probe, Pending
  <2> HIDE DEF m, targets
  <2>3. /\ loc'["root"].todo = targets /\ loc'["root"].snap = m /\ loc'["root"].frozen = FrozenNics(m)
        /\ loc'["root"].lost = {} /\ loc'["root"].prof = None /\ loc'["root"].pool = {}
        /\ loc'["root"].pc \in {"plan", "list"}
    BY <2>1, <1>0 DEF Idle
  <2>4. ASSUME NEW a \in targets, m[a].nic \in FrozenNics(m)
        PROVE  \E b \in Arms \ {a} : m[b] # None /\ m[b].nic = m[a].nic
    <3>1. PICK b \in Arms : Miss(b, m[b]) = "" /\ m[b].nic = m[a].nic
      BY <2>4 DEF FrozenNics
    <3>2. b # a /\ m[b] # None
      BY <3>1, <2>2 DEF Miss
    <3>3. QED
      BY <3>1, <3>2
  <2>5. QED
    BY <2>3, <2>4 DEF Spared, Spares, Sole
<1>8. ASSUME NEW a \in Arms, Restore(a) PROVE Spared'
  BY <1>8, <1>0 DEF Restore, Activate, Locals, Idle, Spared, Spares, Sole
<1>9. CASE Restored
  BY <1>9, <1>0 DEF Restored, Goto, Locals, Idle, Spared, Spares, Sole
<1>10. CASE UserMatches
  BY <1>10, <1>0 DEF UserMatches, Locals, Idle, Spared, Spares, Sole
<1>11. CASE Aborts
  BY <1>11, <1>0 DEF Aborts, Locals, Idle, Spared, Spares, Sole
<1>11a. CASE Raises
  BY <1>11a, <1>0 DEF Raises, Locals, Idle, Spared, Spares, Sole
<1>12. ASSUME NEW p \in Procs, List(p) PROVE Spared'
  <2>1. loc[p] \in Locals
    BY <1>0
  <2>2. PICK c \in [Arms -> Profiles \cup {None}] :
           loc' = [loc EXCEPT ![p] =
                   [loc[p] EXCEPT !.pc = "match", !.carried = Carried, !.choice = c,
                                        !.pinned = {q \in known : pin[q] # None},
                                        !.taken = Reserved(p)]]
    BY <1>12 DEF List
  <2>3. /\ \A x \in Procs : x # p => loc'[x] = loc[x]
        /\ loc'[p].taken = loc[p].frozen
        /\ loc'[p].todo = loc[p].todo
        /\ loc'[p].lost = loc[p].lost
        /\ loc'[p].prof = loc[p].prof
        /\ loc'[p].snap = loc[p].snap
        /\ loc'[p].frozen = loc[p].frozen
        /\ loc'[p].pool = loc[p].pool
    BY <2>1, <2>2, <1>0 DEF Locals, Reserved
  <2>4. CASE p = "root"
    <3>1. Spares(loc[p])
      BY <2>4 DEF Spared
    <3>2. /\ loc'[p].pool \cap loc[p].frozen = {}
          /\ (loc'[p].prof # None => ~Sole(loc[p], Of[loc'[p].prof]))
      BY <2>3, <3>1 DEF Spares
    <3>3. Spares(loc'[p])
      BY <2>3, <3>1, <3>2, SparesOn
    <3>4. QED
      BY <2>4, <3>3 DEF Spared
  <2>5. CASE p # "root"
    BY <2>3, <2>5, <1>0 DEF Spared
  <2>6. QED
    BY <2>4, <2>5
<1>13. ASSUME NEW p \in Procs, MatchArm(p) PROVE Spared'
  <2> DEFINE pool == loc[p].carried \ loc[p].taken
  <2>1. loc[p] \in Locals /\ loc[p].pc = "match"
    BY <1>13, <1>0 DEF MatchArm
  <2>2. PICK a \in loc[p].todo, q \in Profiles :
           /\ Of[q] = a
           /\ loc' = [loc EXCEPT ![p] =
                   [loc[p] EXCEPT !.pc = "try", !.todo = @ \ {a}, !.prof = q, !.pool = pool]]
    BY <1>13 DEF MatchArm, ProfilesOf
  <2>3. /\ \A x \in Procs : x # p => loc'[x] = loc[x]
        /\ loc'[p].todo = loc[p].todo \ {a} /\ loc'[p].prof = q /\ loc'[p].pool = pool
        /\ loc'[p].lost = loc[p].lost
        /\ loc'[p].snap = loc[p].snap
        /\ loc'[p].frozen = loc[p].frozen
        /\ loc'[p].taken = loc[p].taken
    BY <2>1, <2>2, <1>0 DEF Locals
  <2>4. CASE p = "root"
    <3>1. Spares(loc[p])
      BY <2>4 DEF Spared
    <3>2. loc[p].frozen \subseteq loc[p].taken /\ ~Sole(loc[p], Of[q])
      BY <2>1, <2>2, <3>1 DEF Spares
    <3>3. Spares(loc'[p])
      BY <2>3, <3>1, <3>2, SparesOn
    <3>4. QED
      BY <2>4, <3>3 DEF Spared
  <2>5. CASE p # "root"
    BY <2>3, <2>5, <1>0 DEF Spared
  <2>6. QED
    BY <2>4, <2>5
<1>14. ASSUME NEW p \in Procs, NEW n \in Nics, Try(p, n) PROVE Spared'
  <2>1. loc[p] \in Locals
    BY <1>0
  <2>2. loc[p].pc = "try"
    BY <1>14 DEF Try
  <2>3. CASE loc' = [loc EXCEPT ![p] = [loc[p] EXCEPT !.pc = "probe", !.nic = n]]
    <3>1. \A x \in Procs : x # p => loc'[x] = loc[x]
      BY <2>3, <1>0
    <3>2. /\ loc'[p].pc = "probe"
          /\ loc'[p].taken = loc[p].taken
          /\ loc'[p].todo = loc[p].todo
          /\ loc'[p].lost = loc[p].lost
          /\ loc'[p].prof = loc[p].prof
          /\ loc'[p].snap = loc[p].snap
          /\ loc'[p].frozen = loc[p].frozen
          /\ loc'[p].pool = loc[p].pool
      BY <2>1, <2>3, <1>0 DEF Locals
    <3>3. CASE p = "root"
      <4>1. Spares(loc[p])
        BY <3>3 DEF Spared
      <4>2. loc'[p].pool \cap loc[p].frozen = {}
        BY <3>2, <4>1 DEF Spares
      <4>3. \A a \in loc'[p].lost : a \in loc[p].lost \/ ~Sole(loc[p], a)
        BY <2>2, <3>2, <4>1, <1>0 DEF Spares, Tried
      <4>4. loc'[p].prof # None => ~Sole(loc[p], Of[loc'[p].prof])
        BY <3>2, <4>1 DEF Spares
      <4>5. loc'[p].pc \in {"match", "try", "probe", "down"} => loc[p].frozen \subseteq loc'[p].taken
        BY <2>2, <3>2, <4>1 DEF Spares
      <4>6. Spares(loc'[p])
        BY <3>2, <4>1, <4>2, <4>3, <4>4, <4>5, SparesOn
      <4>7. QED
        BY <3>3, <4>6 DEF Spared
    <3>4. CASE p # "root"
      BY <3>1, <3>4, <1>0 DEF Spared
    <3>5. QED
      BY <3>3, <3>4
  <2>4. CASE loc' = [loc EXCEPT ![p] = [loc[p] EXCEPT !.pool = @ \ {n}]]
    <3>1. \A x \in Procs : x # p => loc'[x] = loc[x]
      BY <2>4, <1>0
    <3>2. /\ loc'[p].pc = loc[p].pc
          /\ loc'[p].taken = loc[p].taken
          /\ loc'[p].todo = loc[p].todo
          /\ loc'[p].lost = loc[p].lost
          /\ loc'[p].prof = loc[p].prof
          /\ loc'[p].snap = loc[p].snap
          /\ loc'[p].frozen = loc[p].frozen
          /\ loc'[p].pool = loc[p].pool \ {n}
      BY <2>1, <2>4, <1>0 DEF Locals
    <3>3. CASE p = "root"
      <4>1. Spares(loc[p])
        BY <3>3 DEF Spared
      <4>2. loc'[p].pool \cap loc[p].frozen = {}
        BY <3>2, <4>1 DEF Spares
      <4>3. \A a \in loc'[p].lost : a \in loc[p].lost \/ ~Sole(loc[p], a)
        BY <2>2, <3>2, <4>1, <1>0 DEF Spares, Tried
      <4>4. loc'[p].prof # None => ~Sole(loc[p], Of[loc'[p].prof])
        BY <3>2, <4>1 DEF Spares
      <4>5. loc'[p].pc \in {"match", "try", "probe", "down"} => loc[p].frozen \subseteq loc'[p].taken
        BY <2>2, <3>2, <4>1 DEF Spares
      <4>6. Spares(loc'[p])
        BY <3>2, <4>1, <4>2, <4>3, <4>4, <4>5, SparesOn
      <4>7. QED
        BY <3>3, <4>6 DEF Spared
    <3>4. CASE p # "root"
      BY <3>1, <3>4, <1>0 DEF Spared
    <3>5. QED
      BY <3>3, <3>4
  <2>5. QED
    BY <1>14, <2>3, <2>4 DEF Try
<1>15. ASSUME NEW p \in Procs, ProbeArm(p) PROVE Spared'
  <2>1. loc[p] \in Locals
    BY <1>0
  <2>2. loc[p].pc = "probe"
    BY <1>15 DEF ProbeArm
  <2>3. CASE loc' = [loc EXCEPT ![p] = [loc[p] EXCEPT !.pc = "down"]]
    <3>1. \A x \in Procs : x # p => loc'[x] = loc[x]
      BY <2>3, <1>0
    <3>2. /\ loc'[p].pc = "down"
          /\ loc'[p].taken = loc[p].taken
          /\ loc'[p].todo = loc[p].todo
          /\ loc'[p].lost = loc[p].lost
          /\ loc'[p].prof = loc[p].prof
          /\ loc'[p].snap = loc[p].snap
          /\ loc'[p].frozen = loc[p].frozen
          /\ loc'[p].pool = loc[p].pool
      BY <2>1, <2>3, <1>0 DEF Locals
    <3>3. CASE p = "root"
      <4>1. Spares(loc[p])
        BY <3>3 DEF Spared
      <4>2. loc'[p].pool \cap loc[p].frozen = {}
        BY <3>2, <4>1 DEF Spares
      <4>3. \A a \in loc'[p].lost : a \in loc[p].lost \/ ~Sole(loc[p], a)
        BY <2>2, <3>2, <4>1, <1>0 DEF Spares, Tried
      <4>4. loc'[p].prof # None => ~Sole(loc[p], Of[loc'[p].prof])
        BY <3>2, <4>1 DEF Spares
      <4>5. loc'[p].pc \in {"match", "try", "probe", "down"} => loc[p].frozen \subseteq loc'[p].taken
        BY <2>2, <3>2, <4>1 DEF Spares
      <4>6. Spares(loc'[p])
        BY <3>2, <4>1, <4>2, <4>3, <4>4, <4>5, SparesOn
      <4>7. QED
        BY <3>3, <4>6 DEF Spared
    <3>4. CASE p # "root"
      BY <3>1, <3>4, <1>0 DEF Spared
    <3>5. QED
      BY <3>3, <3>4
  <2>4. CASE loc' = [loc EXCEPT ![p] = [loc[p] EXCEPT !.pc = "match", !.taken = @ \cup {loc[p].nic},
           !.prof = None, !.pool = {}, !.nic = None,
           !.found = [@ EXCEPT ![Of[loc[p].prof]] = [nic |-> loc[p].nic, prof |-> loc[p].prof]]]]
    <3>1. \A x \in Procs : x # p => loc'[x] = loc[x]
      BY <2>4, <1>0
    <3>2. /\ loc'[p].pc = "match"
          /\ loc'[p].taken = loc[p].taken \cup {loc[p].nic}
          /\ loc'[p].todo = loc[p].todo
          /\ loc'[p].lost = loc[p].lost
          /\ loc'[p].prof = None
          /\ loc'[p].snap = loc[p].snap
          /\ loc'[p].frozen = loc[p].frozen
          /\ loc'[p].pool = {}
      BY <2>1, <2>4, <1>0 DEF Locals
    <3>3. CASE p = "root"
      <4>1. Spares(loc[p])
        BY <3>3 DEF Spared
      <4>2. loc'[p].pool \cap loc[p].frozen = {}
        BY <3>2, <4>1 DEF Spares
      <4>3. \A a \in loc'[p].lost : a \in loc[p].lost \/ ~Sole(loc[p], a)
        BY <2>2, <3>2, <4>1, <1>0 DEF Spares, Tried
      <4>4. loc'[p].prof # None => ~Sole(loc[p], Of[loc'[p].prof])
        BY <3>2, <4>1 DEF Spares
      <4>5. loc'[p].pc \in {"match", "try", "probe", "down"} => loc[p].frozen \subseteq loc'[p].taken
        BY <2>2, <3>2, <4>1 DEF Spares
      <4>6. Spares(loc'[p])
        BY <3>2, <4>1, <4>2, <4>3, <4>4, <4>5, SparesOn
      <4>7. QED
        BY <3>3, <4>6 DEF Spared
    <3>4. CASE p # "root"
      BY <3>1, <3>4, <1>0 DEF Spared
    <3>5. QED
      BY <3>3, <3>4
  <2>5. QED
    BY <1>15, <2>3, <2>4 DEF ProbeArm, Goto
<1>16. ASSUME NEW p \in Procs, Down(p) PROVE Spared'
  <2>1. loc[p] \in Locals
    BY <1>0
  <2>2. loc[p].pc = "down"
    BY <1>16 DEF Down
  <2>3. CASE loc' = [loc EXCEPT ![p] =
                     [loc[p] EXCEPT !.pc = "try", !.pool = @ \ {loc[p].nic}, !.nic = None]]
    <3>1. \A x \in Procs : x # p => loc'[x] = loc[x]
      BY <2>3, <1>0
    <3>2. /\ loc'[p].pc = "try"
          /\ loc'[p].taken = loc[p].taken
          /\ loc'[p].todo = loc[p].todo
          /\ loc'[p].lost = loc[p].lost
          /\ loc'[p].prof = loc[p].prof
          /\ loc'[p].snap = loc[p].snap
          /\ loc'[p].frozen = loc[p].frozen
          /\ loc'[p].pool = loc[p].pool \ {loc[p].nic}
      BY <2>1, <2>3, <1>0 DEF Locals
    <3>3. CASE p = "root"
      <4>1. Spares(loc[p])
        BY <3>3 DEF Spared
      <4>2. loc'[p].pool \cap loc[p].frozen = {}
        BY <3>2, <4>1 DEF Spares
      <4>3. \A a \in loc'[p].lost : a \in loc[p].lost \/ ~Sole(loc[p], a)
        BY <2>2, <3>2, <4>1, <1>0 DEF Spares, Tried
      <4>4. loc'[p].prof # None => ~Sole(loc[p], Of[loc'[p].prof])
        BY <3>2, <4>1 DEF Spares
      <4>5. loc'[p].pc \in {"match", "try", "probe", "down"} => loc[p].frozen \subseteq loc'[p].taken
        BY <2>2, <3>2, <4>1 DEF Spares
      <4>6. Spares(loc'[p])
        BY <3>2, <4>1, <4>2, <4>3, <4>4, <4>5, SparesOn
      <4>7. QED
        BY <3>3, <4>6 DEF Spared
    <3>4. CASE p # "root"
      BY <3>1, <3>4, <1>0 DEF Spared
    <3>5. QED
      BY <3>3, <3>4
  <2>4. QED
    BY <1>16, <2>3 DEF Down
<1>17. ASSUME NEW p \in Procs, NoCandidate(p) PROVE Spared'
  <2>1. loc[p] \in Locals
    BY <1>0
  <2>2. loc[p].pc = "try"
    BY <1>17 DEF NoCandidate
  <2>3. CASE loc' = [loc EXCEPT ![p] =
                     [loc[p] EXCEPT !.pc = "match", !.prof = None, !.lost = @ \cup {Of[loc[p].prof]}]]
    <3>1. \A x \in Procs : x # p => loc'[x] = loc[x]
      BY <2>3, <1>0
    <3>2. /\ loc'[p].pc = "match"
          /\ loc'[p].taken = loc[p].taken
          /\ loc'[p].todo = loc[p].todo
          /\ loc'[p].lost = loc[p].lost \cup {Of[loc[p].prof]}
          /\ loc'[p].prof = None
          /\ loc'[p].snap = loc[p].snap
          /\ loc'[p].frozen = loc[p].frozen
          /\ loc'[p].pool = loc[p].pool
      BY <2>1, <2>3, <1>0 DEF Locals
    <3>3. CASE p = "root"
      <4>1. Spares(loc[p])
        BY <3>3 DEF Spared
      <4>2. loc'[p].pool \cap loc[p].frozen = {}
        BY <3>2, <4>1 DEF Spares
      <4>3. \A a \in loc'[p].lost : a \in loc[p].lost \/ ~Sole(loc[p], a)
        BY <2>2, <3>2, <4>1, <1>0 DEF Spares, Tried
      <4>4. loc'[p].prof # None => ~Sole(loc[p], Of[loc'[p].prof])
        BY <3>2, <4>1 DEF Spares
      <4>5. loc'[p].pc \in {"match", "try", "probe", "down"} => loc[p].frozen \subseteq loc'[p].taken
        BY <2>2, <3>2, <4>1 DEF Spares
      <4>6. Spares(loc'[p])
        BY <3>2, <4>1, <4>2, <4>3, <4>4, <4>5, SparesOn
      <4>7. QED
        BY <3>3, <4>6 DEF Spared
    <3>4. CASE p # "root"
      BY <3>1, <3>4, <1>0 DEF Spared
    <3>5. QED
      BY <3>3, <3>4
  <2>4. QED
    BY <1>17, <2>3 DEF NoCandidate
<1>18. ASSUME NEW p \in Procs, Matched(p) PROVE Spared'
  <2>1. loc[p] \in Locals
    BY <1>0
  <2>2. loc[p].pc = "match"
    BY <1>18 DEF Matched
  <2>3. CASE loc' = [loc EXCEPT ![p] = [loc[p] EXCEPT !.pc = "restore"]]
    <3>1. \A x \in Procs : x # p => loc'[x] = loc[x]
      BY <2>3, <1>0
    <3>2. /\ loc'[p].pc = "restore"
          /\ loc'[p].taken = loc[p].taken
          /\ loc'[p].todo = loc[p].todo
          /\ loc'[p].lost = loc[p].lost
          /\ loc'[p].prof = loc[p].prof
          /\ loc'[p].snap = loc[p].snap
          /\ loc'[p].frozen = loc[p].frozen
          /\ loc'[p].pool = loc[p].pool
      BY <2>1, <2>3, <1>0 DEF Locals
    <3>3. CASE p = "root"
      <4>1. Spares(loc[p])
        BY <3>3 DEF Spared
      <4>2. loc'[p].pool \cap loc[p].frozen = {}
        BY <3>2, <4>1 DEF Spares
      <4>3. \A a \in loc'[p].lost : a \in loc[p].lost \/ ~Sole(loc[p], a)
        BY <2>2, <3>2, <4>1, <1>0 DEF Spares, Tried
      <4>4. loc'[p].prof # None => ~Sole(loc[p], Of[loc'[p].prof])
        BY <3>2, <4>1 DEF Spares
      <4>5. loc'[p].pc \in {"match", "try", "probe", "down"} => loc[p].frozen \subseteq loc'[p].taken
        BY <2>2, <3>2, <4>1 DEF Spares
      <4>6. Spares(loc'[p])
        BY <3>2, <4>1, <4>2, <4>3, <4>4, <4>5, SparesOn
      <4>7. QED
        BY <3>3, <4>6 DEF Spared
    <3>4. CASE p # "root"
      BY <3>1, <3>4, <1>0 DEF Spared
    <3>5. QED
      BY <3>3, <3>4
  <2>4. CASE loc' = [loc EXCEPT ![p] = [loc[p] EXCEPT !.pc = "save"]]
    <3>1. \A x \in Procs : x # p => loc'[x] = loc[x]
      BY <2>4, <1>0
    <3>2. /\ loc'[p].pc = "save"
          /\ loc'[p].taken = loc[p].taken
          /\ loc'[p].todo = loc[p].todo
          /\ loc'[p].lost = loc[p].lost
          /\ loc'[p].prof = loc[p].prof
          /\ loc'[p].snap = loc[p].snap
          /\ loc'[p].frozen = loc[p].frozen
          /\ loc'[p].pool = loc[p].pool
      BY <2>1, <2>4, <1>0 DEF Locals
    <3>3. CASE p = "root"
      <4>1. Spares(loc[p])
        BY <3>3 DEF Spared
      <4>2. loc'[p].pool \cap loc[p].frozen = {}
        BY <3>2, <4>1 DEF Spares
      <4>3. \A a \in loc'[p].lost : a \in loc[p].lost \/ ~Sole(loc[p], a)
        BY <2>2, <3>2, <4>1, <1>0 DEF Spares, Tried
      <4>4. loc'[p].prof # None => ~Sole(loc[p], Of[loc'[p].prof])
        BY <3>2, <4>1 DEF Spares
      <4>5. loc'[p].pc \in {"match", "try", "probe", "down"} => loc[p].frozen \subseteq loc'[p].taken
        BY <2>2, <3>2, <4>1 DEF Spares
      <4>6. Spares(loc'[p])
        BY <3>2, <4>1, <4>2, <4>3, <4>4, <4>5, SparesOn
      <4>7. QED
        BY <3>3, <4>6 DEF Spared
    <3>4. CASE p # "root"
      BY <3>1, <3>4, <1>0 DEF Spared
    <3>5. QED
      BY <3>3, <3>4
  <2>5. CASE loc' = [loc EXCEPT ![p] = Idle]
    <3>1. \A x \in Procs : x # p => loc'[x] = loc[x]
      BY <2>5, <1>0
    <3>2. /\ loc'[p].pc = "idle"
          /\ loc'[p].todo = {}
          /\ loc'[p].lost = {}
          /\ loc'[p].prof = None
          /\ loc'[p].snap = NoMap
          /\ loc'[p].frozen = {}
          /\ loc'[p].pool = {}
      BY <2>1, <2>5, <1>0 DEF Idle
    <3>3. CASE p = "root"
      <4>1. Spares(loc'["root"])
        BY <3>2, <3>3 DEF Spares, Sole
      <4>2. QED
        BY <4>1 DEF Spared
    <3>4. CASE p # "root"
      BY <3>1, <3>4, <1>0 DEF Spared
    <3>5. QED
      BY <3>3, <3>4
  <2>6. QED
    BY <1>18, <2>3, <2>4, <2>5 DEF Matched, Goto
<1>19. ASSUME NEW p \in Procs, Save(p) PROVE Spared'
  BY <1>19, <1>0 DEF Save, Locals, Idle, Spared, Spares, Sole
<1>20. ASSUME NEW p \in Procs, Plan(p) PROVE Spared'
  <2>1. loc[p] \in Locals
    BY <1>0
  <2>2. loc[p].pc = "plan"
    BY <1>20 DEF Plan
  <2>3. CASE loc' = [loc EXCEPT ![p] = Idle]
    <3>1. \A x \in Procs : x # p => loc'[x] = loc[x]
      BY <2>3, <1>0
    <3>2. /\ loc'[p].pc = "idle"
          /\ loc'[p].todo = {}
          /\ loc'[p].lost = {}
          /\ loc'[p].prof = None
          /\ loc'[p].snap = NoMap
          /\ loc'[p].frozen = {}
          /\ loc'[p].pool = {}
      BY <2>1, <2>3, <1>0 DEF Idle
    <3>3. CASE p = "root"
      <4>1. Spares(loc'["root"])
        BY <3>2, <3>3 DEF Spares, Sole
      <4>2. QED
        BY <4>1 DEF Spared
    <3>4. CASE p # "root"
      BY <3>1, <3>4, <1>0 DEF Spared
    <3>5. QED
      BY <3>3, <3>4
  <2>4. CASE \E S : loc' = [loc EXCEPT ![p] = [Idle EXCEPT !.pc = "apply", !.plan = S]]
    <3>1. \A x \in Procs : x # p => loc'[x] = loc[x]
      BY <2>4, <1>0
    <3>2. /\ loc'[p].pc = "apply"
          /\ loc'[p].todo = {}
          /\ loc'[p].lost = {}
          /\ loc'[p].prof = None
          /\ loc'[p].snap = NoMap
          /\ loc'[p].frozen = {}
          /\ loc'[p].pool = {}
      BY <2>1, <2>4, <1>0 DEF Idle
    <3>3. CASE p = "root"
      <4>1. Spares(loc'["root"])
        BY <3>2, <3>3 DEF Spares, Sole
      <4>2. QED
        BY <4>1 DEF Spared
    <3>4. CASE p # "root"
      BY <3>1, <3>4, <1>0 DEF Spared
    <3>5. QED
      BY <3>3, <3>4
  <2>5. QED
    BY <1>20, <2>3, <2>4 DEF Plan
<1>21. ASSUME NEW p \in Procs, Apply(p) PROVE Spared'
  <2>1. loc[p] \in Locals
    BY <1>0
  <2>2. loc[p].pc = "apply"
    BY <1>21 DEF Apply
  <2>3. CASE loc' = [loc EXCEPT ![p] = Idle]
    <3>1. \A x \in Procs : x # p => loc'[x] = loc[x]
      BY <2>3, <1>0
    <3>2. /\ loc'[p].pc = "idle"
          /\ loc'[p].todo = {}
          /\ loc'[p].lost = {}
          /\ loc'[p].prof = None
          /\ loc'[p].snap = NoMap
          /\ loc'[p].frozen = {}
          /\ loc'[p].pool = {}
      BY <2>1, <2>3, <1>0 DEF Idle
    <3>3. CASE p = "root"
      <4>1. Spares(loc'["root"])
        BY <3>2, <3>3 DEF Spares, Sole
      <4>2. QED
        BY <4>1 DEF Spared
    <3>4. CASE p # "root"
      BY <3>1, <3>4, <1>0 DEF Spared
    <3>5. QED
      BY <3>3, <3>4
  <2>4. CASE \E S : loc' = [loc EXCEPT ![p] = [loc[p] EXCEPT !.plan = S]]
    <3>1. \A x \in Procs : x # p => loc'[x] = loc[x]
      BY <2>4, <1>0
    <3>2. /\ loc'[p].pc = loc[p].pc
          /\ loc'[p].taken = loc[p].taken
          /\ loc'[p].todo = loc[p].todo
          /\ loc'[p].lost = loc[p].lost
          /\ loc'[p].prof = loc[p].prof
          /\ loc'[p].snap = loc[p].snap
          /\ loc'[p].frozen = loc[p].frozen
          /\ loc'[p].pool = loc[p].pool
      BY <2>1, <2>4, <1>0 DEF Locals
    <3>3. CASE p = "root"
      <4>1. Spares(loc[p])
        BY <3>3 DEF Spared
      <4>2. loc'[p].pool \cap loc[p].frozen = {}
        BY <3>2, <4>1 DEF Spares
      <4>3. \A a \in loc'[p].lost : a \in loc[p].lost \/ ~Sole(loc[p], a)
        BY <2>2, <3>2, <4>1, <1>0 DEF Spares, Tried
      <4>4. loc'[p].prof # None => ~Sole(loc[p], Of[loc'[p].prof])
        BY <3>2, <4>1 DEF Spares
      <4>5. loc'[p].pc \in {"match", "try", "probe", "down"} => loc[p].frozen \subseteq loc'[p].taken
        BY <2>2, <3>2, <4>1 DEF Spares
      <4>6. Spares(loc'[p])
        BY <3>2, <4>1, <4>2, <4>3, <4>4, <4>5, SparesOn
      <4>7. QED
        BY <3>3, <4>6 DEF Spared
    <3>4. CASE p # "root"
      BY <3>1, <3>4, <1>0 DEF Spared
    <3>5. QED
      BY <3>3, <3>4
  <2>5. QED
    BY <1>21, <2>3, <2>4 DEF Apply
<1>22. CASE UNCHANGED vars
  BY <1>22, <1>0 DEF vars, Spared
<1>23. QED
  BY <1>1, <1>2, <1>3, <1>4, <1>5, <1>6, <1>7, <1>8, <1>9, <1>10, <1>11, <1>11a, <1>12, <1>13,
     <1>14, <1>15, <1>16, <1>17, <1>18, <1>19, <1>20, <1>21, <1>22 DEF Next, Environment, Repair, Match,
     Procs

\* The inductive invariant.
IInv == TypeOK /\ Tried /\ Entered /\ Spared

\* The initial state satisfies it, matched or not.
LEMMA InvInit == Init => IInv
<1> SUFFICES ASSUME Init PROVE IInv
  OBVIOUS
<1> USE NetAssumption DEF Procs
<1>1. /\ loc = [p \in Procs |-> Idle] /\ Idle \in Locals /\ \A p \in Procs : loc[p] = Idle
      /\ matches = 0 /\ raised = FALSE /\ blocked = {} /\ recent = FALSE /\ queued = TRUE
      /\ cable = Cabling /\ cable \in [Arms -> Nics \cup {None}]
      /\ box \in [Arms -> {"off", "silent", "up"}] /\ dev \in [Profiles -> Nics \cup {None}]
      /\ loc \in [Procs -> Locals]
  BY IdleTyped DEF Init
<1>2. Tried /\ Spared
  BY <1>1 DEF Tried, Spared, Spares, Sole, Idle
<1>3. \A p \in Procs : OwnProfile(loc[p].snap) /\ OwnProfile(loc[p].found)
  BY <1>1 DEF OwnProfile, Idle, NoMap
<1>4. CASE /\ changes = MaxEvents /\ known = Fresh /\ pin = [q \in Profiles |-> None]
           /\ auto = [q \in Profiles |-> TRUE] /\ nicmap = [f \in {"system", "user"} |-> NoMap]
  <2>1. /\ nicmap \in [{"system", "user"} -> [Arms -> Entries \cup {None}]]
        /\ pin \in [Profiles -> Nics \cup {None}] /\ auto \in [Profiles -> BOOLEAN]
    BY <1>4 DEF NoMap
  <2>2. changes \in 0 .. MaxEvents /\ matches \in 0 .. MaxEvents
    BY <1>1, <1>4
  <2>3. TypeOK
    BY <1>1, <1>4, <2>1, <2>2 DEF TypeOK
  <2>4. Entered
    BY <1>3, <1>4 DEF Entered, OwnProfile, NoMap
  <2>5. QED
    BY <1>2, <2>3, <2>4 DEF IInv
<1>5. ASSUME NEW m \in [Arms -> Entries],
             \A a \in Arms : m[a].prof \in Mapped /\ Of[m[a].prof] = a /\ m[a].nic = cable[a],
             changes = 0, known = Mapped,
             nicmap = [f \in {"system", "user"} |-> IF f = "system" THEN m ELSE NoMap],
             pin = [q \in Profiles |-> IF m[Of[q]].prof = q THEN cable[Of[q]] ELSE None],
             auto = [q \in Profiles |-> m[Of[q]].prof = q]
      PROVE  IInv
  <2>1. nicmap \in [{"system", "user"} -> [Arms -> Entries \cup {None}]]
    BY <1>5 DEF NoMap
  <2>2. pin \in [Profiles -> Nics \cup {None}] /\ auto \in [Profiles -> BOOLEAN]
    BY <1>1, <1>5
  <2>3. changes \in 0 .. MaxEvents /\ matches \in 0 .. MaxEvents
    BY <1>1, <1>5
  <2>4. TypeOK
    BY <1>1, <1>5, <2>1, <2>2, <2>3 DEF TypeOK
  <2>5. Entered
    BY <1>3, <1>5 DEF Entered, OwnProfile, NoMap
  <2>6. QED
    BY <1>2, <2>4, <2>5 DEF IInv
<1>6. QED
  BY <1>4, <1>5 DEF Init

\* Every step preserves it.
LEMMA InvStep == IInv /\ [Next]_vars => IInv'
BY TypeStep, TriedStep, EnteredStep, SparedStep DEF IInv

\* Every reachable state satisfies it: repairs, matches of a user, NetworkManager, cables and
\* boxes, in any interleaving.
THEOREM Inductive == Spec => []IInv
BY InvInit, InvStep, PTL DEF Spec

\* Every variable keeps its range: no profile is ever on something that is not a NIC.
THEOREM TypeCorrect == Spec => []TypeOK
<1>1. IInv => TypeOK
  BY DEF IInv
<1>2. QED
  BY <1>1, Inductive, PTL

\* A repair leaves an arm alone that answered when it decided: it tries neither its profile
\* (Spared) nor a NIC that is frozen, and restores none.
LEMMA FrozenStep ==
  ASSUME IInv, Repair, NEW q \in Profiles, dev[q] \in loc["root"].frozen,
         InPlace(q, loc["root"].snap)
  PROVE  dev'[q] = dev[q]
<1> DEFINE r == loc["root"]
<1> USE NetAssumption DEF At, nm
<1>1. r \in Locals /\ dev \in [Profiles -> Nics \cup {None}]
  BY DEF IInv, TypeOK, Procs
<1>2. r.frozen \subseteq Nics /\ r.pool \subseteq Nics /\ r.snap \in [Arms -> Entries \cup {None}]
  BY <1>1 DEF Locals
<1>3. Sole(r, Of[q])
  <2>1. r.snap[Of[q]] = [nic |-> dev[q], prof |-> q] /\ r.snap[Of[q]] \in Entries
    BY <1>2 DEF InPlace, Entries
  <2>2. r.snap[Of[q]] # None /\ r.snap[Of[q]].nic = dev[q]
    BY <2>1
  <2>3. \A b \in Arms \ {Of[q]} : r.snap[b] = None \/ r.snap[b].nic # dev[q]
    BY DEF InPlace
  <2>4. QED
    BY <2>2, <2>3 DEF Sole
<1>4. Spares(r)
  BY DEF IInv, Spared
<1>5. r.pc \in {"try", "probe", "down"} => r.prof # q
  BY <1>3, <1>4 DEF Spares, IInv, Tried, Procs
<1>6. ASSUME NEW n \in Nics, Try("root", n) PROVE dev'[q] = dev[q]
  <2>1. r.pc = "try" /\ n \in r.pool
    BY <1>6 DEF Try
  <2>2. r.prof # q /\ dev[q] # n
    BY <1>4, <1>5, <2>1 DEF Spares
  <2>3. \/ dev' = dev
        \/ dev' = [x \in Profiles |-> IF x = r.prof THEN n ELSE IF dev[x] = n THEN None ELSE dev[x]]
    BY <1>6 DEF Try, Activate
  <2>4. QED
    BY <2>2, <2>3
<1>7. CASE Down("root")
  <2>1. r.prof # q /\ dev' = [dev EXCEPT ![r.prof] = None]
    BY <1>5, <1>7 DEF Down, Deactivate
  <2>2. QED
    BY <1>1, <2>1
<1>8. ASSUME NEW a \in Arms, Restore(a) PROVE dev'[q] = dev[q]
  <2>1. a \in r.lost
    BY <1>8 DEF Restore
  <2>2. ~Sole(r, a)
    BY <1>4, <2>1 DEF Spares
  <2>3. CASE dev' = dev
    BY <2>3
  <2>4. CASE /\ r.snap[a] # None /\ r.snap[a].nic \notin r.frozen
             /\ Activate(r.snap[a].prof, r.snap[a].nic)
    <3>1. Of[r.snap[a].prof] = a
      BY <2>4 DEF IInv, Entered, OwnProfile, Procs
    <3>2. r.snap[a].prof # q /\ r.snap[a].nic # dev[q]
      BY <1>3, <2>2, <2>4, <3>1
    <3>3. QED
      BY <2>4, <3>2 DEF Activate
  <2>5. QED
    BY <1>8, <2>3, <2>4 DEF Restore
<1>9. CASE Worker \/ Verify \/ Restored
  BY <1>9 DEF Worker, Verify, Restored
<1>10. CASE \/ List("root") \/ MatchArm("root") \/ ProbeArm("root") \/ NoCandidate("root")
            \/ Matched("root") \/ Save("root") \/ Plan("root") \/ Apply("root")
  BY <1>10 DEF List, MatchArm, ProbeArm, NoCandidate, Matched, Save, Plan, Apply
<1>11. QED
  BY <1>6, <1>7, <1>8, <1>9, <1>10 DEF Repair, Match

\* FrozenUndisturbed, for every set of arms, NICs and profiles, and any number of events.
THEOREM RepairSparesAnswering == Spec => FrozenUndisturbed
<1> DEFINE Spare == Repair => \A q \in Profiles :
             dev[q] \in loc["root"].frozen /\ InPlace(q, loc["root"].snap) => dev'[q] = dev[q]
<1>1. IInv => Spare
  BY FrozenStep
<1>2. QED
  BY <1>1, Inductive, PTL DEF Spec, FrozenUndisturbed
================================================================================
