-------------------------- MODULE TrackingProofs --------------------------
(***************************************************************************)
(* Proofs about Tracking for any number of passes, edits, commands and     *)
(* crashes.  The inductive invariant is TypeOK /\ NoLostUpdate: who holds   *)
(* the lock overwrites what it loaded.  From it follow that a stale pass   *)
(* brings no removed exposure back and that no notice is dropped unshown.  *)
(***************************************************************************)
EXTENDS Tracking, TLAPS

IInv == TypeOK /\ NoLostUpdate

-----------------------------------------------------------------------------
(* The operators on exposures and changes *)

LEMMA ExposureOfType ==
  ASSUME NEW id \in Id, NEW d \in Domain, NEW r \in Route
  PROVE  ExposureOf(id, d, r) \in Exposure
BY DEF ExposureOf, Exposure, Partial, Route

LEMMA RouteOfType ==
  ASSUME NEW e \in Exposure
  PROVE  RouteOf(e) \in Route
BY DEF RouteOf, Exposure, Partial, Route, IsRedirect

\* What a pass reports about an exposure and a route is a well-formed change.
LEMMA FoundType ==
  ASSUME NEW e \in Exposure, NEW ref \in Route \cup {Absent}, NEW r \in Route,
         NEW healthy \in BOOLEAN
  PROVE  /\ Found(e, ref, r, healthy) \in Change
         /\ Found(e, ref, r, healthy).id = e.id
<1> DEFINE f == Found(e, ref, r, healthy)
<1>1. AdoptedTailnet(e, r, healthy) \in BOOLEAN
  BY DEF AdoptedTailnet, Exposure, Partial, Route
<1>2. AfterRedirect(e, r, healthy) \in Partial
  BY <1>1 DEF AfterRedirect, Exposure, Partial, Route
<1>3. AfterBackend(e, r, healthy) \in Partial
  BY <1>1 DEF AfterBackend, Exposure, Partial, Route
<1>4. AfterTailnet(e, r) \in Partial
  BY DEF AfterTailnet, Exposure, Partial, Route
<1>5. e.id \in Id
  BY DEF Exposure, Partial
<1>6. f.warned \in BOOLEAN
  BY DEF Found
<1>7. f.redirect \in Partial \cup {Absent} /\ f.backend \in Partial \cup {Absent}
      /\ f.tailnet \in Partial \cup {Absent} /\ f.ref \in Route \cup {Absent}
  BY <1>2, <1>3, <1>4 DEF Found
<1>8. f = [id |-> f.id, redirect |-> f.redirect, backend |-> f.backend,
           tailnet |-> f.tailnet, ref |-> f.ref, warned |-> f.warned] /\ f.id = e.id
  BY DEF Found
<1> HIDE DEF f
<1>9. f \in Change
  BY <1>5, <1>6, <1>7, <1>8 DEF Change
<1> QED BY <1>8, <1>9 DEF f

\* Merging a change into an exposure keeps its identity, and merging it into
\* nothing adds nothing.
LEMMA MergeType ==
  ASSUME NEW e \in Exposure \cup {Absent}, NEW after \in Partial \cup {Absent}
  PROVE  /\ Merge(e, after) \in Exposure \cup {Absent}
         /\ Merge(e, after) = Absent <=> e = Absent
         /\ e # Absent => Merge(e, after).id = e.id
<1>1. CASE after = Absent \/ e = Absent \/ e.id # after.id
  BY <1>1 DEF Merge
<1>2. CASE ~(after = Absent \/ e = Absent \/ e.id # after.id)
  <2>1. Merge(e, after) = [after EXCEPT
          !.backend = IF after.backend = Absent THEN e.backend ELSE @,
          !.redirect = IF after.redirect = Absent THEN e.redirect ELSE @]
    BY <1>2 DEF Merge
  <2>2. e \in Exposure /\ after \in Partial
    BY <1>2
  <2>3. Merge(e, after) \in Exposure /\ Merge(e, after).id = after.id
    BY <2>1, <2>2 DEF Exposure, Partial
  <2> QED BY <1>2, <2>3, AbsentIsNoValue DEF Exposure
<1> QED BY <1>1, <1>2

LEMMA AdoptType ==
  ASSUME NEW e \in Exposure \cup {Absent}, NEW found \in Change
  PROVE  /\ Adopt(e, found) \in Exposure \cup {Absent}
         /\ Adopt(e, found) = Absent <=> e = Absent
         /\ e # Absent => Adopt(e, found).id = e.id
<1> DEFINE first == Merge(e, found.redirect)
           second == Merge(first, found.backend)
<1>1. /\ found.redirect \in Partial \cup {Absent}
      /\ found.backend \in Partial \cup {Absent}
      /\ found.tailnet \in Partial \cup {Absent}
  BY DEF Change
<1>2. /\ first \in Exposure \cup {Absent} /\ (first = Absent <=> e = Absent)
      /\ e # Absent => first.id = e.id
  BY <1>1, MergeType
<1>3. /\ second \in Exposure \cup {Absent} /\ (second = Absent <=> first = Absent)
      /\ first # Absent => second.id = first.id
  BY <1>1, <1>2, MergeType
<1>4. /\ Merge(second, found.tailnet) \in Exposure \cup {Absent}
      /\ Merge(second, found.tailnet) = Absent <=> second = Absent
      /\ second # Absent => Merge(second, found.tailnet).id = second.id
  BY <1>1, <1>3, MergeType
<1> QED BY <1>2, <1>3, <1>4 DEF Adopt

LEMMA NothingFoundType == NothingFound \in Change
BY DEF NothingFound, Change

LEMMA SavedStateType ==
  ASSUME NEW saved \in State, NEW found \in Change, found.ref # Absent => found.id # Absent
  PROVE  /\ SavedState(saved, found) \in State
         /\ saved.notices \subseteq SavedState(saved, found).notices
<1>1. NoticesOf(found) \subseteq Notice
  BY DEF NoticesOf
<1>2. saved.ref \in [Id -> Route \cup {Absent}] /\ saved.notices \subseteq Notice
  BY DEF State
<1>3. found.ref # Absent => found.ref \in Route /\ found.id \in Id
  BY DEF Change
<1> QED BY <1>1, <1>2, <1>3 DEF SavedState, State


-----------------------------------------------------------------------------
(* The invariant *)

LEMMA InitIInv == Init => IInv
<1> SUFFICES ASSUME Init PROVE IInv
  OBVIOUS
<1>1. Idle \in Pass
  BY NothingFoundType DEF Idle, Pass
<1>2. NoCommand \in Running
  BY DEF NoCommand, Running
<1>3. config \in Config /\ state \in State
  BY DEF Init, Config, State
<1>4. TypeOK
  BY <1>1, <1>2, <1>3 DEF Init, TypeOK, Idle, NoCommand, NothingFound
<1> QED BY <1>4 DEF Init, IInv, NoLostUpdate, Idle, NoCommand

\* The four actions in which a pass reads and inspects, and the two in which it
\* gives up, touch no file and no lock.
LEMMA PassOnlyIInv ==
  ASSUME IInv, NEW t \in Tracker, NEW new \in Pass,
         pass' = [pass EXCEPT ![t] = new],
         UNCHANGED <<config, state, routes, lock, command, count>>,
         new.at \notin {"commit", "save"},
         new.at \notin {"idle", "wait"} => new.config # Absent,
         new.at = "inspect" => new.state # Absent,
         new.found.ref # Absent => new.found.id # Absent
  PROVE  IInv'
<1>1. /\ pass' \in [Tracker -> Pass]
      /\ \A u \in Tracker : pass'[u] = IF u = t THEN new ELSE pass[u]
  BY DEF IInv, TypeOK
<1>2. TypeOK'
  BY <1>1 DEF IInv, TypeOK
<1>3. NoLostUpdate'
  BY <1>1 DEF IInv, NoLostUpdate
<1> QED BY <1>2, <1>3 DEF IInv

LEMMA EndInspectionIInv ==
  ASSUME IInv, NEW t \in Tracker, NEW found \in Change,
         found.ref # Absent => found.id # Absent,
         EndInspection(t, found)
  PROVE  IInv'
<1> DEFINE new == IF NoticesOf(found) = {} THEN Idle
                  ELSE [Idle EXCEPT !.at = "wait", !.found = found]
<1>1. new \in Pass
  BY NothingFoundType DEF Idle, Pass
<1>2. new.at \in {"idle", "wait"} /\ (new.found.ref # Absent => new.found.id # Absent)
  BY DEF Idle, NothingFound
<1>3. pass' = [pass EXCEPT ![t] = new]
  BY DEF EndInspection, SetPass
<1>4. UNCHANGED <<config, state, routes, lock, command, count>>
  BY DEF EndInspection
<1> HIDE DEF new
<1> QED BY <1>1, <1>2, <1>3, <1>4, PassOnlyIInv

LEMMA TrackIInv ==
  ASSUME IInv, NEW t \in Tracker, Track(t)
  PROVE  IInv'
<1> USE DEF SetPass
<1>0. /\ pass[t] \in Pass /\ pass \in [Tracker -> Pass] /\ Idle \in Pass
      /\ config \in Config /\ state \in State
  BY NothingFoundType DEF IInv, TypeOK, Idle, Pass
<1>1. CASE ReadConfig(t)
  <2> DEFINE new == [Idle EXCEPT !.at = "read", !.config = config]
  <2>1. new \in Pass /\ new.at = "read" /\ new.config = config /\ new.found = NothingFound
    BY <1>0, NothingFoundType DEF Pass, Idle
  <2>2. pass' = [pass EXCEPT ![t] = new]
    BY <1>1 DEF ReadConfig
  <2>3. new.config # Absent /\ new.found.ref = Absent
    BY <1>0, <2>1, AbsentIsNoValue DEF NothingFound
  <2> HIDE DEF new
  <2> QED BY <1>1, <2>1, <2>2, <2>3, PassOnlyIInv DEF ReadConfig
<1>2. CASE ReadState(t)
  <2> DEFINE new == [pass[t] EXCEPT !.at = "inspect", !.state = state]
  <2>1. /\ new \in Pass /\ new.at = "inspect" /\ new.state = state
        /\ new.config = pass[t].config /\ new.found = pass[t].found
    BY <1>0 DEF Pass
  <2>2. pass' = [pass EXCEPT ![t] = new] /\ pass[t].at = "read"
    BY <1>2 DEF ReadState
  <2>3. /\ new.config # Absent /\ new.state # Absent
        /\ new.found.ref # Absent => new.found.id # Absent
    BY <1>0, <2>1, <2>2, AbsentIsNoValue DEF IInv, TypeOK
  <2> HIDE DEF new
  <2> QED BY <1>2, <2>1, <2>2, <2>3, PassOnlyIInv DEF ReadState
<1>3. CASE Inspect(t)
  <2> DEFINE e == pass[t].config.exposure
  <2>1. pass[t].at = "inspect" /\ e # Absent /\ routes[e.domain] # Absent
    BY <1>3 DEF Inspect
  <2>2. pass[t].config \in Config /\ pass[t].state \in State
    BY <1>0, <2>1 DEF IInv, TypeOK, Pass
  <2>3. e \in Exposure
    BY <2>1, <2>2 DEF Config
  <2>4. e.id \in Id /\ e.domain \in Domain
    BY <2>3 DEF Exposure, Partial
  <2>5. routes[e.domain] \in Route /\ pass[t].state.ref[e.id] \in Route \cup {Absent}
    BY <2>1, <2>2, <2>4 DEF IInv, TypeOK, State
  <2>6. PICK healthy \in BOOLEAN, refused \in BOOLEAN :
          LET found == Found(e, pass[t].state.ref[e.id], routes[e.domain], healthy) IN
          EndInspection(t, IF refused /\ found.ref # Absent
                           THEN [found EXCEPT !.ref = Absent, !.warned = TRUE] ELSE found)
    BY <1>3 DEF Inspect
  <2> DEFINE found == Found(e, pass[t].state.ref[e.id], routes[e.domain], healthy)
             kept == IF refused /\ found.ref # Absent
                     THEN [found EXCEPT !.ref = Absent, !.warned = TRUE] ELSE found
  <2>7. found \in Change /\ found.id = e.id
    BY <2>3, <2>5, FoundType
  <2>8. EndInspection(t, kept)
    BY <2>6
  <2> HIDE DEF found
  <2>9. kept \in Change /\ kept.id = e.id
    BY <2>7 DEF Change
  <2>10. kept.id # Absent
    BY <2>4, <2>9, AbsentIsNoValue
  <2> HIDE DEF kept
  <2> QED BY <2>8, <2>9, <2>10, EndInspectionIInv
<1>4. CASE NothingToInspect(t)
  BY <1>4, NothingFoundType, EndInspectionIInv DEF NothingToInspect, NothingFound
<1>5. CASE InspectFails(t)
  <2>1. [NothingFound EXCEPT !.warned = TRUE] \in Change
    BY DEF NothingFound, Change
  <2>2. [NothingFound EXCEPT !.warned = TRUE].ref = Absent
    BY DEF NothingFound
  <2> QED BY <1>5, <2>1, <2>2, EndInspectionIInv DEF InspectFails
<1>6. CASE TakeLock(t)
  <2> DEFINE new == [pass[t] EXCEPT !.at = "commit", !.config = config, !.state = state]
  <2>1. /\ new \in Pass /\ new.at = "commit" /\ new.state = state
        /\ new.config = config /\ new.found = pass[t].found
    BY <1>0 DEF Pass
  <2>2. /\ pass' = [pass EXCEPT ![t] = new] /\ lock = Free /\ lock' = t
        /\ UNCHANGED <<config, state, routes, command, count>>
    BY <1>6 DEF TakeLock
  <2> HIDE DEF new
  <2>3. \A u \in Tracker : pass'[u] = IF u = t THEN new ELSE pass[u]
    BY <1>0, <2>2
  <2>4. TypeOK'
    BY <1>0, <2>1, <2>2, <2>3, AbsentIsNoValue DEF IInv, TypeOK
  <2>5. NoLostUpdate'
    BY <2>1, <2>2, <2>3, LockHoldersDistinct DEF IInv, NoLostUpdate, Free, Foreground
  <2> QED BY <2>4, <2>5 DEF IInv
<1>7. CASE GiveUp(t)
  <2>1. Idle.at = "idle" /\ Idle.found.ref = Absent
    BY DEF Idle, NothingFound
  <2> QED BY <1>0, <1>7, <2>1, PassOnlyIInv DEF GiveUp
<1>8. CASE CommitConfig(t)
  <2> DEFINE new == [pass[t] EXCEPT !.at = "save"]
  <2>1. /\ new \in Pass /\ new.at = "save" /\ new.state = pass[t].state
        /\ new.config = pass[t].config /\ new.found = pass[t].found
    BY <1>0 DEF Pass
  <2>2. /\ pass' = [pass EXCEPT ![t] = new] /\ pass[t].at = "commit"
        /\ config' = [pass[t].config EXCEPT !.exposure = Adopt(@, pass[t].found)]
        /\ UNCHANGED <<state, routes, lock, command, count>>
    BY <1>8 DEF CommitConfig
  <2>3. lock = t /\ pass[t].config = config /\ pass[t].found \in Change
    BY <1>0, <2>2 DEF IInv, NoLostUpdate, Pass
  <2>4. config.exposure \in Exposure \cup {Absent}
    BY <1>0 DEF Config
  <2>5. config' \in Config
    BY <1>0, <2>2, <2>3, <2>4, AdoptType DEF Config
  <2> HIDE DEF new
  <2>6. \A u \in Tracker : pass'[u] = IF u = t THEN new ELSE pass[u]
    BY <1>0, <2>2
  <2>7. TypeOK'
    BY <1>0, <2>1, <2>2, <2>5, <2>6 DEF IInv, TypeOK
  <2>8. NoLostUpdate'
    BY <2>1, <2>2, <2>3, <2>6, LockHoldersDistinct DEF IInv, NoLostUpdate, Free, Foreground
  <2> QED BY <2>7, <2>8 DEF IInv
<1>9. CASE CommitState(t)
  <2>1. /\ pass' = [pass EXCEPT ![t] = Idle] /\ pass[t].at = "save"
        /\ state' = SavedState(pass[t].state, pass[t].found) /\ lock' = Free
        /\ UNCHANGED <<config, routes, command, count>>
    BY <1>9 DEF CommitState
  <2>2. lock = t /\ pass[t].state = state /\ pass[t].found \in Change
    BY <1>0, <2>1 DEF IInv, NoLostUpdate, Pass
  <2>3. pass[t].found.ref # Absent => pass[t].found.id # Absent
    BY DEF IInv, TypeOK
  <2>4. state' \in State
    BY <1>0, <2>1, <2>2, <2>3, SavedStateType
  <2>5. \A u \in Tracker : pass'[u] = IF u = t THEN Idle ELSE pass[u]
    BY <1>0, <2>1
  <2>6. Idle.at = "idle" /\ Idle.found.ref = Absent
    BY DEF Idle, NothingFound
  <2>7. TypeOK'
    BY <1>0, <2>1, <2>4, <2>5, <2>6 DEF IInv, TypeOK
  <2>8. NoLostUpdate'
    BY <2>1, <2>2, <2>5, <2>6, LockHoldersDistinct DEF IInv, NoLostUpdate, Free, Foreground
  <2> QED BY <2>7, <2>8 DEF IInv
<1> QED BY <1>1, <1>2, <1>3, <1>4, <1>5, <1>6, <1>7, <1>8, <1>9 DEF Track

\* What a command is about to write is a well-formed project.
LEMMA GoalsType ==
  ASSUME IInv, NEW kind \in Command, NEW goal \in Goals(kind)
  PROVE  /\ goal \in Config
         /\ kind = "publish" => goal.exposure # Absent
         /\ kind \in {"remove", "domain"} /\ config.exposure # Absent /\ goal.exposure = Absent
              => kind = "remove"
<1> DEFINE e == config.exposure
<1>1. /\ config \in Config /\ e \in Exposure \cup {Absent}
      /\ \A x \in Exposure : x # Absent
  BY AbsentIsNoValue DEF IInv, TypeOK, Config, Exposure
<1>2. CASE kind = "publish"
  <2> DEFINE ids == IF e = Absent THEN FreshIds ELSE {e.id}
             domains == {IF e = Absent THEN config.domain ELSE e.domain}
             kinds == {r \in Route : KeepKind /\ e # Absent => SameKind(e, r)}
  <2>1. goal \in {[config EXCEPT !.exposure = ExposureOf(id, d, r)] :
                    id \in ids, d \in domains, r \in kinds}
    BY <1>2 DEF Goals
  <2>2. PICK id \in ids, d \in domains, r \in kinds :
               goal = [config EXCEPT !.exposure = ExposureOf(id, d, r)]
    BY <2>1
  <2>3. id \in Id /\ d \in Domain /\ r \in Route
    BY <1>1 DEF FreshIds, Config, Exposure, Partial
  <2>4. ExposureOf(id, d, r) \in Exposure
    BY <2>3, ExposureOfType
  <2> QED BY <1>1, <1>2, <2>2, <2>4 DEF Config
<1>3. CASE kind = "remove"
  <2>1. goal = [config EXCEPT !.exposure = Absent]
    BY <1>3 DEF Goals
  <2> QED BY <1>1, <1>3, <2>1 DEF Config
<1>4. CASE kind = "domain"
  <2>1. PICK d \in Domain :
          goal = [domain |-> d,
                  exposure |-> IF e = Absent \/ e.domain # config.domain THEN e
                               ELSE [e EXCEPT !.domain = d]]
    BY <1>4 DEF Goals
  <2>2. e # Absent => [e EXCEPT !.domain = d] \in Exposure
    BY <1>1 DEF Exposure, Partial
  <2> QED BY <1>1, <1>4, <2>1, <2>2 DEF Config
<1>5. CASE kind = "changes"
  BY <1>1, <1>5 DEF Goals
<1> QED BY <1>2, <1>3, <1>4, <1>5, CommandsKnown

\* The record of a command that leaves everything but itself and the routes alone.
LEMMA CommandOnlyIInv ==
  ASSUME IInv, NEW new \in Running, command' = new,
         routes' \in [Domain -> Route \cup {Absent}],
         UNCHANGED <<config, state, lock, pass, count>>,
         command.at \notin {"idle", "state"}, new.at \notin {"idle", "state"},
         new.config = command.config, new.state = command.state, new.goal = command.goal,
         new.at = "withdraw" => new.config.exposure # Absent,
         new.at \in {"deploy", "observe"} => new.goal.exposure # Absent
  PROVE  IInv'
<1>1. TypeOK'
  BY DEF IInv, TypeOK
<1>2. NoLostUpdate'
  BY DEF IInv, NoLostUpdate
<1> QED BY <1>1, <1>2 DEF IInv

LEMMA BeginIInv ==
  ASSUME IInv, NEW kind \in Command, Begin(kind)
  PROVE  IInv'
<1>1. PICK goal \in Goals(kind) :
        SetCommand("idle", [NoCommand EXCEPT
          !.kind = kind, !.goal = goal, !.config = config, !.state = state,
          !.at = IF kind = "changes" THEN "state"
                 ELSE IF kind = "publish" THEN "deploy"
                 ELSE IF config.exposure = Absent THEN "config" ELSE "withdraw"])
  BY DEF Begin
<1>2. /\ lock = Free /\ lock' = Foreground
      /\ count' = [count EXCEPT !.commands = @ + 1]
      /\ UNCHANGED <<config, state, routes, pass>>
  BY DEF Begin
<1>3. /\ config \in Config /\ state \in State /\ goal \in Config
      /\ kind = "publish" => goal.exposure # Absent
  BY GoalsType DEF IInv, TypeOK
<1>4. /\ command' \in Running /\ command'.config = config /\ command'.state = state
      /\ command'.goal = goal
      /\ command'.at = IF kind = "changes" THEN "state"
                       ELSE IF kind = "publish" THEN "deploy"
                       ELSE IF config.exposure = Absent THEN "config" ELSE "withdraw"
  BY <1>1, <1>3 DEF SetCommand, NoCommand, Running
<1>5. count' \in [edits : Nat, commands : Nat, crashes : Nat]
  BY <1>2 DEF IInv, TypeOK
<1>6. TypeOK'
  BY <1>2, <1>3, <1>4, <1>5, AbsentIsNoValue DEF IInv, TypeOK
<1>7. kind = "changes" => goal = config
  BY DEF Goals
<1>8. NoLostUpdate'
  BY <1>2, <1>4, <1>7, LockHoldersDistinct DEF IInv, TypeOK, NoLostUpdate, Free, Foreground
<1> QED BY <1>6, <1>8 DEF IInv

LEMMA RunIInv ==
  ASSUME IInv, Run
  PROVE  IInv'
<1> USE DEF SetCommand
<1>0. command \in Running /\ routes \in [Domain -> Route \cup {Absent}]
  BY DEF IInv, TypeOK
<1>1. CASE Withdraw
  <2>1. /\ command' = [command EXCEPT
             !.at = IF command.goal.exposure = Absent THEN "config" ELSE "deploy"]
        /\ command.at = "withdraw"
        /\ UNCHANGED <<config, state, lock, pass, count>>
    BY <1>1 DEF Withdraw
  <2>2. routes' \in [Domain -> Route \cup {Absent}]
    BY <1>0, <1>1 DEF Withdraw
  <2>3. /\ command' \in Running /\ command'.config = command.config
        /\ command'.state = command.state /\ command'.goal = command.goal
        /\ command'.at = IF command.goal.exposure = Absent THEN "config" ELSE "deploy"
    BY <1>0, <2>1 DEF Running
  <2>4. /\ command'.at \notin {"idle", "state", "withdraw", "observe"}
        /\ command'.at = "deploy" => command.goal.exposure # Absent
    BY <2>3
  <2>5. command.at \notin {"idle", "state"}
    BY <2>1
  <2> QED BY <2>1, <2>2, <2>3, <2>4, <2>5, CommandOnlyIInv
<1>2. CASE Deploy
  <2> DEFINE e == command.goal.exposure
  <2>1. /\ command' = [command EXCEPT !.at = "observe"] /\ command.at = "deploy"
        /\ routes' = [routes EXCEPT ![e.domain] = RouteOf(e)]
        /\ UNCHANGED <<config, state, lock, pass, count>>
    BY <1>2 DEF Deploy
  <2>2. e # Absent /\ command.goal \in Config
    BY <1>0, <2>1 DEF IInv, TypeOK, Running
  <2>3. RouteOf(e) \in Route
    BY <2>2, RouteOfType DEF Config
  <2>4. routes' \in [Domain -> Route \cup {Absent}]
    BY <1>0, <2>1, <2>3
  <2>5. /\ command' \in Running /\ command'.config = command.config
        /\ command'.state = command.state /\ command'.goal = command.goal
        /\ command'.at = "observe"
    BY <1>0, <2>1 DEF Running
  <2> QED BY <2>1, <2>2, <2>4, <2>5, CommandOnlyIInv
<1>3. CASE Observe
  <2> DEFINE e == command.goal.exposure
  <2>1. /\ command' = [command EXCEPT !.at = "config", !.ref = routes[e.domain]]
        /\ command.at = "observe"
        /\ UNCHANGED <<config, state, routes, lock, pass, count>>
    BY <1>3 DEF Observe
  <2>2. e # Absent /\ command.goal \in Config
    BY <1>0, <2>1 DEF IInv, TypeOK, Running
  <2>3. routes[e.domain] \in Route \cup {Absent}
    BY <1>0, <2>2 DEF Config, Exposure, Partial
  <2>4. /\ command' \in Running /\ command'.config = command.config
        /\ command'.state = command.state /\ command'.goal = command.goal
        /\ command'.at = "config"
    BY <1>0, <2>1, <2>3 DEF Running
  <2> QED BY <1>0, <2>1, <2>4, CommandOnlyIInv
<1>4. CASE SaveConfig
  <2>1. /\ command' = [command EXCEPT !.at = "state"] /\ command.at = "config"
        /\ config' = command.goal /\ UNCHANGED <<state, routes, lock, pass, count>>
    BY <1>4 DEF SaveConfig
  <2>2. command.goal \in Config
    BY <1>0, <2>1 DEF IInv, TypeOK, Running
  <2>3. /\ command' \in Running /\ command'.config = command.config
        /\ command'.state = command.state /\ command'.goal = command.goal
        /\ command'.at = "state"
    BY <1>0, <2>1 DEF Running
  <2>4. TypeOK'
    BY <2>1, <2>2, <2>3 DEF IInv, TypeOK
  <2>5. NoLostUpdate'
    BY <2>1, <2>3, LockHoldersDistinct DEF IInv, NoLostUpdate, Free, Foreground
  <2> QED BY <2>4, <2>5 DEF IInv
<1>5. CASE SaveState
  <2> DEFINE old == command.config.exposure
             new == command.goal.exposure
  <2>1. /\ command' = NoCommand /\ command.at = "state" /\ lock' = Free
        /\ UNCHANGED <<config, routes, pass, count>>
    BY <1>5 DEF SaveState
  <2>2. /\ command.state \in State /\ command.goal \in Config /\ command.config \in Config
        /\ command.ref \in Route \cup {Absent} /\ lock = Foreground
    BY <1>0, <2>1 DEF IInv, TypeOK, NoLostUpdate, Running
  <2>3. /\ new # Absent => new.id \in Id
        /\ old # Absent => old.id \in Id
    BY <2>2 DEF Config, Exposure, Partial
  <2>4. \/ state' = [command.state EXCEPT !.notices = {}]
        \/ new # Absent /\ state' = [command.state EXCEPT !.ref[new.id] = command.ref]
        \/ old # Absent /\ state' = [command.state EXCEPT !.ref[old.id] = Absent]
        \/ state' = command.state
    BY <1>5 DEF SaveState
  <2>5. state' \in State
    BY <2>2, <2>3, <2>4 DEF State
  <2>6. NoCommand \in Running /\ NoCommand.at = "idle"
    BY DEF NoCommand, Running
  <2>7. TypeOK'
    BY <2>1, <2>5, <2>6 DEF IInv, TypeOK
  <2>8. NoLostUpdate'
    BY <2>1, <2>2, <2>6, LockHoldersDistinct DEF IInv, NoLostUpdate, Free, Foreground
  <2> QED BY <2>7, <2>8 DEF IInv
<1> QED BY <1>1, <1>2, <1>3, <1>4, <1>5 DEF Run

LEMMA CrashIInv ==
  ASSUME IInv, NEW t \in Tracker, Crash(t)
  PROVE  IInv'
<1>1. /\ Idle \in Pass /\ Idle.at = "idle" /\ Idle.found.ref = Absent
      /\ pass \in [Tracker -> Pass]
  BY NothingFoundType DEF IInv, TypeOK, Idle, Pass, NothingFound
<1>2. \A u \in Tracker : pass'[u] = IF u = t THEN Idle ELSE pass[u]
  BY <1>1 DEF Crash
<1>3. count' \in [edits : Nat, commands : Nat, crashes : Nat]
  BY DEF Crash, IInv, TypeOK
<1>4. TypeOK'
  BY <1>1, <1>2, <1>3 DEF Crash, IInv, TypeOK
<1>5. NoLostUpdate'
  BY <1>1, <1>2, LockHoldersDistinct DEF Crash, IInv, TypeOK, NoLostUpdate, Free, Foreground
<1> QED BY <1>4, <1>5 DEF IInv

LEMMA InterruptIInv ==
  ASSUME IInv, Interrupt
  PROVE  IInv'
<1>1. NoCommand \in Running /\ NoCommand.at = "idle"
  BY DEF NoCommand, Running
<1>2. count' \in [edits : Nat, commands : Nat, crashes : Nat]
  BY DEF Interrupt, IInv, TypeOK
<1>3. TypeOK'
  BY <1>1, <1>2 DEF Interrupt, IInv, TypeOK
<1>4. NoLostUpdate'
  BY <1>1, LockHoldersDistinct DEF Interrupt, IInv, NoLostUpdate, Free, Foreground
<1> QED BY <1>3, <1>4 DEF IInv

LEMMA EditIInv ==
  ASSUME IInv, NEW d \in Domain, Edit(d)
  PROVE  IInv'
<1>1. routes' \in [Domain -> Route \cup {Absent}]
  BY DEF Edit, IInv, TypeOK
<1>2. count' \in [edits : Nat, commands : Nat, crashes : Nat]
  BY DEF Edit, IInv, TypeOK
<1>3. TypeOK'
  BY <1>1, <1>2 DEF Edit, IInv, TypeOK
<1>4. NoLostUpdate'
  BY DEF Edit, IInv, NoLostUpdate
<1> QED BY <1>3, <1>4 DEF IInv

LEMMA StepIInv == IInv /\ [Next]_vars => IInv'
<1> SUFFICES ASSUME IInv, [Next]_vars PROVE IInv'
  OBVIOUS
<1>1. CASE UNCHANGED vars
  BY <1>1 DEF vars, IInv, TypeOK, NoLostUpdate
<1> QED
  BY <1>1, TrackIInv, CrashIInv, BeginIInv, RunIInv, InterruptIInv, EditIInv DEF Next

-----------------------------------------------------------------------------
(* Theorems *)

\* What the two properties of states rest on.
THEOREM Inductive == Spec => []IInv
BY InitIInv, StepIInv, PTL DEF Spec

\* The variables have their types, and a pass or command has the locals that
\* its next step uses.
THEOREM TypeCorrectness == Spec => []TypeOK
<1>1. IInv => TypeOK
  BY DEF IInv
<1> QED BY <1>1, Inductive, PTL

\* updateProject and runCli: whoever holds the write lock overwrites the project
\* that it has loaded, so no update of a command or of a pass is lost.
THEOREM UpdatesAreSerialised == Spec => []NoLostUpdate
<1>1. IInv => NoLostUpdate
  BY DEF IInv
<1> QED BY <1>1, Inductive, PTL

LEMMA IdKept ==
  ASSUME IInv, [Next]_vars, IdOf(config)' # IdOf(config)
  PROVE  command' # command
<1>1. config' # config
  BY DEF IdOf
<1>2. ASSUME NEW t \in Tracker, CommitConfig(t) PROVE FALSE
  <2>1. /\ pass[t].at = "commit"
        /\ config' = [pass[t].config EXCEPT !.exposure = Adopt(@, pass[t].found)]
    BY <1>2 DEF CommitConfig, SetPass
  <2>2. /\ pass[t].config = config /\ pass[t].found \in Change
        /\ config \in Config /\ config.exposure \in Exposure \cup {Absent}
    BY <2>1 DEF IInv, TypeOK, NoLostUpdate, Pass, Config
  <2>3. config'.exposure = Adopt(config.exposure, pass[t].found)
    BY <2>1, <2>2 DEF Config
  <2> QED BY <2>2, <2>3, AdoptType DEF IdOf
<1>3. CASE \E t \in Tracker : Track(t)
  BY <1>1, <1>2, <1>3 DEF Track, ReadConfig, ReadState, Inspect, NothingToInspect,
     InspectFails, EndInspection, TakeLock, GiveUp, CommitState
<1>4. CASE \E t \in Tracker : Crash(t)
  BY <1>1, <1>4 DEF Crash
<1>5. CASE Run
  <2>1. CASE SaveConfig
    BY <2>1 DEF SaveConfig, SetCommand, IInv, TypeOK, Running
  <2> QED BY <1>1, <1>5, <2>1 DEF Run, Withdraw, Deploy, Observe, SaveState
<1>6. CASE Interrupt \/ (\E kind \in Command : Begin(kind)) \/ (\E d \in Domain : Edit(d))
  BY <1>1, <1>6 DEF Interrupt, Begin, Edit
<1> QED BY <1>1, <1>3, <1>4, <1>5, <1>6 DEF Next, vars

\* adoptServiceExposure: a pass that inspected a removed or replaced exposure
\* brings it back under no interleaving.
THEOREM RemovalIsFinal == Spec => RemovedStaysRemoved
<1>1. IInv /\ [Next]_vars => [IdOf(config)' # IdOf(config) => command' # command]_vars
  BY IdKept
<1> QED BY <1>1, Inductive, PTL DEF Spec, RemovedStaysRemoved

LEMMA NoticeKept ==
  ASSUME IInv, [Next]_vars, NEW n \in state.notices \ state'.notices
  PROVE  command.kind = "changes" /\ n \in command.state.notices
<1>1. state' # state
  OBVIOUS
<1>2. ASSUME NEW t \in Tracker, CommitState(t) PROVE FALSE
  <2>1. pass[t].at = "save" /\ state' = SavedState(pass[t].state, pass[t].found)
    BY <1>2 DEF CommitState, SetPass
  <2>2. /\ pass[t].state = state /\ pass[t].found \in Change /\ state \in State
        /\ pass[t].found.ref # Absent => pass[t].found.id # Absent
    BY <2>1 DEF IInv, TypeOK, NoLostUpdate, Pass
  <2> QED BY <2>1, <2>2, SavedStateType
<1>3. CASE SaveState
  <2>1. command.at = "state" /\ command.state = state
    BY <1>3 DEF SaveState, SetCommand, IInv, NoLostUpdate
  <2>2. state \in State
    BY DEF IInv, TypeOK
  <2>3. command.kind # "changes" => state'.notices = command.state.notices
    BY <1>3, <2>1, <2>2 DEF SaveState, State
  <2> QED BY <2>1, <2>3
<1>4. CASE \E t \in Tracker : Track(t)
  BY <1>1, <1>2, <1>4 DEF Track, ReadConfig, ReadState, Inspect, NothingToInspect,
     InspectFails, EndInspection, TakeLock, GiveUp, CommitConfig
<1>5. CASE Run
  BY <1>1, <1>3, <1>5 DEF Run, Withdraw, Deploy, Observe, SaveConfig
<1>6. CASE \/ Interrupt \/ (\E t \in Tracker : Crash(t))
           \/ (\E kind \in Command : Begin(kind)) \/ (\E d \in Domain : Edit(d))
  BY <1>1, <1>6 DEF Interrupt, Crash, Begin, Edit
<1> QED BY <1>1, <1>4, <1>5, <1>6 DEF Next, vars

\* showChanges: a notice disappears only when nomina changes has read it, so no
\* pass and no other command drops one before the user has seen it.
THEOREM NoticesReachTheUser == Spec => UnshownNoticesKept
<1>1. IInv /\ [Next]_vars =>
        [\A n \in state.notices \ state'.notices :
           command.kind = "changes" /\ n \in command.state.notices]_vars
  BY NoticeKept
<1> QED BY <1>1, Inductive, PTL DEF Spec, UnshownNoticesKept
=============================================================================
