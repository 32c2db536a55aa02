---------------------------- MODULE ServedProofs ----------------------------
(***************************************************************************)
(* While no program fails, every recorded exposure is served once no       *)
(* command runs (ExposuresServed): what is left of CalmInv by the calls    *)
(* that make the keys anew and by the last call of a command, the lists    *)
(* that commands begin with, and the invariant as a whole.                 *)
(***************************************************************************)
EXTENDS ExposuresProofs

-----------------------------------------------------------------------------
(* Calls that make the keys anew *)

\* What stands for a call that makes keys anew.
LEMMA HostInsert ==
  ASSUME Active, First.call \in {"enable-host", "activate-key", "replace-key"}, NEW l, Fits(Setting, First, l),
         op'.todo = l \o Tail(op.todo), Same, UNCHANGED adapters,
         IF Tail(op.todo) = <<>> THEN l[Len(l)].call \in Finals(Setting)
         ELSE Joins(Setting, l[Len(l)], Head(Tail(op.todo))),
         \A x \in ToSet(l) : x.call \in HostVerbs,
         HostReady(Head(l))', KeysReady'
  PROVE  GoesWell'
<1>1. PICK t : t = Head(l)
  OBVIOUS
<1>2. PICK T : T = Tail(op.todo)
  OBVIOUS
<1>3. Advances(t) /\ ToSet(op'.todo) = ToSet(l) \cup ToSet(T)
  BY <1>1, <1>2, CalmInsert
<1>4. l \in Seq(CallRecord) /\ l # <<>>
  BY DEF Fits
<1>5. t \in ToSet(l)
  BY <1>1, <1>4, ListMembers
<1>6. t.call \in HostVerbs /\ First.call \in Compound /\ (First.call \notin BeforeNet \/ First.call = "enable-host")
  BY <1>5 DEF Compound, BeforeNet, Checking, KeyCalls, Closing, Writing
<1>7. Sound'
  BY SoundSame DEF Active, Same, Sound, adapters
<1>8. PlanReady'
  BY <1>3, PlanKept DEF adapters, Compound
<1>9. NetReady'
  <2>1. \A x \in ToSet(op'.todo) \ ToSet(op.todo) : x.call # "unforward"
    <3>1. ToSet(T) \subseteq ToSet(op.todo)
      BY <1>2, FirstInMenu
    <3> QED BY <1>3, <3>1 DEF HostVerbs, KeyCalls, Writing, Closing, Cleaning
  <2>2. PortsSame /\ UNCHANGED <<dns, routes, gateway>>
    BY DEF PortsSame, adapters
  <2> QED BY <1>3, <2>1, <2>2, NetSame DEF Compound
<1>10. Steady
  BY SteadyNow DEF Restoring, Forwards
<1>11. UnitReady(t)'
  <2>1. Steady'
    BY <1>10 DEF Steady, adapters
  <2>2. t.call \in HostVerbs /\ t \in Menu(Setting)
    BY <1>3, <1>5 DEF Advances
  <2>3. t.block \notin UnitBlocks
    BY <2>2, KeyMenu
  <2>4. t.block # "relocation" /\ t.call \notin {"install", "open-gateway", "publish-route", "restore", "publish-record", "close-gateway"}
    BY <2>2, <2>3 DEF UnitBlocks, HostVerbs, KeyCalls, Writing, Closing, Cleaning
  <2> QED BY <2>1, <2>4, UnitQuiet
<1>12. HostReady(t)'
  BY <1>1
<1> QED BY <1>3, <1>7, <1>8, <1>9, <1>11, <1>12, OnTheWay

LEMMA MoreTuples ==
  ASSUME NEW S, NEW a \in S, NEW b \in S, NEW c \in S, NEW d \in S, NEW e \in S
  PROVE  /\ <<a, b, c, d>> \in Seq(S) /\ Len(<<a, b, c, d>>) = 4
         /\ <<a, b, c, d>>[1] = a /\ <<a, b, c, d>>[2] = b /\ <<a, b, c, d>>[3] = c /\ <<a, b, c, d>>[4] = d
         /\ <<a, b, c, d, e>> \in Seq(S) /\ Len(<<a, b, c, d, e>>) = 5
         /\ <<a, b, c, d, e>>[1] = a /\ <<a, b, c, d, e>>[2] = b /\ <<a, b, c, d, e>>[3] = c
         /\ <<a, b, c, d, e>>[4] = d /\ <<a, b, c, d, e>>[5] = e
OBVIOUS

\* The calls of a key.
LEMMA KeysPart ==
  ASSUME Active, First.call = "enable-host", MakesKeys(Setting), NEW k,
         k = Part(<<"install-key", "authorize", "start-daemon", "enable-record", "verify">>, "host")
  PROVE  /\ Chain(Setting, k) /\ Len(k) = 5 /\ k[1] = Item("install-key", "host") /\ k[5] = Item("verify", "host")
         /\ \A i \in 2..5 : k[i].call # "install-key"
         /\ \A x \in ToSet(k) : \E c \in KeyCalls : x = Item(c, "host")
<1>1. PICK calls : calls = <<"install-key", "authorize", "start-daemon", "enable-record", "verify">>
  OBVIOUS
<1>2. "install-key" \in Verb /\ "authorize" \in Verb /\ "start-daemon" \in Verb /\ "enable-record" \in Verb /\ "verify" \in Verb
  BY DEF Verb
<1>3. calls \in Seq(Verb) /\ Len(calls) = 5
  BY <1>1, <1>2, MoreTuples
<1>4. /\ calls[1] = "install-key" /\ calls[2] = "authorize" /\ calls[3] = "start-daemon"
      /\ calls[4] = "enable-record" /\ calls[5] = "verify"
  BY <1>1, <1>2, MoreTuples
<1>5. calls # <<>> /\ "host" \in Block
  <2>1. "host" \in Block
    BY DEF Block
  <2> QED BY <2>1, <1>3, ListMembers
<1>6. \A i \in 1..(Len(calls) - 1) : i = 1 \/ i = 2 \/ i = 3 \/ i = 4
  BY <1>3
<1>7. \A i \in 1..(Len(calls) - 1) : Joins(Setting, Item(calls[i], "host"), Item(calls[i + 1], "host"))
  <2> SUFFICES ASSUME NEW i \in 1..(Len(calls) - 1)
               PROVE  Joins(Setting, Item(calls[i], "host"), Item(calls[i + 1], "host"))
    OBVIOUS
  <2>1. /\ Joins(Setting, Item("install-key", "host"), Item("authorize", "host"))
        /\ Joins(Setting, Item("authorize", "host"), Item("start-daemon", "host"))
        /\ Joins(Setting, Item("start-daemon", "host"), Item("enable-record", "host"))
        /\ Joins(Setting, Item("enable-record", "host"), Item("verify", "host"))
    BY HostJoins
  <2>2. 1 + 1 = 2 /\ 2 + 1 = 3 /\ 3 + 1 = 4 /\ 4 + 1 = 5
    OBVIOUS
  <2> QED BY <1>4, <1>6, <2>1, <2>2
<1>8. /\ Chain(Setting, k) /\ Len(k) = Len(calls)
      /\ \A i \in 1..Len(calls) : k[i] = Item(calls[i], "host")
      /\ \A x \in ToSet(k) : \E i \in 1..Len(calls) : x = Item(calls[i], "host")
  <2>1. k = Part(calls, "host")
    BY <1>1
  <2> QED BY <2>1, <1>3, <1>5, <1>7, PartChain
<1>9. \A i \in 1..Len(calls) : i = 1 \/ i = 2 \/ i = 3 \/ i = 4 \/ i = 5
  BY <1>3
<1>10. \A i \in 1..Len(calls) : calls[i] \in KeyCalls /\ (calls[i] = "install-key" => i = 1)
  BY <1>4, <1>9 DEF KeyCalls
<1>11. \A i \in 2..5 : i \in 1..Len(calls) /\ i # 1
  BY <1>3
<1>12. \A i \in 2..5 : k[i].call # "install-key"
  BY <1>8, <1>10, <1>11, Items
<1>13. k[1] = Item("install-key", "host") /\ k[5] = Item("verify", "host")
  BY <1>3, <1>4, <1>8
<1>14. Chain(Setting, k) /\ Len(k) = 5
  BY <1>3, <1>8
<1>15. \A x \in ToSet(k) : \E c \in KeyCalls : x = Item(c, "host")
  BY <1>8, <1>10
<1> QED BY <1>12, <1>13, <1>14, <1>15

\* What comes before them: a daemon that is written anew, or closed and handed on.
Has(p, verb) == \E x \in ToSet(p) : x.call = verb

Opening(p, a) ==
  /\ Chain(Setting, p) /\ Joins(Setting, p[Len(p)], Item("install-key", "host"))
  /\ p[1] = Item(IF host.record = Nobody THEN "make-directory" ELSE "revoke-keys", "plain")
  /\ \A x \in ToSet(p) : \/ \E c \in Writing \cup Closing : x = Item(c, "plain")
                         \/ \E c \in {"write-config", "write-record"} : x = Item(c, "host")
  /\ host.record = a \/ Has(p, "write-record")
  /\ host.config = a \/ Has(p, "write-config")
  /\ host.unit \/ Has(p, "write-unit")

LEMMA FirstPart ==
  ASSUME Active, First.call = "enable-host", MakesKeys(Setting), host.record = Nobody, NEW p, NEW a,
         p = Part(<<"make-directory", "write-record", "write-config", "write-unit">>, "plain")
  PROVE  Opening(p, a)
<1>1. PICK calls : calls = <<"make-directory", "write-record", "write-config", "write-unit">>
  OBVIOUS
<1>2. "make-directory" \in Verb /\ "write-record" \in Verb /\ "write-config" \in Verb /\ "write-unit" \in Verb
  BY DEF Verb, SshCalls
<1>3. calls \in Seq(Verb) /\ Len(calls) = 4
  BY <1>1, <1>2, MoreTuples
<1>4. /\ calls[1] = "make-directory" /\ calls[2] = "write-record" /\ calls[3] = "write-config"
      /\ calls[4] = "write-unit"
  BY <1>1, <1>2, MoreTuples
<1>5. calls # <<>> /\ "plain" \in Block
  <2>1. "plain" \in Block
    BY DEF Block
  <2> QED BY <2>1, <1>3, ListMembers
<1>6. \A i \in 1..(Len(calls) - 1) : i = 1 \/ i = 2 \/ i = 3
  BY <1>3
<1>7. \A i \in 1..(Len(calls) - 1) : Joins(Setting, Item(calls[i], "plain"), Item(calls[i + 1], "plain"))
  <2> SUFFICES ASSUME NEW i \in 1..(Len(calls) - 1)
               PROVE  Joins(Setting, Item(calls[i], "plain"), Item(calls[i + 1], "plain"))
    OBVIOUS
  <2>1. /\ Joins(Setting, Item("make-directory", "plain"), Item("write-record", "plain"))
        /\ Joins(Setting, Item("write-record", "plain"), Item("write-config", "plain"))
        /\ Joins(Setting, Item("write-config", "plain"), Item("write-unit", "plain"))
    BY HostJoins
  <2>2. 1 + 1 = 2 /\ 2 + 1 = 3 /\ 3 + 1 = 4
    OBVIOUS
  <2> QED BY <1>4, <1>6, <2>1, <2>2
<1>8. /\ Chain(Setting, p) /\ Len(p) = Len(calls)
      /\ \A i \in 1..Len(calls) : p[i] = Item(calls[i], "plain")
      /\ \A x \in ToSet(p) : \E i \in 1..Len(calls) : x = Item(calls[i], "plain")
  <2>1. p = Part(calls, "plain")
    BY <1>1
  <2> QED BY <2>1, <1>3, <1>5, <1>7, PartChain
<1>9. \A i \in 1..Len(calls) : i = 1 \/ i = 2 \/ i = 3 \/ i = 4
  BY <1>3
<1>10. \A i \in 1..Len(calls) : calls[i] \in Writing
  BY <1>4, <1>9 DEF Writing
<1>11. /\ p[1] = Item("make-directory", "plain") /\ p[2] = Item("write-record", "plain")
       /\ p[3] = Item("write-config", "plain") /\ p[4] = Item("write-unit", "plain")
  BY <1>3, <1>4, <1>8
<1>12. \A i \in 1..4 : p[i] \in ToSet(p)
  <2>1. p \in Seq(CallRecord)
    BY <1>8 DEF Chain
  <2> QED BY <2>1, <1>3, <1>8, ListMembers
<1>13. Has(p, "write-record") /\ Has(p, "write-config") /\ Has(p, "write-unit")
  <2>1. p[2] \in ToSet(p) /\ p[3] \in ToSet(p) /\ p[4] \in ToSet(p)
    BY <1>12
  <2>2. p[2].call = "write-record" /\ p[3].call = "write-config" /\ p[4].call = "write-unit"
    BY <1>11, Items
  <2> QED BY <2>1, <2>2 DEF Has
<1>14. Joins(Setting, p[Len(p)], Item("install-key", "host"))
  <2>1. Joins(Setting, Item("write-unit", "plain"), Item("install-key", "host"))
    BY HostJoins
  <2> QED BY <2>1, <1>3, <1>8, <1>11
<1>15. \A x \in ToSet(p) : \E c \in Writing \cup Closing : x = Item(c, "plain")
  BY <1>8, <1>10
<1> QED BY <1>8, <1>11, <1>13, <1>14, <1>15 DEF Opening

\* The calls of a revocation.
LEMMA ClosingPart ==
  ASSUME Active, First.call \in {"enable-host", "replace-key"}, MakesKeys(Setting), NEW p,
         p = Part(<<"revoke-keys", "disable-record", "terminate", "stop-daemon">>, "plain")
  PROVE  /\ Chain(Setting, p) /\ Len(p) = 4 /\ p[1] = Item("revoke-keys", "plain") /\ p[4] = Item("stop-daemon", "plain")
         /\ \A x \in ToSet(p) : \E c \in Closing : x = Item(c, "plain")
<1>1. PICK calls : calls = <<"revoke-keys", "disable-record", "terminate", "stop-daemon">>
  OBVIOUS
<1>2. "revoke-keys" \in Verb /\ "disable-record" \in Verb /\ "terminate" \in Verb /\ "stop-daemon" \in Verb
  BY DEF Verb, Nameless
<1>3. calls \in Seq(Verb) /\ Len(calls) = 4
  BY <1>1, <1>2, MoreTuples
<1>4. /\ calls[1] = "revoke-keys" /\ calls[2] = "disable-record" /\ calls[3] = "terminate"
      /\ calls[4] = "stop-daemon"
  BY <1>1, <1>2, MoreTuples
<1>5. calls # <<>> /\ "plain" \in Block
  <2>1. "plain" \in Block
    BY DEF Block
  <2> QED BY <2>1, <1>3, ListMembers
<1>6. \A i \in 1..(Len(calls) - 1) : i = 1 \/ i = 2 \/ i = 3
  BY <1>3
<1>7. \A i \in 1..(Len(calls) - 1) : Joins(Setting, Item(calls[i], "plain"), Item(calls[i + 1], "plain"))
  <2> SUFFICES ASSUME NEW i \in 1..(Len(calls) - 1)
               PROVE  Joins(Setting, Item(calls[i], "plain"), Item(calls[i + 1], "plain"))
    OBVIOUS
  <2>1. /\ Joins(Setting, Item("revoke-keys", "plain"), Item("disable-record", "plain"))
        /\ Joins(Setting, Item("disable-record", "plain"), Item("terminate", "plain"))
        /\ Joins(Setting, Item("terminate", "plain"), Item("stop-daemon", "plain"))
    BY HostJoins
  <2>2. 1 + 1 = 2 /\ 2 + 1 = 3 /\ 3 + 1 = 4
    OBVIOUS
  <2> QED BY <1>4, <1>6, <2>1, <2>2
<1>8. /\ Chain(Setting, p) /\ Len(p) = Len(calls)
      /\ \A i \in 1..Len(calls) : p[i] = Item(calls[i], "plain")
      /\ \A x \in ToSet(p) : \E i \in 1..Len(calls) : x = Item(calls[i], "plain")
  <2>1. p = Part(calls, "plain")
    BY <1>1
  <2> QED BY SMTT(30), <2>1, <1>3, <1>5, <1>7, PartChain
<1>9. \A i \in 1..Len(calls) : i = 1 \/ i = 2 \/ i = 3 \/ i = 4
  BY <1>3
<1>10. \A i \in 1..Len(calls) : calls[i] \in Closing
  BY <1>4, <1>9 DEF Closing
<1> QED BY <1>3, <1>4, <1>8, <1>10

\* The record and the configuration of another account.
LEMMA MovedPart ==
  ASSUME Active, First.call = "enable-host", MakesKeys(Setting), NEW p,
         p = Part(<<"write-config", "write-record">>, "host")
  PROVE  /\ Chain(Setting, p) /\ Len(p) = 2 /\ p[1] = Item("write-config", "host") /\ p[2] = Item("write-record", "host")
         /\ \A x \in ToSet(p) : \E c \in {"write-config", "write-record"} : x = Item(c, "host")
<1>1. PICK calls : calls = <<"write-config", "write-record">>
  OBVIOUS
<1>2. "write-config" \in Verb /\ "write-record" \in Verb
  BY DEF Verb, SshCalls
<1>3. calls \in Seq(Verb) /\ Len(calls) = 2 /\ calls[1] = "write-config" /\ calls[2] = "write-record"
  BY <1>1, <1>2, Tuples
<1>4. calls # <<>> /\ "host" \in Block
  <2>1. "host" \in Block
    BY DEF Block
  <2> QED BY <2>1, <1>3, ListMembers
<1>5. \A i \in 1..(Len(calls) - 1) : i = 1
  BY <1>3
<1>6. \A i \in 1..(Len(calls) - 1) : Joins(Setting, Item(calls[i], "host"), Item(calls[i + 1], "host"))
  <2> SUFFICES ASSUME NEW i \in 1..(Len(calls) - 1)
               PROVE  Joins(Setting, Item(calls[i], "host"), Item(calls[i + 1], "host"))
    OBVIOUS
  <2>1. Joins(Setting, Item("write-config", "host"), Item("write-record", "host"))
    BY HostJoins
  <2> QED BY <1>3, <1>5, <2>1
<1>7. /\ Chain(Setting, p) /\ Len(p) = Len(calls)
      /\ \A i \in 1..Len(calls) : p[i] = Item(calls[i], "host")
      /\ \A x \in ToSet(p) : \E i \in 1..Len(calls) : x = Item(calls[i], "host")
  <2>1. p = Part(calls, "host")
    BY <1>1
  <2> QED BY <2>1, <1>3, <1>4, <1>6, PartChain
<1>8. \A i \in 1..Len(calls) : i = 1 \/ i = 2
  BY <1>3
<1> QED BY <1>3, <1>7, <1>8

LEMMA NothingMore == ASSUME NEW C, NEW s \in Seq(C) PROVE s \o <<>> = s
BY EmptySeq, ConcatProperties

\* A daemon that is closed, and handed on to another account when it has one.
LEMMA AgainPart ==
  ASSUME Active, First.call = "enable-host", MakesKeys(Setting), NEW a, HostAccepts(a), host.record # Nobody,
         NEW g, g = Part(<<"revoke-keys", "disable-record", "terminate", "stop-daemon">>, "plain"),
         NEW m, m = Part(<<"write-config", "write-record">>, "host")
  PROVE  IF host.record = a THEN Opening(g, a) ELSE Opening(g \o m, a)
<1>1. /\ Chain(Setting, g) /\ Len(g) = 4 /\ g[1] = Item("revoke-keys", "plain") /\ g[4] = Item("stop-daemon", "plain")
      /\ \A x \in ToSet(g) : \E c \in Closing : x = Item(c, "plain")
  BY ClosingPart
<1>2. /\ Chain(Setting, m) /\ Len(m) = 2 /\ m[1] = Item("write-config", "host") /\ m[2] = Item("write-record", "host")
      /\ \A x \in ToSet(m) : \E c \in {"write-config", "write-record"} : x = Item(c, "host")
  BY MovedPart
<1>3. HostOwned
  BY DEF HostAccepts
<1>4. host.config = host.record /\ host.unit
  BY <1>3 DEF HostOwned
<1>5. /\ Joins(Setting, Item("write-record", "host"), Item("install-key", "host"))
      /\ Joins(Setting, Item("stop-daemon", "plain"), Item("write-config", "host"))
      /\ Joins(Setting, Item("stop-daemon", "plain"), Item("install-key", "host"))
  BY HostJoins
<1>6. CASE host.record = a
  <2>1. Joins(Setting, g[Len(g)], Item("install-key", "host"))
    BY <1>1, <1>5
  <2>2. Opening(g, a)
    BY <1>1, <1>4, <1>6, <2>1 DEF Opening
  <2> QED BY <1>6, <2>2
<1>7. CASE host.record # a
  <2>1. PICK p : p = g \o m
    OBVIOUS
  <2>2. Joins(Setting, g[Len(g)], m[1])
    BY <1>1, <1>2, <1>5
  <2>3. /\ Chain(Setting, p) /\ Len(p) = Len(g) + Len(m) /\ ToSet(p) = ToSet(g) \cup ToSet(m)
        /\ p[1] = g[1] /\ p[Len(p)] = m[Len(m)]
    BY <1>1, <1>2, <2>1, <2>2, ChainConcat
  <2>4. Joins(Setting, p[Len(p)], Item("install-key", "host"))
    BY <1>2, <1>5, <2>3
  <2>5. m[1] \in ToSet(m) /\ m[2] \in ToSet(m)
    <3>1. m \in Seq(CallRecord)
      BY <1>2 DEF Chain
    <3> QED BY <3>1, <1>2, ListMembers
  <2>6. Has(p, "write-config") /\ Has(p, "write-record")
    BY <1>2, <2>3, <2>5, Items DEF Has
  <2>7. \A x \in ToSet(p) : \/ \E c \in Writing \cup Closing : x = Item(c, "plain")
                            \/ \E c \in {"write-config", "write-record"} : x = Item(c, "host")
    BY <1>1, <1>2, <2>3
  <2>8. p[1] = Item("revoke-keys", "plain")
    BY <1>1, <2>3
  <2>9. Opening(p, a)
    BY <1>4, <2>3, <2>4, <2>6, <2>7, <2>8 DEF Opening
  <2> QED BY <1>7, <2>1, <2>9
<1> QED BY <1>6, <1>7

\* The calls that make the daemon's key anew.
LEMMA EnableShape ==
  ASSUME Active, EnableHost, MakesKeys(Setting), HostAccepts(Subject(First).account), ~(HostEnabled /\ op.key = NoKey)
  PROVE  \E p, k : /\ Opening(p, Subject(First).account)
                   /\ k = Part(<<"install-key", "authorize", "start-daemon", "enable-record", "verify">>, "host")
                   /\ Instead(p \o k)
<1>1. PICK a : a = Subject(First).account
  OBVIOUS
<1>2. PICK k : k = Part(<<"install-key", "authorize", "start-daemon", "enable-record", "verify">>, "host")
  OBVIOUS
<1>3. PICK g : g = Part(<<"revoke-keys", "disable-record", "terminate", "stop-daemon">>, "plain")
  OBVIOUS
<1>4. PICK m : m = Part(<<"write-config", "write-record">>, "host")
  OBVIOUS
<1>5. PICK f : f = Part(<<"make-directory", "write-record", "write-config", "write-unit">>, "plain")
  OBVIOUS
<1>6. First.call = "enable-host"
  BY DEF EnableHost, On
<1>7. Instead((IF host.record = Nobody THEN f ELSE g \o (IF host.record = a THEN <<>> ELSE m)) \o k)
  BY <1>1, <1>2, <1>3, <1>4, <1>5 DEF EnableHost
<1>8. CASE host.record = Nobody
  <2>1. Opening(f, a)
    BY <1>5, <1>6, <1>8, FirstPart
  <2>2. Instead(f \o k)
    BY <1>7, <1>8
  <2> QED BY <1>1, <1>2, <2>1, <2>2
<1>9. CASE host.record # Nobody /\ host.record = a
  <2>1. Opening(g, a)
    BY <1>1, <1>3, <1>4, <1>6, <1>9, AgainPart
  <2>2. g \in Seq(CallRecord)
    BY <2>1 DEF Opening, Chain
  <2>3. g \o <<>> = g
    BY <2>2, NothingMore
  <2>4. Instead((g \o <<>>) \o k)
    BY <1>7, <1>9
  <2>5. Instead(g \o k)
    BY <2>3, <2>4
  <2> QED BY <1>1, <1>2, <2>1, <2>5
<1>10. CASE host.record # Nobody /\ host.record # a
  <2>1. Opening(g \o m, a)
    BY <1>1, <1>3, <1>4, <1>6, <1>10, AgainPart
  <2>2. Instead((g \o m) \o k)
    BY <1>7, <1>10
  <2> QED BY <1>1, <1>2, <2>1, <2>2
<1> QED BY <1>8, <1>9, <1>10

\* Calls about a key fit in the place of the one that they stand for.
LEMMA KeyItem ==
  ASSUME Active, First.call \in {"enable-host", "activate-key", "replace-key"}, NEW t \in CallRecord,
         \/ \E c \in Writing \cup Closing : t = Item(c, "plain")
         \/ \E c \in KeyCalls : t = Item(c, "host")
         \/ t = Item("enable-host", "plain") /\ op.cmd.do # "publish"
  PROVE  /\ t \in Menu(Setting) /\ t.call # "start-gateway" /\ t.call \in HostVerbs
         /\ (t.block = "withdraw") = (First.block = "withdraw")
         /\ op.cmd.do = "publish" => /\ (t.call \in BeforeNet) = (First.call \in BeforeNet)
                                     /\ ~Early(t) /\ t.call # "enable-host"
<1>1. /\ First \in Menu(Setting) /\ MakesKeys(Setting) /\ Setting.cmd = op.cmd
  BY FirstInMenu, BusyFirst DEF HostVerbs, Setting
<1>2. /\ t.name = First.name /\ t.to = First.to /\ t.block \in {"plain", "host"}
      /\ t.call \in Writing \cup Closing \cup KeyCalls \cup {"enable-host"}
      /\ t.block = "host" => t.call \in KeyCalls
      /\ t.block = "plain" => t.call \in Writing \cup Closing \cup {"enable-host"}
      /\ t.call = "enable-host" => op.cmd.do # "publish"
  BY Items DEF Writing, Closing, KeyCalls
<1>3. First.block = "plain"
  BY <1>1 DEF Menu, UnitCall, WithdrawCall, BareCall, UnitVerbs, RelocationCalls, Withdrawing, Restoring, KeyCalls
<1>4. (t.block = "host" /\ MakesKeys(Setting) /\ t.call \in KeyCalls) \/ BareCall(Setting, t)
  BY <1>1, <1>2 DEF BareCall
<1>5. t.call \notin {"save", "delete-record", "check-host", "start-gateway"} \cup StreamVerbs \cup WebVerbs \cup Checking
  BY <1>2 DEF StreamVerbs, WebVerbs, Writing, Closing, KeyCalls, Checking
<1>6. t \in Menu(Setting)
  <2>1. Setting.cmd.do \in {"remove", "publish"} => t.name = Setting.cmd.name /\ t.to = Setting.domain
    BY <1>1, <1>2 DEF Menu
  <2>2. Setting.cmd.do \in {"activate", "replace"} => t.name \in SshOf(Setting.inventory)
    BY <1>1, <1>2 DEF Menu
  <2> QED BY <1>4, <1>5, <2>1, <2>2 DEF Menu
<1>7. t.call \in HostVerbs
  BY <1>2 DEF HostVerbs
<1>8. op.cmd.do = "publish" => First.call = "enable-host"
  BY <1>1, MenuFacts
<1>9. op.cmd.do = "publish" => /\ t.call \in BeforeNet /\ First.call \in BeforeNet
                               /\ ~Early(t) /\ t.call # "enable-host"
  BY <1>2, <1>5, <1>8 DEF BeforeNet, Early
<1> QED BY <1>2, <1>3, <1>5, <1>6, <1>7, <1>9

\* The calls that open the daemon with a new key.
LEMMA OpeningList ==
  ASSUME Active, First.call = "enable-host", MakesKeys(Setting), NEW p, NEW k, NEW a, Opening(p, a),
         k = Part(<<"install-key", "authorize", "start-daemon", "enable-record", "verify">>, "host")
  PROVE  /\ Fits(Setting, First, p \o k) /\ \A x \in ToSet(p \o k) : x.call \in HostVerbs
         /\ (p \o k)[1] = p[1] /\ (p \o k)[Len(p \o k)] = Item("verify", "host")
         /\ Len(p \o k) = Len(p) + 5 /\ Len(p) \in Nat \ {0}
         /\ \A i \in 1..Len(p) : (p \o k)[i] = p[i] /\ p[i].call # "install-key"
<1>1. /\ Chain(Setting, k) /\ Len(k) = 5 /\ k[1] = Item("install-key", "host") /\ k[5] = Item("verify", "host")
      /\ \A x \in ToSet(k) : \E c \in KeyCalls : x = Item(c, "host")
  BY KeysPart
<1>2. /\ Chain(Setting, p) /\ Joins(Setting, p[Len(p)], k[1])
      /\ \A x \in ToSet(p) : \/ \E c \in Writing \cup Closing : x = Item(c, "plain")
                             \/ \E c \in {"write-config", "write-record"} : x = Item(c, "host")
  BY <1>1 DEF Opening
<1>3. /\ Chain(Setting, p \o k) /\ Len(p \o k) = Len(p) + Len(k) /\ ToSet(p \o k) = ToSet(p) \cup ToSet(k)
      /\ (p \o k)[1] = p[1] /\ (p \o k)[Len(p \o k)] = k[Len(k)]
      /\ \A i \in 1..Len(p) : (p \o k)[i] = p[i]
  BY <1>1, <1>2, ChainConcat
<1>4. PICK l : l = p \o k
  OBVIOUS
<1>5. l \in Seq(CallRecord) /\ l # <<>> /\ \A i \in 1..(Len(l) - 1) : Joins(Setting, l[i], l[i + 1])
  BY <1>3, <1>4 DEF Chain
<1>6. p \in Seq(CallRecord) /\ p # <<>>
  BY <1>2 DEF Chain
<1>7. ToSet(l) \subseteq CallRecord
  BY <1>5, ListMembers
<1>8. \A t \in ToSet(l) : \/ \E c \in Writing \cup Closing : t = Item(c, "plain")
                          \/ \E c \in KeyCalls : t = Item(c, "host")
  <2>1. {"write-config", "write-record"} \subseteq KeyCalls
    BY DEF KeyCalls
  <2> QED BY <1>1, <1>2, <1>3, <1>4, <2>1
<1>9. \A t \in ToSet(l) :
        /\ t \in Menu(Setting) /\ t.call # "start-gateway" /\ t.call \in HostVerbs
        /\ (t.block = "withdraw") = (First.block = "withdraw")
        /\ op.cmd.do = "publish" => /\ (t.call \in BeforeNet) = (First.call \in BeforeNet)
                                    /\ ~Early(t) /\ t.call # "enable-host"
  BY <1>7, <1>8, KeyItem
<1>10. ~Early(First) /\ Setting.cmd.do = op.cmd.do
  BY DEF Early, Checking, Setting
<1>11. Fits(Setting, First, l)
  BY <1>5, <1>9, <1>10 DEF Fits
<1>12. Len(p) \in Nat \ {0}
  BY <1>6, ListMembers
<1>13. \A i \in 1..Len(p) : p[i].call # "install-key"
  <2>1. \A x \in ToSet(p) : x.call # "install-key"
    BY <1>2, Items DEF Writing, Closing
  <2> QED BY <2>1, <1>6, ListMembers
<1>14. (p \o k)[Len(p \o k)] = Item("verify", "host") /\ Len(p \o k) = Len(p) + 5
  BY <1>1, <1>3
<1> QED BY <1>3, <1>4, <1>9, <1>11, <1>12, <1>13, <1>14

\* They write what is not there before the key is installed.
LEMMA OpeningKeys ==
  ASSUME Active, First.call = "enable-host", MakesKeys(Setting), NEW p, NEW k, Opening(p, Subject(First).account),
         k = Part(<<"install-key", "authorize", "start-daemon", "enable-record", "verify">>, "host"),
         NEW l, l = p \o k, op'.todo = l \o Tail(op.todo), Same, UNCHANGED adapters
  PROVE  KeysReady'
<1>1. PICK a : a = Subject(First).account
  OBVIOUS
<1>2. PICK T : T = Tail(op.todo)
  OBVIOUS
<1>3. /\ Fits(Setting, First, l) /\ Len(l) = Len(p) + 5 /\ Len(p) \in Nat \ {0}
      /\ \A i \in 1..Len(p) : l[i] = p[i] /\ p[i].call # "install-key"
  BY OpeningList
<1>4. l \in Seq(CallRecord) /\ p \in Seq(CallRecord) /\ T \in Seq(CallRecord) /\ ToSet(l) \subseteq Menu(Setting)
  <2>1. p \in Seq(CallRecord)
    BY DEF Opening, Chain
  <2>2. T \in Seq(CallRecord)
    BY <1>2, TodoFacts DEF Active
  <2> QED BY <1>3, <2>1, <2>2 DEF Fits
<1>5. \A i \in 1..Len(T) : T[i].call # "install-key"
  <2>1. \A x \in ToSet(T) : x.call # "install-key"
    BY <1>2, NoInstallAhead DEF Openers, Starters
  <2> QED BY <2>1, <1>4, ListMembers
<1>6. PICK s : s = op'.todo
  OBVIOUS
<1>7. /\ s \in Seq(CallRecord) /\ Len(s) = Len(l) + Len(T) /\ DOMAIN s = 1..(Len(l) + Len(T))
      /\ \A i \in 1..Len(l) + Len(T) : s[i] = IF i <= Len(l) THEN l[i] ELSE T[i - Len(l)]
      /\ Len(l) \in Nat /\ Len(T) \in Nat
  <2>1. s = l \o T
    BY <1>2, <1>6
  <2>2. /\ l \o T \in Seq(CallRecord) /\ Len(l \o T) = Len(l) + Len(T)
        /\ \A i \in 1..Len(l) + Len(T) : (l \o T)[i] = IF i <= Len(l) THEN l[i] ELSE T[i - Len(l)]
    BY <1>4, ConcatProperties
  <2>3. s \in Seq(CallRecord) /\ Len(s) = Len(l) + Len(T)
    BY <2>1, <2>2
  <2>4. DOMAIN s = 1..Len(s)
    BY <2>3, ListMembers
  <2>5. Len(l) \in Nat /\ Len(T) \in Nat
    BY <1>4, ListMembers
  <2>6. \A i \in 1..Len(l) + Len(T) : s[i] = IF i <= Len(l) THEN l[i] ELSE T[i - Len(l)]
    BY <2>1, <2>2
  <2> QED BY <2>3, <2>4, <2>5, <2>6
<1>8. ASSUME NEW i \in DOMAIN s, s[i].call = "install-key"
      PROVE  i > Len(p) /\ i \in 1..Len(l) /\ s[i] = l[i]
  <2>1. i <= Len(l)
    <3> SUFFICES ASSUME ~(i <= Len(l)) PROVE FALSE
      OBVIOUS
    <3>1. i - Len(l) \in 1..Len(T) /\ s[i] = T[i - Len(l)]
      BY <1>7, <1>8
    <3> QED BY <3>1, <1>5, <1>8
  <2>2. i \in 1..Len(l) /\ s[i] = l[i]
    BY <2>1, <1>7, <1>8
  <2>3. i > Len(p)
    <3> SUFFICES ASSUME ~(i > Len(p)) PROVE FALSE
      OBVIOUS
    <3>1. i \in 1..Len(p)
      BY <2>2, <1>3
    <3> QED BY <3>1, <2>2, <1>3, <1>8
  <2> QED BY <2>2, <2>3
<1>9. ASSUME NEW verb, Has(p, verb), NEW i \in DOMAIN s, i > Len(p)
      PROVE  \E j \in DOMAIN s : j < i /\ s[j].call = verb
  <2>1. PICK j \in 1..Len(p) : p[j].call = verb
    BY <1>4, <1>9, ListMembers DEF Has
  <2>2. j \in DOMAIN s /\ j < i /\ j \in 1..Len(l)
    BY <1>3, <1>7, <1>9, <2>1
  <2>3. s[j] = p[j]
    BY <1>3, <1>7, <2>1, <2>2
  <2> QED BY <2>1, <2>2, <2>3
<1>10. host' = host
  BY DEF adapters
<1>11. ASSUME NEW i \in DOMAIN s, s[i].call = "install-key"
       PROVE  LET b == Subject(s[i])'.account
              IN /\ host'.record = b \/ \E j \in DOMAIN s : j < i /\ s[j].call = "write-record"
                 /\ host'.config = b \/ \E j \in DOMAIN s : j < i /\ s[j].call = "write-config"
                 /\ host'.unit \/ \E j \in DOMAIN s : j < i /\ s[j].call = "write-unit"
  <2>1. i > Len(p) /\ i \in 1..Len(l) /\ s[i] = l[i]
    BY <1>8, <1>11
  <2>2. PICK x : x = s[i]
    OBVIOUS
  <2>3. x \in Menu(Setting)
    <3>1. DOMAIN l = 1..Len(l)
      BY <1>4
    <3>2. l[i] \in ToSet(l)
      BY <2>1, <3>1 DEF ToSet
    <3> QED BY <2>1, <2>2, <3>2, <1>4
  <2>4. Subject(x)' = Subject(x) /\ Subject(x) = Subject(First)
    BY <2>3, SameFacts, OneSubject
  <2>5. Subject(s[i])' = Subject(x)'
    BY <2>2, <1>6
  <2>6. Subject(s[i])'.account = a
    BY <2>4, <2>5, <1>1
  <2>7. /\ host.record = a \/ Has(p, "write-record")
        /\ host.config = a \/ Has(p, "write-config")
        /\ host.unit \/ Has(p, "write-unit")
    BY <1>1 DEF Opening
  <2>8. i > Len(p) /\ i \in DOMAIN s
    BY <2>1, <1>11
  <2>9. \A verb : Has(p, verb) => \E j \in DOMAIN s : j < i /\ s[j].call = verb
    BY <2>8, <1>9
  <2> QED BY <1>10, <2>6, <2>7, <2>9
<1>12. op'.plan = op.plan /\ inventory' = inventory /\ op'.todo = s
  BY <1>6 DEF Same
<1>13. \A i \in DOMAIN op'.todo : op'.todo[i].call = "install-key" =>
         LET b == Subject(op.todo[i])'.account
         IN /\ host'.record = b \/ WrittenBefore(i, "write-record")'
            /\ host'.config = b \/ WrittenBefore(i, "write-config")'
            /\ host'.unit \/ WrittenBefore(i, "write-unit")'
  <2> SUFFICES ASSUME NEW i \in DOMAIN s, s[i].call = "install-key"
               PROVE  LET b == Subject(op.todo[i])'.account
                      IN /\ host'.record = b \/ WrittenBefore(i, "write-record")'
                         /\ host'.config = b \/ WrittenBefore(i, "write-config")'
                         /\ host'.unit \/ WrittenBefore(i, "write-unit")'
    BY <1>12
  <2>1. Subject(op.todo[i])' = Subject(s[i])'
    BY <1>12 DEF Subject
  <2>2. \A verb : (\E j \in DOMAIN s : j < i /\ s[j].call = verb) => WrittenBefore(i, verb)'
    BY <1>12 DEF WrittenBefore
  <2> QED BY <1>11, <2>1, <2>2
<1> QED BY <1>13 DEF KeysReady

\* A daemon that is closed is the exposure's own.
LEMMA RevokeReady ==
  ASSUME Active, NEW t, Advances(t), First.call \in {"enable-host", "replace-key"}, MakesKeys(Setting),
         t.call = "revoke-keys", t.block = "plain", t.name = First.name, HostOwned,
         op.cmd.do \in {"activate", "replace"} => host.record = Subject(First).account, host' = host
  PROVE  HostReady(t)'
<1>1. First.call \in HostVerbs \ {"prepare-key"}
  BY DEF HostVerbs
<1>2. op.cmd.do \notin {"remove", "uninstall"}
  BY <1>1, BusyFirst
<1>3. op'.cmd = op.cmd /\ Subject(t)' = Subject(First) /\ t.block \notin UnitBlocks
  BY <1>1, BusyNext DEF UnitBlocks
<1>4. HostOwned'
  BY DEF HostOwned
<1>5. HostFinds(t)'
  BY <1>2, <1>3, <1>4 DEF HostFinds, Closing
<1> QED BY <1>1, <1>5, HostBusyReady

\* What a call for a key finds.
LEMMA EnableFacts ==
  ASSUME Active, First.call = "enable-host"
  PROVE  /\ MakesKeys(Setting) /\ First.block = "plain" /\ op.cmd.do \in {"publish", "activate", "replace"}
         /\ op.cmd.do = "publish" => PublishesSsh /\ MayRefuse({"enable-host"}) /\ HostRest
         /\ op.cmd.do \in {"activate", "replace"} =>
              HostOwned /\ host.record = Subject(First).account /\ (HostEnabled => op.key # NoKey)
<1>1. MakesKeys(Setting) /\ First \in Menu(Setting)
  BY BusyFirst, FirstInMenu DEF HostVerbs
<1>2. First.block = "plain"
  BY <1>1, KeyMenu
<1>3. op.cmd.do \in {"publish", "activate", "replace"} /\ (op.cmd.do = "publish" => PublishesSsh)
  BY <1>1 DEF MakesKeys, PublishesSshIn, PublishesSsh, Setting
<1>4. HostReady(First)
  BY DEF Active, UnderWay
<1>5. op.cmd.do = "publish" => MayRefuse({"enable-host"}) /\ MayRefuse(Checking \cup {"enable-host"})
  BY <1>2, <1>3 DEF MayRefuse
<1>6. op.cmd.do = "publish" => HostRest
  BY <1>4, <1>5 DEF HostReady
<1>7. op.cmd.do \in {"activate", "replace"} =>
        HostOwned /\ host.record = Subject(First).account /\ (HostEnabled => op.key # NoKey)
  BY <1>4 DEF HostReady
<1> QED BY <1>1, <1>2, <1>3, <1>5, <1>6, <1>7

\* Any other call may come after a key.
LEMMA AfterKey ==
  ASSUME Active, First.call \in {"enable-host", "activate-key", "replace-key"}, NEW x, x.call \in {"verify", "enable-host"}
  PROVE  IF Tail(op.todo) = <<>> THEN x.call \in Finals(Setting) ELSE Joins(Setting, x, Head(Tail(op.todo)))
<1>1. Listed(Setting, op.todo) /\ op.todo # <<>>
  BY DEF Active, UnderWay
<1>2. CASE Tail(op.todo) = <<>>
  <2>1. First.call \in Finals(Setting)
    BY <1>1, <1>2, ListedTail DEF First
  <2>2. x.call \in Finals(Setting)
    BY <2>1 DEF Finals
  <2> QED BY <1>2, <2>2
<1>3. CASE Tail(op.todo) # <<>>
  <2>1. PICK t : t = Head(Tail(op.todo))
    OBVIOUS
  <2>2. Joins(Setting, First, t)
    BY <1>1, <1>3, <2>1, ListedTail DEF First
  <2>3. LedBy(x, t)
    BY <2>2 DEF Joins, LedBy
  <2>4. ~Leads(Setting, x)
    BY DEF Leads, Forwards, Writing, Cleaning
  <2> QED BY <1>3, <2>1, <2>3, <2>4 DEF Joins
<1> QED BY <1>2, <1>3

LEMMA EnableGoesWell ==
  ASSUME Active, EnableHost
  PROVE  GoesWell'
<1>1. First.call = "enable-host" /\ UNCHANGED <<adapters, files>> /\ UNCHANGED <<adapters, inventory, domain>>
  BY DEF EnableHost, On, files
<1>2. PICK a : a = Subject(First).account
  OBVIOUS
<1>3. /\ MakesKeys(Setting) /\ First.block = "plain" /\ op.cmd.do \in {"publish", "activate", "replace"}
      /\ op.cmd.do = "publish" => PublishesSsh /\ MayRefuse({"enable-host"}) /\ HostRest
      /\ op.cmd.do \in {"activate", "replace"} =>
           HostOwned /\ host.record = a /\ (HostEnabled => op.key # NoKey)
  BY <1>1, <1>2, EnableFacts
<1>4. CASE ~HostAccepts(a)
  <2>1. Abort
    BY <1>2, <1>4 DEF EnableHost
  <2>2. op.cmd.do = "publish"
    BY <1>3, <1>4 DEF HostAccepts, HostOwned
  <2>3. {"enable-host"} \in SUBSET (Checking \cup {"check-web", "enable-host"})
    OBVIOUS
  <2> QED BY <1>1, <1>3, <2>1, <2>2, <2>3, Refused
<1>5. CASE HostAccepts(a) /\ HostEnabled /\ op.key = NoKey
  <2>1. Continue
    BY <1>2, <1>5 DEF EnableHost
  <2>2. op.cmd.do = "publish" /\ HostRest
    BY <1>3, <1>5
  <2>3. HostHealthy(a)
    <3>1. SshOf(inventory) # {}
      BY <1>5, <2>2 DEF HostRest
    <3>2. PICK n \in SshOf(inventory) : HostHealthy(inventory[n].account)
      BY <2>2, <3>1 DEF HostRest
    <3>3. host.record = a
      BY <1>5 DEF HostAccepts, HostEnabled
    <3> QED BY <3>2, <3>3 DEF HostHealthy
  <2>4. First.call \notin Finals(Setting)
    BY <1>1, <2>2 DEF Finals, Setting
  <2>5. PICK t \in CallRecord : Passes(t)
    <3>1. /\ op'.todo = <<>> => First.call \in Finals(Setting)
          /\ op'.todo # <<>> => \E t \in CallRecord : Passes(t)
      BY <1>1, <2>1, CalmContinue
    <3> QED BY <2>4, <3>1
  <2>6. HostReady(t)'
    BY <1>1, <1>2, <2>3, <2>5, HostServed DEF adapters
  <2>7. Steady
    BY <1>1, SteadyNow DEF Restoring, Forwards
  <2> QED BY <1>1, <2>5, <2>6, <2>7, StillPass DEF StillVerbs
<1>6. CASE HostAccepts(a) /\ ~(HostEnabled /\ op.key = NoKey)
  <2>1. PICK p, k : /\ Opening(p, a)
                    /\ k = Part(<<"install-key", "authorize", "start-daemon", "enable-record", "verify">>, "host")
                    /\ Instead(p \o k)
    BY <1>2, <1>3, <1>6, EnableShape
  <2>2. PICK l : l = p \o k
    OBVIOUS
  <2>3. Same /\ op'.todo = l \o Tail(op.todo)
    BY <1>1, <2>1, <2>2, InsteadSame
  <2>4. /\ Fits(Setting, First, l) /\ \A x \in ToSet(l) : x.call \in HostVerbs
        /\ l[1] = p[1] /\ l[Len(l)] = Item("verify", "host")
    BY <1>1, <1>3, <2>1, <2>2, OpeningList
  <2>5. IF Tail(op.todo) = <<>> THEN l[Len(l)].call \in Finals(Setting) ELSE Joins(Setting, l[Len(l)], Head(Tail(op.todo)))
    BY <1>1, <2>4, AfterKey, Items
  <2>6. KeysReady'
    BY <1>1, <1>2, <1>3, <2>1, <2>2, <2>3, OpeningKeys
  <2>7. PICK t : t = Head(l)
    OBVIOUS
  <2>8. t = Item(IF host.record = Nobody THEN "make-directory" ELSE "revoke-keys", "plain")
    <3>1. l \in Seq(CallRecord) /\ l # <<>>
      BY <2>4 DEF Fits
    <3>2. t = l[1]
      BY <2>7, <3>1, ListMembers
    <3> QED BY <2>1, <2>4, <3>2 DEF Opening
  <2>9. Advances(t)
    BY <2>3, <2>4, <2>5, <2>7, CalmInsert
  <2>10. HostReady(t)'
    <3>1. CASE host.record = Nobody
      <4>1. t.call = "make-directory"
        BY <2>8, <3>1, Items
      <4> QED BY <1>1, <1>3, <2>9, <4>1, HostWriting DEF HostVerbs, Writing
    <3>2. CASE host.record # Nobody
      <4>1. t.call = "revoke-keys" /\ t.block = "plain" /\ t.name = First.name
        BY <2>8, <3>2, Items
      <4>2. HostOwned
        BY <1>6, <3>2 DEF HostAccepts
      <4> QED BY <1>1, <1>2, <1>3, <2>9, <4>1, <4>2, RevokeReady DEF adapters
    <3> QED BY <3>1, <3>2
  <2>11. HostReady(Head(l))'
    BY <2>7, <2>10
  <2> QED BY <1>1, <2>3, <2>4, <2>5, <2>6, <2>11, HostInsert
<1> QED BY <1>4, <1>5, <1>6

\* What joining two sequences gives.
IsJoin(s, t, l) == /\ Len(l) = Len(s) + Len(t) /\ ToSet(l) = ToSet(s) \cup ToSet(t)
                   /\ l[1] = s[1] /\ l[Len(l)] = t[Len(t)]
LEMMA JoinFacts ==
  ASSUME NEW v, NEW s, NEW t, Chain(v, s), Chain(v, t)
  PROVE  IsJoin(s, t, s \o t)
<1>1. s \in Seq(CallRecord) /\ t \in Seq(CallRecord) /\ s # <<>> /\ t # <<>>
  BY DEF Chain
<1>2. Len(s) \in Nat \ {0} /\ Len(t) \in Nat \ {0}
  BY <1>1, ListMembers
<1>3. /\ s \o t \in Seq(CallRecord) /\ Len(s \o t) = Len(s) + Len(t)
      /\ \A i \in 1..(Len(s) + Len(t)) : (s \o t)[i] = IF i <= Len(s) THEN s[i] ELSE t[i - Len(s)]
  BY <1>1, ConcatProperties
<1>4. (s \o t)[1] = s[1]
  BY <1>2, <1>3
<1>5. (s \o t)[Len(s) + Len(t)] = t[Len(t)]
  BY <1>2, <1>3
<1>7. ToSet(s \o t) = ToSet(s) \cup ToSet(t)
  <2>1. Range(s \o t) = Range(s) \cup Range(t)
    BY <1>1, RangeConcatenation
  <2> QED BY <2>1 DEF ToSet, Range
<1> QED BY <1>3, <1>4, <1>5, <1>7 DEF IsJoin
LEMMA ChainJoined ==
  ASSUME NEW v, NEW s, NEW t, NEW l, Chain(v, s), Chain(v, t), Joins(v, s[Len(s)], t[1]), l = s \o t
  PROVE  Chain(v, l) /\ IsJoin(s, t, l)
<1>1. Chain(v, s \o t) 
  BY ChainConcat
<1>2. IsJoin(s, t, s \o t)
  BY JoinFacts
<1> QED BY <1>1, <1>2

\* What the activation and the replacement of a key find.
LEMMA KeyFacts ==
  ASSUME Active, First.call \in {"activate-key", "replace-key"}
  PROVE  /\ MakesKeys(Setting) /\ First.block = "plain" /\ op.cmd.do \in {"activate", "replace"}
         /\ HostHealthy(Subject(First).account) /\ AtRest /\ ~NewSsh(First)
<1>1. MakesKeys(Setting) /\ First \in Menu(Setting) /\ First.call \in Starters
  BY BusyFirst, FirstInMenu DEF HostVerbs, Starters
<1>2. op.cmd.do \in {"activate", "replace"} /\ First.name \in SshOf(inventory)
  BY <1>1, MenuFacts DEF Menu, Setting
<1>3. First.block = "plain"
  BY <1>1 DEF Menu, UnitCall, WithdrawCall, BareCall, UnitVerbs, RelocationCalls, Withdrawing, Restoring, KeyCalls
<1>4. HostRest
  BY DEF Active, UnderWay, HostReady
<1>5. NetRest(inventory, domain) /\ op.plan = inventory
  BY <1>2, NetAtRest
<1>6. Subject(First) = inventory[First.name]
  BY <1>5 DEF Subject
<1>7. HostHealthy(Subject(First).account)
  BY <1>2, <1>4, <1>6 DEF HostRest
<1>8. Steady
  BY SteadyNow DEF Restoring, Forwards
<1>9. ~NewSsh(First)
  BY <1>2 DEF NewSsh
<1> QED BY <1>1, <1>2, <1>3, <1>4, <1>5, <1>7, <1>8, <1>9 DEF AtRest

\* The call that enables the daemon.
LEMMA EnablePart ==
  ASSUME Active, NEW l, l = Part(<<"enable-host">>, "plain")
  PROVE  /\ Chain(Setting, l) /\ Len(l) = 1 /\ l[1] = Item("enable-host", "plain")
         /\ \A x \in ToSet(l) : x = Item("enable-host", "plain")
<1>1. PICK calls : calls = <<"enable-host">>
  OBVIOUS
<1>2. "enable-host" \in Verb /\ "plain" \in Block
  BY DEF Verb, Block
<1>3. calls \in Seq(Verb) /\ Len(calls) = 1 /\ calls[1] = "enable-host"
  BY <1>1, <1>2, Tuples
<1>4. calls # <<>>
  BY <1>1
<1>5. l = Part(calls, "plain")
  BY <1>1
<1>6. \A i \in 1..(Len(calls) - 1) : Joins(Setting, Item(calls[i], "plain"), Item(calls[i + 1], "plain"))
  BY <1>3
<1>7. /\ Chain(Setting, l) /\ Len(l) = Len(calls)
      /\ \A i \in 1..Len(calls) : l[i] = Item(calls[i], "plain")
      /\ \A x \in ToSet(l) : \E i \in 1..Len(calls) : x = Item(calls[i], "plain")
  BY <1>2, <1>3, <1>4, <1>5, <1>6, PartChain
<1>8. \A i \in 1..Len(calls) : i = 1
  BY <1>3
<1> QED BY <1>3, <1>7, <1>8

\* The last call of a list is the last one of the command, or goes with the next.
Ended(x) == IF Tail(op.todo) = <<>> THEN x.call \in Finals(Setting) ELSE Joins(Setting, x, Head(Tail(op.todo)))

\* The calls of a key, once it is known which they are.
LEMMA NewKeyList ==
  ASSUME Active, First.call \in {"activate-key", "replace-key"}, NEW l, Chain(Setting, l),
         l[Len(l)] = Item("enable-host", "plain"),
         \A x \in ToSet(l) : x = Item("enable-host", "plain") \/ \E c \in Closing : x = Item(c, "plain"),
         op'.todo = l \o Tail(op.todo), Same
  PROVE  /\ Fits(Setting, First, l) /\ \A x \in ToSet(l) : x.call \in HostVerbs
         /\ Ended(l[Len(l)]) /\ Advances(Head(l)) /\ KeysReady' /\ Head(l) = l[1]
<1>1. op.cmd.do \in {"activate", "replace"}
  BY KeyFacts
<1>2. l \in Seq(CallRecord) /\ l # <<>> /\ \A i \in 1..(Len(l) - 1) : Joins(Setting, l[i], l[i + 1])
  BY DEF Chain
<1>3. ToSet(l) \subseteq CallRecord /\ Head(l) = l[1]
  BY <1>2, ListMembers
<1>4. \A t \in ToSet(l) :
        /\ t \in Menu(Setting) /\ t.call # "start-gateway" /\ t.call \in HostVerbs
        /\ (t.block = "withdraw") = (First.block = "withdraw")
  BY <1>1, <1>3, KeyItem
<1>5. ~Early(First) /\ Setting.cmd.do # "publish"
  BY <1>1 DEF Early, Checking, Setting
<1>6. Fits(Setting, First, l)
  BY <1>2, <1>4, <1>5 DEF Fits
<1>7. l[Len(l)].call = "enable-host"
  BY Items
<1>8. IF Tail(op.todo) = <<>> THEN l[Len(l)].call \in Finals(Setting) ELSE Joins(Setting, l[Len(l)], Head(Tail(op.todo)))
  BY <1>7, AfterKey
<1>9. Advances(Head(l)) /\ ToSet(op'.todo) = ToSet(l) \cup ToSet(Tail(op.todo))
  BY <1>6, <1>8, CalmInsert
<1>10. KeysReady'
  <2>1. \A x \in ToSet(l) : x.call # "install-key"
    BY Items DEF Closing
  <2>2. \A x \in ToSet(Tail(op.todo)) : x.call # "install-key"
    BY NoInstallAhead DEF Openers, Starters
  <2>3. op'.todo \in Seq(CallRecord)
    BY <1>9 DEF Advances, Listed
  <2>4. \A x \in ToSet(op'.todo) : x.call # "install-key"
    BY <1>9, <2>1, <2>2
  <2> QED BY <2>3, <2>4, NoInstall
<1>11. \A x \in ToSet(l) : x.call \in HostVerbs
  BY <1>4
<1>12. Advances(Head(l)) /\ Head(l) = l[1]
  BY <1>3, <1>9
<1>13. Ended(l[Len(l)])
  BY <1>8 DEF Ended
<1> QED BY <1>6, <1>10, <1>11, <1>12, <1>13

\* A prepared key takes the place of the one in use.
LEMMA ActivateGoesWell ==
  ASSUME Active, ActivateKey
  PROVE  GoesWell'
<1>1. /\ First.call = "activate-key" /\ UNCHANGED adapters /\ inventory' = inventory /\ domain' = domain
  BY DEF ActivateKey, On, files
<1>2. PICK a : a = Subject(First).account
  OBVIOUS
<1>3. /\ MakesKeys(Setting) /\ First.block = "plain" /\ op.cmd.do \in {"activate", "replace"}
      /\ HostHealthy(a) /\ AtRest /\ ~NewSsh(First)
  BY <1>1, <1>2, KeyFacts
<1>4. CASE CanActivate(a)
  <2>1. PICK l : l = Part(<<"enable-host">>, "plain")
    OBVIOUS
  <2>2. op' = [op EXCEPT !.todo = l \o Tail(@), !.key = host.pending]
    BY <1>2, <1>4, <2>1 DEF ActivateKey
  <2>3. op \in OpType
    BY DEF Active, IInv, CommandOK
  <2>4. Same /\ op'.todo = l \o Tail(op.todo) /\ op'.key = host.pending
    BY <1>1, <2>2, <2>3 DEF Same, OpType
  <2>5. /\ Chain(Setting, l) /\ Len(l) = 1 /\ l[1] = Item("enable-host", "plain")
        /\ \A x \in ToSet(l) : x = Item("enable-host", "plain")
    BY <2>1, EnablePart
  <2>6. l[Len(l)] = Item("enable-host", "plain")
    BY <2>5
  <2>7. /\ Fits(Setting, First, l) /\ \A x \in ToSet(l) : x.call \in HostVerbs
        /\ Ended(l[Len(l)]) /\ Advances(Head(l)) /\ KeysReady' /\ Head(l) = l[1]
    <3>1. Fits(Setting, First, l) /\ \A x \in ToSet(l) : x.call \in HostVerbs
      BY <1>1, <2>4, <2>5, <2>6, NewKeyList
    <3>2. Ended(l[Len(l)])
      BY <1>1, <2>4, <2>5, <2>6, NewKeyList
    <3>3. Advances(Head(l)) /\ KeysReady' /\ Head(l) = l[1]
      BY <1>1, <2>4, <2>5, <2>6, NewKeyList
    <3> QED BY <3>1, <3>2, <3>3
  <2>8. PICK t : t = Head(l)
    OBVIOUS
  <2>9. t.call = "enable-host" /\ t.block = "plain" /\ t.name = First.name /\ Advances(t)
    BY <2>5, <2>7, <2>8, Items
  <2>10. HostReady(t)'
    <3>1. First.call \in HostVerbs \ {"prepare-key"}
      BY <1>1 DEF HostVerbs
    <3>2. op'.cmd = op.cmd /\ Subject(t)' = Subject(First)
      BY <2>9, <3>1, BusyNext
    <3>3. HostOwned' /\ host'.record = a /\ op'.key # NoKey
      BY <1>1, <1>3, <1>4, <2>4 DEF HostHealthy, HostOwned, CanActivate, adapters
    <3>4. HostFinds(t)'
      BY <1>2, <1>3, <2>9, <3>2, <3>3 DEF HostFinds, Closing, UnitBlocks
    <3> QED BY <2>9, <3>1, <3>4, HostBusyReady
  <2>11. HostReady(Head(l))'
    BY <2>8, <2>10
  <2> QED BY <1>1, <2>4, <2>7, <2>11, HostInsert DEF Ended
<1>5. CASE ~CanActivate(a)
  <2>1. Abort
    BY <1>2, <1>5 DEF ActivateKey
  <2> QED BY <1>1, <1>3, <2>1, AbortAtRest
<1> QED BY <1>4, <1>5

\* A new key takes the place of the one in use.
LEMMA ReplaceGoesWell ==
  ASSUME Active, ReplaceKey
  PROVE  GoesWell'
<1>1. /\ First.call = "replace-key" /\ UNCHANGED <<adapters, files>> /\ UNCHANGED adapters
      /\ inventory' = inventory /\ domain' = domain
  BY DEF ReplaceKey, On, files
<1>2. PICK a : a = Subject(First).account
  OBVIOUS
<1>3. /\ MakesKeys(Setting) /\ First.block = "plain" /\ op.cmd.do \in {"activate", "replace"}
      /\ HostHealthy(a) /\ AtRest /\ ~NewSsh(First)
  BY <1>1, <1>2, KeyFacts
<1>4. CASE HostAccepts(a)
  <2>1. PICK p : p = Part(<<"revoke-keys", "disable-record", "terminate", "stop-daemon">>, "plain")
    OBVIOUS
  <2>2. PICK k : k = Part(<<"enable-host">>, "plain")
    OBVIOUS
  <2>3. Instead(p \o k)
    BY <1>2, <1>4, <2>1, <2>2 DEF ReplaceKey, Revoke, Part
  <2>4. PICK l : l = p \o k
    OBVIOUS
  <2>5. Same /\ op'.todo = l \o Tail(op.todo)
    BY <1>1, <2>3, <2>4, InsteadSame
  <2>6. /\ Chain(Setting, p) /\ Len(p) = 4 /\ p[1] = Item("revoke-keys", "plain") /\ p[4] = Item("stop-daemon", "plain")
        /\ \A x \in ToSet(p) : \E c \in Closing : x = Item(c, "plain")
    BY <1>1, <1>3, <2>1, ClosingPart
  <2>7. /\ Chain(Setting, k) /\ Len(k) = 1 /\ k[1] = Item("enable-host", "plain")
        /\ \A x \in ToSet(k) : x = Item("enable-host", "plain")
    BY <2>2, EnablePart
  <2>8. Joins(Setting, p[Len(p)], k[1])
    BY <1>1, <1>3, <2>6, <2>7, HostJoins
  <2>9. /\ Chain(Setting, l) /\ ToSet(l) = ToSet(p) \cup ToSet(k) /\ l[1] = p[1] /\ l[Len(l)] = k[Len(k)]
    <3>1. Chain(Setting, p) /\ Chain(Setting, k)
      BY <2>6, <2>7
    <3>2. Chain(Setting, l) /\ IsJoin(p, k, l)
      BY <2>4, <2>8, <3>1, ChainJoined
    <3> QED BY <3>2 DEF IsJoin
  <2>10. l[Len(l)] = Item("enable-host", "plain")
    BY <2>7, <2>9
  <2>11. \A x \in ToSet(l) : x = Item("enable-host", "plain") \/ \E c \in Closing : x = Item(c, "plain")
    BY <2>6, <2>7, <2>9
  <2>12. /\ Fits(Setting, First, l) /\ \A x \in ToSet(l) : x.call \in HostVerbs
         /\ Ended(l[Len(l)]) /\ Advances(Head(l)) /\ KeysReady' /\ Head(l) = l[1]
    <3>1. Fits(Setting, First, l) /\ \A x \in ToSet(l) : x.call \in HostVerbs
      BY <1>1, <2>5, <2>9, <2>10, <2>11, NewKeyList
    <3>2. Ended(l[Len(l)])
      BY <1>1, <2>5, <2>9, <2>10, <2>11, NewKeyList
    <3>3. Advances(Head(l)) /\ KeysReady' /\ Head(l) = l[1]
      BY <1>1, <2>5, <2>9, <2>10, <2>11, NewKeyList
    <3> QED BY <3>1, <3>2, <3>3
  <2>13. PICK t : t = Head(l)
    OBVIOUS
  <2>14. t.call = "revoke-keys" /\ t.block = "plain" /\ t.name = First.name /\ Advances(t)
    BY <2>6, <2>9, <2>12, <2>13, Items
  <2>15. HostReady(t)'
    BY <1>1, <1>2, <1>3, <2>14, RevokeReady DEF HostHealthy, adapters
  <2>16. HostReady(Head(l))'
    BY <2>13, <2>15
  <2> QED BY <1>1, <2>5, <2>12, <2>16, HostInsert DEF Ended
<1>5. CASE ~HostAccepts(a)
  <2>1. Abort
    BY <1>2, <1>5 DEF ReplaceKey
  <2> QED BY <1>1, <1>3, <2>1, AbortAtRest
<1> QED BY <1>4, <1>5

LEMMA ExpandGoesWell ==
  ASSUME Active, Expand
  PROVE  GoesWell'
<1>1. CASE EnableHost
  BY <1>1, EnableGoesWell
<1>2. CASE ActivateKey
  BY <1>2, ActivateGoesWell
<1>3. CASE ReplaceKey
  BY <1>3, ReplaceGoesWell
<1>4. CASE Relocate
  BY <1>4, RelocateGoesWell
<1>5. CASE Unforward
  BY <1>5, UnforwardGoesWell
<1> QED BY <1>1, <1>2, <1>3, <1>4, <1>5 DEF Expand

-----------------------------------------------------------------------------
(* The last call of a command *)

\* What the last call finds.
LEMMA LastFound ==
  ASSUME Active, First.call \in Ends
  PROVE  /\ ToSet(op.todo) = {First} /\ Tail(op.todo) = <<>> /\ Steady
         /\ Unique(op.plan) /\ Compatible(op.plan)
         /\ NetRest(op.plan, Target)
<1>1. Ordered(op.todo) /\ op.todo \in Seq(CallType(N_, S_)) /\ op.todo # <<>> /\ First = Head(op.todo)
  BY DEF Active, IInv, TodoOK, First, N_, S_
<1>2. Tail(op.todo) = <<>>
  BY <1>1, TailOrdered
<1>3. ToSet(op.todo) = {First}
  <2>1. ToSet(op.todo) = {First} \cup ToSet(Tail(op.todo))
    BY FirstInMenu
  <2>2. PICK T : T = Tail(op.todo)
    OBVIOUS
  <2>3. T \in Seq(CallRecord)
    BY <2>2, TodoFacts DEF Active
  <2>4. Len(T) = 0 /\ ToSet(T) = {T[i] : i \in 1..Len(T)}
    <3>1. T = <<>> <=> Len(T) = 0
      BY <2>3, ListMembers
    <3>2. ToSet(T) = {T[i] : i \in 1..Len(T)}
      BY <2>3, ListMembers
    <3> QED BY <1>2, <2>2, <3>1, <3>2
  <2>5. ToSet(T) = {}
    BY <2>4
  <2> QED BY <1>2, <2>1, <2>2, <2>5
<1>4. PlanReady /\ NetReady
  BY DEF Active, UnderWay
<1>5. Unique(op.plan) /\ Compatible(op.plan)
  BY <1>4 DEF PlanReady, MayRefuse, Ends
<1>6. \A m : ~Awaits(m) /\ ~InUnit(m)
  BY <1>3 DEF Awaits, Begins, InUnit, Ends, UnitVerbs, RelocationCalls
<1>7. \A p : \A x \in ToSet(op.todo) : ~Removes(x, p)
  BY <1>3 DEF Removes, Ends
<1>8. NetRest(op.plan, Target)
  BY <1>4, <1>6, <1>7 DEF NetReady, NetRest, Target
<1>9. Steady
  BY SteadyNow DEF Ends, Restoring, Forwards
<1> QED BY <1>2, <1>3, <1>5, <1>8, <1>9

\* The host's daemon belongs to what the command leaves.
LEMMA SavedHost ==
  ASSUME Active, First.call = "save"
  PROVE  /\ \A n \in SshOf(op.plan) : HostHealthy(op.plan[n].account)
         /\ SshOf(op.plan) = {} => ~HostEnabled
<1>1. op.cmd.do \in Everything \cup {"publish", "remove"}
  BY FirstInMenu, MenuFacts DEF Setting
<1>2. HostReady(First) /\ Good(op.plan) /\ Good(inventory) /\ PlanOK
  BY DEF Active, UnderWay, IInv, CommandOK, JInv
<1>3. Unique(op.plan)
  BY LastFound DEF Ends
<1>4. CASE HostIdle
  <2>1. HostRest
    BY <1>2, <1>4 DEF HostReady
  <2>2. SshOf(op.plan) = SshOf(inventory) /\ \A n \in SshOf(op.plan) : op.plan[n] = inventory[n]
    <3>1. CASE op.cmd.do \in Everything
      BY <3>1, OtherPlans DEF Everything
    <3>2. CASE op.cmd.do = "publish" /\ ~PublishesSsh
      <4>1. /\ op.cmd.name \in Name /\ op.plan[op.cmd.name] = op.cmd.wish /\ op.cmd.wish.protocol # "ssh"
            /\ \A n \in Name \ {op.cmd.name} : op.plan[n] = inventory[n]
            /\ SameSlot(op.cmd.name, op.cmd.wish)
        BY <3>2, PublishFacts DEF PublishesSsh
      <4> QED BY <4>1 DEF SshOf, Of, SameSlot
    <3>3. CASE op.cmd.do = "remove" /\ op.cmd.name \notin SshOf(inventory)
      <4>1. /\ op.cmd.name \in Name /\ op.plan[op.cmd.name] = Absent
            /\ \A n \in Name \ {op.cmd.name} : op.plan[n] = inventory[n]
        BY <3>3, RemoveFacts
      <4> QED BY <3>3, <4>1 DEF SshOf, Of
    <3> QED BY <1>1, <1>4, <3>1, <3>2, <3>3 DEF HostIdle, Everything
  <2> QED BY <2>1, <2>2 DEF HostRest
<1>5. CASE PublishesSsh
  <2>1. HostHealthy(op.cmd.wish.account)
    BY <1>2, <1>5 DEF HostReady
  <2>2. /\ op.cmd.name \in Name /\ op.plan[op.cmd.name] = op.cmd.wish /\ op.cmd.wish.protocol = "ssh"
        /\ op.cmd.wish # Absent
    BY <1>5, PublishFacts DEF PublishesSsh
  <2>3. op.cmd.name \in SshOf(op.plan)
    BY <2>2 DEF SshOf, Of
  <2>4. \A n \in SshOf(op.plan) : n = op.cmd.name
    BY <1>2, <1>3, <2>3 DEF Unique, SlotFree, SshOf, Of, Good, IsStream
  <2> QED BY <2>1, <2>2, <2>3, <2>4
<1>6. CASE op.cmd.do = "remove" /\ op.cmd.name \in SshOf(inventory)
  <2>1. ~HostIdle
    BY <1>6 DEF HostIdle, Everything
  <2>2. host.disabled
    BY <1>2, <1>6, <2>1 DEF HostReady
  <2>3. /\ op.plan[op.cmd.name] = Absent
        /\ \A n \in Name \ {op.cmd.name} : op.plan[n] = inventory[n]
    BY <1>6, RemoveFacts
  <2>4. \A n \in SshOf(inventory) : n = op.cmd.name
    BY <1>6, SshIsOne
  <2>5. SshOf(op.plan) = {}
    BY <2>3, <2>4 DEF SshOf, Of
  <2> QED BY <2>2, <2>5 DEF HostEnabled
<1> QED BY <1>1, <1>4, <1>5, <1>6 DEF HostIdle

LEMMA SaveGoesWell ==
  ASSUME Active, Save
  PROVE  GoesWell'
<1>1. /\ First.call = "save" /\ inventory' = op.plan /\ domain' = First.to /\ Continue
      /\ UNCHANGED <<host, proxy, gateway, dns, routes>>
  BY DEF Save, On, adapters
<1>2. /\ First.to = Target
  BY <1>1, FirstInMenu, MenuFacts DEF Target
<1>3. op.late = FALSE /\ op'.todo = Tail(op.todo) /\ op'.late = op.late /\ Sound
  <2>1. op \in OpType
    BY DEF Active, IInv, CommandOK
  <2> QED BY <1>1, <2>1 DEF Continue, OpType, Active, Sound
<1>4. /\ op'.todo = <<>> /\ Steady /\ Unique(op.plan) /\ Compatible(op.plan) /\ NetRest(op.plan, Target)
  BY <1>1, <1>3, LastFound DEF Ends
<1>5. HostRest'
  BY <1>1, SavedHost DEF HostRest, HostHealthy, HostOwned, HostEnabled, SshOf, Of
<1>6. Steady'
  BY <1>1, <1>4 DEF Steady
<1>7. Sound'
  <2>1. Unique(inventory)'
    BY <1>1, <1>4 DEF Unique, SlotFree, Of, IsStream
  <2>2. Compatible(inventory)'
    BY <1>1, <1>4 DEF Compatible, StreamPorts, Streams, Of, IsStream
  <2> QED BY <1>1, <1>3, <2>1, <2>2 DEF Sound
<1>8. NetRest(inventory, domain)'
  <2>1. ASSUME NEW n \in Of(op.plan) PROVE ServedAt(op.plan[n], Target)
    BY <1>4 DEF NetRest
  <2>2. \A n \in Of(inventory') : ServedAt(inventory[n], domain)'
    BY <1>1, <1>2, <2>1 DEF Of, ServedAt, IsStream, Forwarded, GatewayOK
  <2>3. ASSUME NEW p \in Port PROVE proxy.record[p] = Free \/ OwnedIn(op.plan, Target, p)
    BY <1>4 DEF NetRest
  <2>4. \A p \in Port : proxy'.record[p] = Free \/ OwnedIn(inventory, domain, p)'
    BY <1>1, <1>2, <2>3 DEF OwnedIn, Streams, Of, IsStream, Forwarded
  <2> QED BY <2>2, <2>4 DEF NetRest, Of
<1> QED BY <1>4, <1>5, <1>6, <1>7, <1>8 DEF GoesWell, AtRest

LEMMA DeleteGoesWell ==
  ASSUME Active, DeleteProject
  PROVE  GoesWell'
<1>1. /\ First.call = "delete-project" /\ inventory' = [n \in Name |-> Absent] /\ domain' = domain /\ Continue
      /\ proxy' = NoForwarding(proxy.stock) /\ gateway' = NoGateway /\ host' = host
  BY DEF DeleteProject, On
<1>2. op.cmd.do = "uninstall"
  BY <1>1, FirstInMenu, MenuFacts DEF Setting
<1>3. ~op'.late /\ op'.todo = Tail(op.todo)
  <2>1. op \in OpType
    BY DEF Active, IInv, CommandOK
  <2> QED BY <1>1, <2>1 DEF Continue, OpType, Active, Sound
<1>4. op'.todo = <<>>
  BY <1>1, <1>3, LastFound DEF Ends
<1>5. Of(inventory') = {} /\ SshOf(inventory') = {} /\ Streams(inventory') = {} /\ StreamPorts(inventory') = {}
  BY <1>1 DEF Of, SshOf, Streams, StreamPorts
<1>6. ~HostEnabled /\ proxy.stock \in {"ssh", "stopped"}
  <2>1. HostReady(First)
    BY DEF Active, UnderWay
  <2>2. proxy \in ProxyType
    BY WorldFacts
  <2> QED BY <1>1, <1>2, <2>1, <2>2 DEF HostReady, ProxyType
<1>7. HostRest'
  BY <1>1, <1>5, <1>6 DEF HostRest, HostEnabled
<1>8. /\ proxy'.record = [p \in Port |-> Free] /\ proxy'.unit = [p \in Port |-> Free] /\ proxy'.live = {}
      /\ proxy'.admin = proxy.stock /\ proxy'.stock = proxy.stock /\ proxy'.saved = "none" /\ gateway'.ports = {}
  BY <1>1 DEF NoForwarding, NoGateway
<1>9. Sound'
  BY <1>3, <1>5, <1>6, <1>8 DEF Sound, Unique, Compatible
<1>10. NetRest(inventory, domain)' /\ Steady'
  BY <1>5, <1>8 DEF NetRest, Steady
<1> QED BY <1>4, <1>7, <1>9, <1>10 DEF GoesWell, AtRest

LEMMA ProxyCallsGoWell ==
  ASSUME Active, ProxyCalls
  PROVE  GoesWell'
<1>1. CASE \/ OnProxy("save-activity", SaveActivity) \/ OnProxy("stop-admin", StopAdmin)
           \/ OnProxy("start-stock", StartStock) \/ OnProxy("forget-activity", ForgetActivity)
           \/ StartPrivateAdmin
  BY <1>1, AdminsGoWell
<1>2. CASE Restore
  BY <1>2, RestoreGoesWell
<1>3. CASE Install
  BY <1>3, InstallGoesWell
<1>4. CASE RemoveUnits("remove-forwarding")
  BY <1>4, RemoveGoesWell
<1>5. CASE RemoveUnits("undo-units")
  BY <1>5, NothingUndone DEF RemoveUnits, On
<1>6. CASE \/ OnGateway("close-gateway", CloseGateway(PortOf(First)))
           \/ OnGateway("open-gateway", OpenGateway(PortOf(First), Subject(First).tailnet))
           \/ OnGateway("start-gateway", gateway' = [gateway EXCEPT !.up = TRUE])
  BY <1>6, GatewayGoesWell
<1> QED BY <1>1, <1>2, <1>3, <1>4, <1>5, <1>6 DEF ProxyCalls

LEMMA RunGoesWell ==
  ASSUME Active, Run
  PROVE  GoesWell'
<1>1. CASE Checks
  BY <1>1, ChecksGoWell
<1>2. CASE Expand
  BY <1>2, ExpandGoesWell
<1>3. CASE HostCalls
  BY <1>3, HostCallsGoWell
<1>4. CASE ProxyCalls
  BY <1>4, ProxyCallsGoWell
<1>5. CASE NameCalls
  BY <1>5, NamesGoWell
<1>6. CASE Save
  BY <1>6, SaveGoesWell
<1>7. CASE DeleteProject
  BY <1>7, DeleteGoesWell
<1> QED BY <1>1, <1>2, <1>3, <1>4, <1>5, <1>6, <1>7 DEF Run

-----------------------------------------------------------------------------
(* The lists that commands begin with *)

\* Calls that commands begin with make no keys yet.
Card(v) == {t \in Menu(v) : t.call \notin KeyCalls}

\* Calls that rely on none before them.
Opens(t) == /\ t.call \in {"check-slot", "check-host", "unforward", "delete-record", "delete-route", "start-gateway", "save"}
            /\ t.block \in {"plain", "publish", "withdraw"}

\* Lists of calls that may stand anywhere.
Segments(v) == {s \in Seq(Card(v)) : Joined(v, s) /\ (s # <<>> => Opens(Head(s)))}

\* The members of two lists, one after the other.
LEMMA TwoLists ==
  ASSUME NEW C, NEW s \in Seq(C), NEW t \in Seq(C)
  PROVE  /\ s \o t \in Seq(C) /\ Len(s \o t) = Len(s) + Len(t) /\ Len(s) \in Nat /\ Len(t) \in Nat
         /\ DOMAIN (s \o t) = 1..(Len(s) + Len(t)) /\ ToSet(s \o t) = ToSet(s) \cup ToSet(t)
         /\ \A i \in 1..(Len(s) + Len(t)) : (s \o t)[i] = IF i <= Len(s) THEN s[i] ELSE t[i - Len(s)]
<1>1. Len(s) \in Nat /\ Len(t) \in Nat /\ s \o t \in Seq(C) /\ Len(s \o t) = Len(s) + Len(t)
  BY ConcatProperties
<1>2. \A i \in 1..(Len(s) + Len(t)) : (s \o t)[i] = IF i <= Len(s) THEN s[i] ELSE t[i - Len(s)]
  BY ConcatProperties
<1>3. ToSet(s \o t) = ToSet(s) \cup ToSet(t)
  <2>1. Range(s \o t) = Range(s) \cup Range(t)
    BY RangeConcatenation
  <2> QED BY <2>1 DEF ToSet, Range
<1>4. DOMAIN (s \o t) = 1..(Len(s) + Len(t))
  BY <1>1
<1> QED BY <1>1, <1>2, <1>3, <1>4

LEMMA OpensFree ==
  ASSUME NEW s, NEW t, Opens(t)
  PROVE  LedBy(s, t)
BY DEF Opens, LedBy, Leading

LEMMA JoinedThen ==
  ASSUME NEW v, NEW C, NEW s \in Seq(C), NEW t \in Seq(C), Joined(v, s), Joined(v, t), t # <<>> => Opens(Head(t))
  PROVE  Joined(v, s \o t)
<1>1. CASE s = <<>>
  BY <1>1
<1>2. CASE t = <<>>
  <2>1. s \o t = s
    BY <1>2, NothingMore
  <2> QED BY <2>1
<1>3. CASE s # <<>> /\ t # <<>>
  <2>1. /\ Len(s) \in Nat \ {0} /\ Len(t) \in Nat \ {0} /\ Head(t) = t[1]
        /\ DOMAIN s = 1..Len(s) /\ DOMAIN t = 1..Len(t)
    BY <1>3, ListMembers
  <2>2. PICK l : l = s \o t
    OBVIOUS
  <2>3. Len(l) = Len(s) + Len(t) /\ \A i \in 1..(Len(s) + Len(t)) : l[i] = IF i <= Len(s) THEN s[i] ELSE t[i - Len(s)]
    BY <2>2, TwoLists
  <2>4. ASSUME NEW i \in 1..(Len(l) - 1) PROVE Joins(v, l[i], l[i + 1])
    <3>0. i \in Nat /\ Len(s) \in Nat /\ i < Len(s) + Len(t)
      <4>1. Len(l) = Len(s) + Len(t)
        BY <2>3
      <4> QED BY <2>1, <4>1
    <3>1. CASE i < Len(s)
      <4>1. l[i] = s[i] /\ l[i + 1] = s[i + 1] /\ i \in 1..(Len(s) - 1)
        BY <2>1, <2>3, <3>1
      <4> QED BY <4>1 DEF Joined
    <3>2. CASE i = Len(s)
      <4>1. l[i] = s[Len(s)] /\ l[i + 1] = t[1]
        BY <2>1, <2>3, <3>2
      <4>2. ~Leads(v, s[Len(s)]) /\ LedBy(s[Len(s)], t[1])
        BY <1>3, <2>1, OpensFree DEF Joined
      <4> QED BY <4>1, <4>2 DEF Joins
    <3>3. CASE i > Len(s)
      <4>1. PICK j \in Nat : j = i - Len(s)
        BY <3>0, <3>3
      <4>2. j \in 1..(Len(t) - 1) /\ l[i] = t[j] /\ l[i + 1] = t[j + 1]
        BY <2>1, <2>3, <3>3, <4>1
      <4> QED BY <4>2 DEF Joined
    <3> QED BY <3>0, <3>1, <3>2, <3>3
  <2>5. l[Len(l)] = t[Len(t)]
    BY <2>1, <2>3
  <2>6. ~Leads(v, l[Len(l)])
    BY <1>3, <2>5 DEF Joined
  <2> QED BY <2>2, <2>4, <2>6 DEF Joined
<1> QED BY <1>1, <1>2, <1>3

LEMMA EmptySegment ==
  ASSUME NEW v
  PROVE  <<>> \in Segments(v)
BY DEF Segments, Joined

LEMMA SegmentConcat ==
  ASSUME NEW v, NEW s \in Segments(v), NEW t \in Segments(v)
  PROVE  s \o t \in Segments(v)
<1>1. s \in Seq(Card(v)) /\ t \in Seq(Card(v)) /\ s \o t \in Seq(Card(v))
  BY DEF Segments
<1>2. Joined(v, s \o t)
  BY <1>1, JoinedThen DEF Segments
<1>3. s \o t # <<>> => Opens(Head(s \o t))
  <2>1. CASE s = <<>>
    BY <2>1 DEF Segments
  <2>2. CASE s # <<>>
    <3>1. Head(s \o t) = Head(s)
      BY <1>1, <2>2, HeadConcat
    <3> QED BY <2>2, <3>1 DEF Segments
  <2> QED BY <2>1, <2>2
<1> QED BY <1>1, <1>2, <1>3 DEF Segments

\* A chain of calls is such a list.
LEMMA ChainSegment ==
  ASSUME NEW v, NEW l, Chain(v, l), \A x \in ToSet(l) : x \in Card(v), Opens(l[1]), ~Leads(v, l[Len(l)])
  PROVE  l \in Segments(v)
<1>1. l \in Seq(CallRecord) /\ l # <<>>
  BY DEF Chain
<1>2. ToSet(l) = {l[i] : i \in 1..Len(l)} /\ Len(l) \in Nat /\ Head(l) = l[1]
  BY <1>1, ListMembers
<1>3. l \in Seq(Card(v))
  BY <1>1, <1>2
<1>4. Joined(v, l)
  BY DEF Joined, Chain
<1> QED BY <1>2, <1>3, <1>4 DEF Segments

\* Calls about one exposure, as commands begin with them.
LEMMA CallsChain ==
  ASSUME NEW v, NEW calls \in Seq(Verb), calls # <<>>, NEW n \in Name \cup {Absent}, NEW d \in Domain, NEW b \in Block,
         NEW l, l = Calls(calls, n, d, b),
         \A i \in 1..(Len(calls) - 1) : Joins(v, Call(calls[i], n, d, b), Call(calls[i + 1], n, d, b))
  PROVE  /\ Chain(v, l) /\ Len(l) = Len(calls)
         /\ \A i \in 1..Len(calls) : l[i] = Call(calls[i], n, d, b)
         /\ \A x \in ToSet(l) : \E i \in 1..Len(calls) : x = Call(calls[i], n, d, b)
<1>1. Len(calls) \in Nat /\ DOMAIN calls = 1..Len(calls)
  OBVIOUS
<1>2. \A i \in 1..Len(calls) : Call(calls[i], n, d, b) \in CallRecord
  BY DEF Call, CallRecord
<1>3. l = [i \in 1..Len(calls) |-> Call(calls[i], n, d, b)]
  BY <1>1 DEF Calls
<1>4. l \in Seq(CallRecord) /\ Len(l) = Len(calls)
  BY <1>1, <1>2, <1>3
<1>5. \A i \in 1..Len(calls) : l[i] = Call(calls[i], n, d, b)
  BY <1>3
<1>6. l # <<>>
  BY <1>1, <1>4
<1>7. \A i \in 1..(Len(l) - 1) : Joins(v, l[i], l[i + 1])
  BY <1>1, <1>4, <1>5
<1>8. \A x \in ToSet(l) : \E i \in 1..Len(calls) : x = Call(calls[i], n, d, b)
  BY <1>3 DEF ToSet
<1> QED BY <1>4, <1>5, <1>6, <1>7, <1>8 DEF Chain

\* A publication of an exposure of the plan.
Publishes(v, n) ==
  /\ v.cmd.do \in Everything \cup {"publish"} /\ n \in Of(v.plan) /\ TargetOf(v) \in Domain
  /\ v.cmd.do = "publish" => n = v.cmd.name

LEMMA CallFields ==
  ASSUME NEW c \in Verb, NEW n \in Name \cup {Absent}, NEW d \in Domain, NEW b \in Block
  PROVE  /\ Call(c, n, d, b) \in CallRecord /\ Call(c, n, d, b).call = c /\ Call(c, n, d, b).name = n
         /\ Call(c, n, d, b).to = d /\ Call(c, n, d, b).block = b
BY DEF Call, CallRecord

LEMMA UnitItem ==
  ASSUME NEW v, NEW n, Publishes(v, n), NEW c \in (UnitVerbs \cup {"check-slot", "inspect"}) \ RelocationCalls,
         NEW b \in {"publish", "forward"}, NEW t, t = Call(c, n, TargetOf(v), b),
         c = "close-gateway" => b = "forward", c \in StreamVerbs => IsStream(v.plan[n]),
         c \in WebVerbs => ~IsStream(v.plan[n])
  PROVE  t \in Card(v)
<1>1. c \in Verb /\ b \in Block /\ n \in Name \cup {Absent} /\ TargetOf(v) \in Domain /\ n \in Of(v.plan)
  BY DEF UnitVerbs, RelocationCalls, Verb, Block, Publishes, Of
<1>2. t \in CallRecord /\ t.call = c /\ t.name = n /\ t.to = TargetOf(v) /\ t.block = b
  BY <1>1, CallFields
<1>3. StreamIn(v, t) = IsStream(v.plan[n])
  BY <1>1, <1>2 DEF StreamIn, SubjectIn, Of
<1>4. UnitCall(v, t)
  BY <1>1, <1>2 DEF UnitCall, Publishes, UnitBlocks
<1>5. c \notin KeyCalls /\ c \notin {"save", "delete-record", "check-host"}
  BY DEF KeyCalls, UnitVerbs, RelocationCalls
<1>6. v.cmd.do \in {"remove", "publish"} => t.name = v.cmd.name /\ t.to = v.domain
  BY <1>2 DEF Publishes, Everything, TargetOf
<1>7. v.cmd.do \notin {"activate", "replace"}
  BY DEF Publishes, Everything
<1>8. (t.call \in StreamVerbs => StreamIn(v, t)) /\ (t.call \in WebVerbs => ~StreamIn(v, t))
  BY <1>2, <1>3
<1>9. t \in Menu(v)
  BY <1>2, <1>4, <1>5, <1>6, <1>7, <1>8 DEF Menu
<1> QED BY <1>2, <1>5, <1>9 DEF Card

-----------------------------------------------------------------------------
(* The order of a publication *)

\* Calls in Y come after nothing but calls in X.
Down(s, Y, X) == \A i, j \in DOMAIN s : i < j /\ s[j] \in Y => s[i] \in X

LEMMA DownConcat ==
  ASSUME NEW C, NEW s \in Seq(C), NEW t \in Seq(C), NEW X, NEW Y, Down(s, Y, X), Down(t, Y, X),
         (\A x \in ToSet(s) : x \in X) \/ (\A x \in ToSet(t) : x \notin Y)
  PROVE  Down(s \o t, Y, X)
<1>1. PICK l : l = s \o t
  OBVIOUS
<1>2. /\ DOMAIN l = 1..(Len(s) + Len(t)) /\ Len(s) \in Nat /\ Len(t) \in Nat
      /\ \A i \in 1..(Len(s) + Len(t)) : l[i] = IF i <= Len(s) THEN s[i] ELSE t[i - Len(s)]
  BY <1>1, TwoLists
<1>3. /\ DOMAIN s = 1..Len(s) /\ DOMAIN t = 1..Len(t)
      /\ ToSet(s) = {s[i] : i \in 1..Len(s)} /\ ToSet(t) = {t[i] : i \in 1..Len(t)}
  BY ListMembers
<1>4. ASSUME NEW i \in DOMAIN l, NEW j \in DOMAIN l, i < j, l[j] \in Y
      PROVE  l[i] \in X
  <2>1. i \in Nat /\ j \in Nat /\ 1 <= i /\ 1 <= j /\ i <= Len(s) + Len(t) /\ j <= Len(s) + Len(t)
    BY <1>2
  <2>2. CASE j <= Len(s)
    <3>1. i \in DOMAIN s /\ j \in DOMAIN s /\ l[i] = s[i] /\ l[j] = s[j]
      BY <1>2, <1>3, <1>4, <2>1, <2>2
    <3> QED BY <1>4, <3>1 DEF Down
  <2>3. CASE i > Len(s)
    <3>1. PICK p \in Nat : p = i - Len(s)
      BY <1>2, <2>1, <2>3
    <3>2. PICK q \in Nat : q = j - Len(s)
      BY <1>2, <1>4, <2>1, <2>3
    <3>3. p \in DOMAIN t /\ q \in DOMAIN t /\ p < q /\ l[i] = t[p] /\ l[j] = t[q]
      BY <1>2, <1>3, <1>4, <2>1, <2>3, <3>1, <3>2
    <3> QED BY <1>4, <3>3 DEF Down
  <2>4. CASE i <= Len(s) /\ j > Len(s)
    <3>1. i \in 1..Len(s) /\ l[i] = s[i] /\ s[i] \in ToSet(s)
      BY <1>2, <1>3, <2>1, <2>4
    <3>2. PICK q \in Nat : q = j - Len(s)
      BY <1>2, <2>1, <2>4
    <3>3. q \in 1..Len(t) /\ l[j] = t[q] /\ t[q] \in ToSet(t)
      BY <1>2, <1>3, <2>1, <2>4, <3>2
    <3> QED BY <1>4, <3>1, <3>3
  <2> QED BY <1>2, <2>1, <2>2, <2>3, <2>4
<1> QED BY <1>1, <1>4 DEF Down

LEMMA DownTrivial ==
  ASSUME NEW C, NEW s \in Seq(C), NEW X, NEW Y, (\A x \in ToSet(s) : x \in X) \/ (\A x \in ToSet(s) : x \notin Y)
  PROVE  Down(s, Y, X)
<1>1. \A i \in DOMAIN s : s[i] \in ToSet(s)
  BY DEF ToSet
<1> QED BY <1>1 DEF Down

LEMMA DownOne ==
  ASSUME NEW C, NEW x \in C, NEW X, NEW Y
  PROVE  <<x>> \in Seq(C) /\ Down(<<x>>, Y, X) /\ ToSet(<<x>>) = {x} /\ Len(<<x>>) = 1 /\ <<x>>[1] = x /\ <<x>> # <<>>
<1>1. PICK s : s = <<x>>
  OBVIOUS
<1>2. s \in Seq(C) /\ Len(s) = 1 /\ s[1] = x /\ s # <<>>
  BY <1>1
<1>3. DOMAIN s = 1..1 /\ ToSet(s) = {s[i] : i \in 1..1}
  BY <1>2, ListMembers
<1>4. \A i \in 1..1 : i = 1
  OBVIOUS
<1>5. ToSet(s) = {x}
  BY <1>2, <1>3, <1>4
<1>6. Down(s, Y, X)
  BY <1>3, <1>4 DEF Down
<1> QED BY <1>1, <1>2, <1>5, <1>6

\* Calls of a publication that come one after the other.
StreamPair(c, x, d, y) ==
  \/ c = "check-slot" /\ d = "check-forwarding" /\ x = y
  \/ c = "check-forwarding" /\ d = "check-dns" /\ x = y
  \/ c = "check-dns" /\ d = "relocate" /\ x = "publish" /\ y = "publish"
  \/ c = "check-dns" /\ d = "enable-host" /\ x = "plain" /\ y = "plain"
  \/ c = "relocate" /\ d = "close-gateway" /\ y = "forward"
  \/ c = "close-gateway" /\ d = "install" /\ x = "forward" /\ y = "forward"
  \/ c = "install" /\ d = "open-gateway" /\ x = y
  \/ c = "open-gateway" /\ d = "publish-record"
  \/ c = "publish-record" /\ d = "inspect"

WebPair(c, d) ==
  \/ c = "check-slot" /\ d = "check-web"
  \/ c = "check-web" /\ d = "publish-record"
  \/ c = "publish-record" /\ d = "publish-route"
  \/ c = "publish-route" /\ d = "inspect"

LEMMA StreamJoins ==
  ASSUME NEW v, NEW s, NEW t, StreamIn(v, s), s.name = t.name, s.to = t.to,
         StreamPair(s.call, s.block, t.call, t.block)
  PROVE  Joins(v, s, t)
<1>1. /\ s.call \in {"check-slot", "check-forwarding", "check-dns", "relocate", "close-gateway", "install",
                     "open-gateway", "publish-record"}
      /\ t.call \in {"check-forwarding", "check-dns", "relocate", "enable-host", "close-gateway", "install",
                     "open-gateway", "publish-record", "inspect"}
  BY DEF StreamPair
<1>2. NextInUnit(v, s, t)
  BY <1>1 DEF StreamPair, NextInUnit, Forwards
<1>3. NextOnHost(v, s, t)
  BY <1>1 DEF NextOnHost
<1>4. LedBy(s, t)
  BY <1>1 DEF StreamPair, LedBy, Leading
<1>5. Leads(v, s) => t.block = s.block \/ s.call \in {"relocate", "start-private", "open-gateway", "stop-daemon", "write-unit"}
  BY <1>1 DEF StreamPair, Leads, Writing, Cleaning, Forwards
<1> QED BY <1>2, <1>3, <1>4, <1>5 DEF Joins

LEMMA WebJoins ==
  ASSUME NEW v, NEW s, NEW t, ~StreamIn(v, s), s.name = t.name, s.to = t.to, s.block = t.block,
         WebPair(s.call, t.call)
  PROVE  Joins(v, s, t)
<1>1. /\ s.call \in {"check-slot", "check-web", "publish-record", "publish-route"}
      /\ t.call \in {"check-web", "publish-record", "publish-route", "inspect"}
  BY DEF WebPair
<1>2. NextInUnit(v, s, t) \/ ~Leads(v, s)
  BY <1>1 DEF WebPair, NextInUnit, Forwards, Leads, Writing, Cleaning
<1>3. NextOnHost(v, s, t)
  BY <1>1 DEF NextOnHost
<1>4. LedBy(s, t)
  BY <1>1 DEF WebPair, LedBy, Leading
<1> QED BY <1>2, <1>3, <1>4 DEF Joins

-----------------------------------------------------------------------------
(* Publications *)

BeforeSet == {t \in CallRecord : t.call \in BeforeNet}

\* What a publication consists of: it may stand anywhere, begins with a check, and changes nothing before its
\* last check.
Published(v, s, n) ==
  /\ s \in Segments(v) /\ s # <<>> /\ Head(s) = Call("check-slot", n, TargetOf(v), "publish")
  /\ Down(s, BeforeSet, BeforeSet)
  /\ \A x \in ToSet(s) : x.block \in {"publish", "forward"} /\ x.call \notin {"start-gateway", "save"}

\* The calls of one block that come one after the other.
UnitCalls(v, calls, n, b, l) ==
  /\ Chain(v, l) /\ Len(l) = Len(calls)
  /\ \A i \in 1..Len(calls) : l[i] = Call(calls[i], n, TargetOf(v), b)
  /\ \A x \in ToSet(l) : x \in Card(v) /\ x.block = b /\ \E i \in 1..Len(calls) : x.call = calls[i]

LEMMA UnitList ==
  ASSUME NEW v, NEW n, Publishes(v, n), NEW b \in {"publish", "forward"},
         NEW calls \in Seq((UnitVerbs \cup {"check-slot", "inspect"}) \ RelocationCalls), calls # <<>>,
         NEW l, l = Calls(calls, n, TargetOf(v), b),
         \A i \in 1..Len(calls) : /\ calls[i] = "close-gateway" => b = "forward"
                                  /\ calls[i] \in StreamVerbs => IsStream(v.plan[n])
                                  /\ calls[i] \in WebVerbs => ~IsStream(v.plan[n]),
         \A i \in 1..(Len(calls) - 1) : IF IsStream(v.plan[n]) THEN StreamPair(calls[i], b, calls[i + 1], b)
                                        ELSE WebPair(calls[i], calls[i + 1])
  PROVE  UnitCalls(v, calls, n, b, l)
<1>1. n \in Name \cup {Absent} /\ n \in Of(v.plan) /\ TargetOf(v) \in Domain /\ b \in Block
  BY DEF Publishes, Of, Block
<1>2. (UnitVerbs \cup {"check-slot", "inspect"}) \ RelocationCalls \subseteq Verb
  BY DEF UnitVerbs, RelocationCalls, Verb
<1>3. calls \in Seq(Verb) /\ Len(calls) \in Nat
  BY <1>2
<1>4. \A i \in 1..Len(calls) : calls[i] \in (UnitVerbs \cup {"check-slot", "inspect"}) \ RelocationCalls /\ calls[i] \in Verb
  BY <1>2
<1>5. ASSUME NEW i \in 1..Len(calls)
      PROVE  /\ Call(calls[i], n, TargetOf(v), b) \in Card(v)
             /\ Call(calls[i], n, TargetOf(v), b).block = b /\ Call(calls[i], n, TargetOf(v), b).call = calls[i]
  <2>0. PICK c : c = calls[i]
    OBVIOUS
  <2>1. PICK t : t = Call(c, n, TargetOf(v), b)
    OBVIOUS
  <2>2. t \in Card(v)
    BY <1>4, <2>0, <2>1, UnitItem
  <2>3. t.block = b /\ t.call = c
    BY <2>1 DEF Call
  <2> QED BY <2>0, <2>1, <2>2, <2>3
<1>6. ASSUME NEW i \in 1..(Len(calls) - 1)
      PROVE  Joins(v, Call(calls[i], n, TargetOf(v), b), Call(calls[i + 1], n, TargetOf(v), b))
  <2>1. i \in 1..Len(calls) /\ i + 1 \in 1..Len(calls)
    BY <1>3
  <2>2. PICK s, t : s = Call(calls[i], n, TargetOf(v), b) /\ t = Call(calls[i + 1], n, TargetOf(v), b)
    OBVIOUS
  <2>3. /\ s.call = calls[i] /\ s.name = n /\ s.to = TargetOf(v) /\ s.block = b
        /\ t.call = calls[i + 1] /\ t.name = n /\ t.to = TargetOf(v) /\ t.block = b
    BY <1>1, <1>4, <2>1, <2>2, CallFields
  <2>4. StreamIn(v, s) <=> IsStream(v.plan[n])
    BY <1>1, <2>3 DEF StreamIn, SubjectIn, Of
  <2>5. Joins(v, s, t)
    BY <2>3, <2>4, StreamJoins, WebJoins
  <2> QED BY <2>2, <2>5
<1>7. /\ Chain(v, l) /\ Len(l) = Len(calls)
      /\ \A i \in 1..Len(calls) : l[i] = Call(calls[i], n, TargetOf(v), b)
      /\ \A x \in ToSet(l) : \E i \in 1..Len(calls) : x = Call(calls[i], n, TargetOf(v), b)
  <2>1. PICK d : d = TargetOf(v)
    OBVIOUS
  <2>2. d \in Domain /\ l = Calls(calls, n, d, b)
    BY <1>1, <2>1
  <2>3. \A i \in 1..(Len(calls) - 1) : Joins(v, Call(calls[i], n, d, b), Call(calls[i + 1], n, d, b))
    BY <1>6, <2>1
  <2>4. Chain(v, l)
    BY <1>1, <1>3, <2>2, <2>3, CallsChain
  <2>6. l = [i \in 1..Len(calls) |-> Call(calls[i], n, d, b)]
    BY <1>3, <2>2 DEF Calls
  <2>5. Len(l) = Len(calls)
    <3>1. \A i \in 1..Len(calls) : Call(calls[i], n, d, b) \in CallRecord
      BY <1>5, <2>1 DEF Card, Menu
    <3> QED BY <1>3, <2>6, <3>1
  <2>7. \A x \in ToSet(l) : \E i \in 1..Len(calls) : x = Call(calls[i], n, d, b)
    BY <2>6 DEF ToSet
  <2> QED BY <2>1, <2>4, <2>5, <2>6, <2>7
<1>8. \A x \in ToSet(l) : x \in Card(v) /\ x.block = b /\ \E i \in 1..Len(calls) : x.call = calls[i]
  BY <1>5, <1>7
<1> QED BY <1>7, <1>8 DEF UnitCalls

\* Calls of one block about one exposure, from one to another.
Span(v, n, l, b, first, last, C) ==
  /\ Chain(v, l) /\ l[1] = Call(first, n, TargetOf(v), b) /\ l[Len(l)] = Call(last, n, TargetOf(v), b)
  /\ \A x \in ToSet(l) : x \in Card(v) /\ x.block = b /\ x.call \in C

LEMMA SpanOf ==
  ASSUME NEW v, NEW calls, NEW n, NEW b, NEW l, UnitCalls(v, calls, n, b, l), Len(calls) \in Nat \ {0},
         NEW C, \A i \in 1..Len(calls) : calls[i] \in C, NEW first, first = calls[1], NEW last, last = calls[Len(calls)]
  PROVE  Span(v, n, l, b, first, last, C)
<1>1. 1 \in 1..Len(calls) /\ Len(calls) \in 1..Len(calls)
  OBVIOUS
<1>2. l[1] = Call(first, n, TargetOf(v), b) /\ l[Len(l)] = Call(last, n, TargetOf(v), b)
  BY <1>1 DEF UnitCalls
<1> QED BY <1>2 DEF UnitCalls, Span

LEMMA CheckSpan ==
  ASSUME NEW v, NEW n, Publishes(v, n), IsStream(v.plan[n]),
         NEW l, l = Calls(<<"check-slot", "check-forwarding", "check-dns">>, n, TargetOf(v), "publish")
  PROVE  Span(v, n, l, "publish", "check-slot", "check-dns", Checking)
<1>1. PICK calls : calls = <<"check-slot", "check-forwarding", "check-dns">>
  OBVIOUS
<1>2. PICK S : S = (UnitVerbs \cup {"check-slot", "inspect"}) \ RelocationCalls
  OBVIOUS
<1>3. "check-slot" \in S /\ "check-forwarding" \in S /\ "check-dns" \in S
  BY <1>2 DEF UnitVerbs, RelocationCalls
<1>4. calls \in Seq(S) /\ Len(calls) = 3
  BY <1>1, <1>3, Tuples
<1>5. calls[1] = "check-slot" /\ calls[2] = "check-forwarding" /\ calls[3] = "check-dns"
  BY <1>1, <1>3, Tuples
<1>6. calls # <<>>
  BY <1>4, ListMembers
<1>7. (\A i \in 1..Len(calls) : i = 1 \/ i = 2 \/ i = 3) /\ (\A i \in 1..(Len(calls) - 1) : i = 1 \/ i = 2)
  BY <1>4
<1>8. \A i \in 1..Len(calls) : calls[i] \in Checking /\ calls[i] # "close-gateway" /\ calls[i] \notin WebVerbs
  BY <1>5, <1>7 DEF Checking, WebVerbs
<1>9. \A i \in 1..(Len(calls) - 1) : StreamPair(calls[i], "publish", calls[i + 1], "publish")
  <2>1. /\ StreamPair("check-slot", "publish", "check-forwarding", "publish")
        /\ StreamPair("check-forwarding", "publish", "check-dns", "publish")
    BY DEF StreamPair
  <2>2. 1 + 1 = 2 /\ 2 + 1 = 3
    OBVIOUS
  <2> QED BY <1>5, <1>7, <2>1, <2>2
<1>10. UnitCalls(v, calls, n, "publish", l)
  BY <1>1, <1>2, <1>4, <1>6, <1>8, <1>9, UnitList
<1>11. Len(calls) \in Nat \ {0} /\ calls[1] = "check-slot" /\ calls[Len(calls)] = "check-dns"
  BY <1>4, <1>5
<1>12. \A i \in 1..Len(calls) : calls[i] \in Checking
  BY <1>8
<1> QED BY <1>10, <1>11, <1>12, SpanOf

LEMMA RelocateSpan ==
  ASSUME NEW v, NEW n, Publishes(v, n), IsStream(v.plan[n]),
         NEW l, l = <<Call("relocate", n, TargetOf(v), "publish")>>
  PROVE  Span(v, n, l, "publish", "relocate", "relocate", {"relocate"})
<1>1. PICK t : t = Call("relocate", n, TargetOf(v), "publish")
  OBVIOUS
<1>2. t \in Card(v)
  BY <1>1, UnitItem DEF UnitVerbs, RelocationCalls, WebVerbs
<1>3. l \in Seq(CallRecord) /\ ToSet(l) = {t} /\ Len(l) = 1 /\ l[1] = t /\ l # <<>>
  <2>1. t \in CallRecord
    BY <1>2 DEF Card, Menu
  <2> QED BY <1>1, <2>1, DownOne
<1>4. t.block = "publish" /\ t.call = "relocate"
  BY <1>1 DEF Call
<1>5. Chain(v, l)
  BY <1>3 DEF Chain
<1> QED BY <1>1, <1>2, <1>3, <1>4, <1>5 DEF Span

LEMMA ForwardSpan ==
  ASSUME NEW v, NEW n, Publishes(v, n), IsStream(v.plan[n]),
         NEW l, l = Calls(<<"close-gateway", "install", "open-gateway">>, n, TargetOf(v), "forward")
  PROVE  Span(v, n, l, "forward", "close-gateway", "open-gateway", ForwardCalls)
<1>1. PICK calls : calls = <<"close-gateway", "install", "open-gateway">>
  OBVIOUS
<1>2. PICK S : S = (UnitVerbs \cup {"check-slot", "inspect"}) \ RelocationCalls
  OBVIOUS
<1>3. "close-gateway" \in S /\ "install" \in S /\ "open-gateway" \in S
  BY <1>2 DEF UnitVerbs, RelocationCalls
<1>4. calls \in Seq(S) /\ Len(calls) = 3
  BY <1>1, <1>3, Tuples
<1>5. calls[1] = "close-gateway" /\ calls[2] = "install" /\ calls[3] = "open-gateway"
  BY <1>1, <1>3, Tuples
<1>6. calls # <<>>
  BY <1>4, ListMembers
<1>7. (\A i \in 1..Len(calls) : i = 1 \/ i = 2 \/ i = 3) /\ (\A i \in 1..(Len(calls) - 1) : i = 1 \/ i = 2)
  BY <1>4
<1>8. \A i \in 1..Len(calls) : calls[i] \in ForwardCalls /\ calls[i] \notin WebVerbs
  BY <1>5, <1>7 DEF ForwardCalls, WebVerbs
<1>9. \A i \in 1..(Len(calls) - 1) : StreamPair(calls[i], "forward", calls[i + 1], "forward")
  <2>1. /\ StreamPair("close-gateway", "forward", "install", "forward")
        /\ StreamPair("install", "forward", "open-gateway", "forward")
    BY DEF StreamPair
  <2>2. 1 + 1 = 2 /\ 2 + 1 = 3
    OBVIOUS
  <2> QED BY <1>5, <1>7, <2>1, <2>2
<1>10. UnitCalls(v, calls, n, "forward", l)
  BY <1>1, <1>2, <1>4, <1>6, <1>8, <1>9, UnitList
<1>11. Len(calls) \in Nat \ {0} /\ calls[1] = "close-gateway" /\ calls[Len(calls)] = "open-gateway"
  BY <1>4, <1>5
<1>12. \A i \in 1..Len(calls) : calls[i] \in ForwardCalls
  BY <1>8
<1> QED BY <1>10, <1>11, <1>12, SpanOf

LEMMA RecordSpan ==
  ASSUME NEW v, NEW n, Publishes(v, n), IsStream(v.plan[n]),
         NEW l, l = Calls(<<"publish-record", "inspect">>, n, TargetOf(v), "publish")
  PROVE  Span(v, n, l, "publish", "publish-record", "inspect", {"publish-record", "inspect"})
<1>1. PICK calls : calls = <<"publish-record", "inspect">>
  OBVIOUS
<1>2. PICK S : S = (UnitVerbs \cup {"check-slot", "inspect"}) \ RelocationCalls
  OBVIOUS
<1>3. "publish-record" \in S /\ "inspect" \in S
  BY <1>2 DEF UnitVerbs, RelocationCalls
<1>4. calls \in Seq(S) /\ Len(calls) = 2
  BY <1>1, <1>3, Tuples
<1>5. calls[1] = "publish-record" /\ calls[2] = "inspect"
  BY <1>1, <1>3, Tuples
<1>6. calls # <<>>
  BY <1>4, ListMembers
<1>7. (\A i \in 1..Len(calls) : i = 1 \/ i = 2) /\ (\A i \in 1..(Len(calls) - 1) : i = 1)
  BY <1>4
<1>8. \A i \in 1..Len(calls) : calls[i] \in {"publish-record", "inspect"} /\ calls[i] \notin WebVerbs
                               /\ calls[i] # "close-gateway"
  BY <1>5, <1>7 DEF WebVerbs
<1>9. \A i \in 1..(Len(calls) - 1) : StreamPair(calls[i], "publish", calls[i + 1], "publish")
  <2>1. StreamPair("publish-record", "publish", "inspect", "publish")
    BY DEF StreamPair
  <2>2. 1 + 1 = 2
    OBVIOUS
  <2> QED BY <1>5, <1>7, <2>1, <2>2
<1>10. UnitCalls(v, calls, n, "publish", l)
  BY <1>1, <1>2, <1>4, <1>6, <1>8, <1>9, UnitList
<1>11. Len(calls) \in Nat \ {0} /\ calls[1] = "publish-record" /\ calls[Len(calls)] = "inspect"
  BY <1>4, <1>5
<1>12. \A i \in 1..Len(calls) : calls[i] \in {"publish-record", "inspect"}
  BY <1>8
<1> QED BY <1>10, <1>11, <1>12, SpanOf

WebCalls == {"check-slot", "check-web", "publish-record", "publish-route", "inspect"}

LEMMA WebSpan ==
  ASSUME NEW v, NEW n, Publishes(v, n), ~IsStream(v.plan[n]),
         NEW l, l = Calls(<<"check-slot", "check-web", "publish-record", "publish-route", "inspect">>, n, TargetOf(v), "publish")
  PROVE  Span(v, n, l, "publish", "check-slot", "inspect", WebCalls) /\ Down(l, BeforeSet, BeforeSet)
<1>1. PICK calls : calls = <<"check-slot", "check-web", "publish-record", "publish-route", "inspect">>
  OBVIOUS
<1>2. PICK S : S = (UnitVerbs \cup {"check-slot", "inspect"}) \ RelocationCalls
  OBVIOUS
<1>3. "check-slot" \in S /\ "check-web" \in S /\ "publish-record" \in S /\ "publish-route" \in S /\ "inspect" \in S
  BY <1>2 DEF UnitVerbs, RelocationCalls
<1>4. calls \in Seq(S) /\ Len(calls) = 5
  BY <1>1, <1>3, MoreTuples
<1>5. /\ calls[1] = "check-slot" /\ calls[2] = "check-web" /\ calls[3] = "publish-record"
      /\ calls[4] = "publish-route" /\ calls[5] = "inspect"
  BY <1>1, <1>3, MoreTuples
<1>6. calls # <<>>
  BY SMTT(30), <1>4, ListMembers
<1>7. /\ \A i \in 1..Len(calls) : i = 1 \/ i = 2 \/ i = 3 \/ i = 4 \/ i = 5
      /\ \A i \in 1..(Len(calls) - 1) : i = 1 \/ i = 2 \/ i = 3 \/ i = 4
  BY <1>4
<1>8. \A i \in 1..Len(calls) : calls[i] \in WebCalls /\ calls[i] \notin StreamVerbs /\ calls[i] # "close-gateway"
  BY <1>5, <1>7 DEF WebCalls, StreamVerbs
<1>9. \A i \in 1..(Len(calls) - 1) : WebPair(calls[i], calls[i + 1])
  <2>1. /\ WebPair("check-slot", "check-web") /\ WebPair("check-web", "publish-record")
        /\ WebPair("publish-record", "publish-route") /\ WebPair("publish-route", "inspect")
    BY DEF WebPair
  <2>2. 1 + 1 = 2 /\ 2 + 1 = 3 /\ 3 + 1 = 4 /\ 4 + 1 = 5
    OBVIOUS
  <2> QED BY <1>5, <1>7, <2>1, <2>2
<1>10. UnitCalls(v, calls, n, "publish", l)
  BY <1>1, <1>2, <1>4, <1>6, <1>8, <1>9, UnitList
<1>11. Span(v, n, l, "publish", "check-slot", "inspect", WebCalls)
  <2>1. Len(calls) \in Nat \ {0} /\ calls[1] = "check-slot" /\ calls[Len(calls)] = "inspect"
    BY <1>4, <1>5
  <2>2. \A i \in 1..Len(calls) : calls[i] \in WebCalls
    BY <1>8
  <2> QED BY <1>10, <2>1, <2>2, SpanOf
<1>12. DOMAIN l = 1..5 /\ \A i \in 1..5 : l[i].call = calls[i] /\ l[i] \in CallRecord
  <2>1. l \in Seq(CallRecord) /\ Len(l) = 5
    BY <1>4, <1>10 DEF UnitCalls, Chain
  <2>2. \A i \in 1..5 : l[i] = Call(calls[i], n, TargetOf(v), "publish")
    BY <1>4, <1>10 DEF UnitCalls
  <2> QED BY <2>1, <2>2 DEF Call
<1>13. ASSUME NEW i \in DOMAIN l, NEW j \in DOMAIN l, i < j, l[j] \in BeforeSet
       PROVE  l[i] \in BeforeSet
  <2>1. i \in 1..5 /\ j \in 1..5
    BY <1>12, <1>13
  <2>2. l[j].call \in BeforeNet
    BY <1>13 DEF BeforeSet
  <2>3. j \notin {3, 4, 5}
    BY <1>5, <1>12, <2>1, <2>2 DEF BeforeNet, Checking, KeyCalls, Closing, Writing
  <2>4. i = 1
    BY <1>13, <2>1, <2>3
  <2>5. l[i] \in CallRecord /\ l[i].call = "check-slot"
    BY <1>5, <1>12, <2>4
  <2> QED BY <2>5 DEF BeforeSet, BeforeNet, Checking
<1> QED BY <1>11, <1>13 DEF Down

LEMMA SpanJoins ==
  ASSUME NEW v, NEW n, Publishes(v, n), IsStream(v.plan[n]),
         NEW c, NEW x, NEW d, NEW y, StreamPair(c, x, d, y)
  PROVE  Joins(v, Call(c, n, TargetOf(v), x), Call(d, n, TargetOf(v), y))
<1>1. PICK s, t : s = Call(c, n, TargetOf(v), x) /\ t = Call(d, n, TargetOf(v), y)
  OBVIOUS
<1>2. /\ s.call = c /\ s.name = n /\ s.to = TargetOf(v) /\ s.block = x
      /\ t.call = d /\ t.name = n /\ t.to = TargetOf(v) /\ t.block = y
  BY <1>1 DEF Call
<1>3. StreamIn(v, s)
  BY <1>2 DEF StreamIn, SubjectIn, Publishes, Of
<1>4. Joins(v, s, t)
  BY <1>2, <1>3, StreamJoins
<1> QED BY <1>1, <1>4

\* Two spans, of which the second changes something.
LEMMA SpansDown ==
  ASSUME NEW v, NEW s, NEW t, Chain(v, s), Chain(v, t), Down(s, BeforeSet, BeforeSet),
         \A x \in ToSet(t) : x.call \notin BeforeNet
  PROVE  Down(s \o t, BeforeSet, BeforeSet)
<1>1. s \in Seq(CallRecord) /\ t \in Seq(CallRecord)
  BY DEF Chain
<1>2. \A x \in ToSet(t) : x \notin BeforeSet
  BY DEF BeforeSet
<1>3. Down(t, BeforeSet, BeforeSet)
  BY <1>1, <1>2, DownTrivial
<1> QED BY <1>1, <1>2, <1>3, DownConcat

LEMMA StreamPublished ==
  ASSUME NEW v, NEW n, Publishes(v, n), IsStream(v.plan[n])
  PROVE  Published(v, PublishStream(n, TargetOf(v)), n)
<1>1. PICK a : a = Calls(<<"check-slot", "check-forwarding", "check-dns">>, n, TargetOf(v), "publish")
  OBVIOUS
<1>2. PICK r : r = <<Call("relocate", n, TargetOf(v), "publish")>>
  OBVIOUS
<1>3. PICK f : f = Calls(<<"close-gateway", "install", "open-gateway">>, n, TargetOf(v), "forward")
  OBVIOUS
<1>4. PICK e : e = Calls(<<"publish-record", "inspect">>, n, TargetOf(v), "publish")
  OBVIOUS
<1>5. PublishStream(n, TargetOf(v)) = ((a \o r) \o f) \o e
  BY <1>1, <1>2, <1>3, <1>4 DEF PublishStream, CheckStream
<1>6. Span(v, n, a, "publish", "check-slot", "check-dns", Checking)
  BY <1>1, CheckSpan
<1>7. Span(v, n, r, "publish", "relocate", "relocate", {"relocate"})
  BY <1>2, RelocateSpan
<1>8. Span(v, n, f, "forward", "close-gateway", "open-gateway", ForwardCalls)
  BY <1>3, ForwardSpan
<1>9. Span(v, n, e, "publish", "publish-record", "inspect", {"publish-record", "inspect"})
  BY <1>4, RecordSpan
<1>10. /\ Joins(v, a[Len(a)], r[1]) /\ Joins(v, r[Len(r)], f[1]) /\ Joins(v, f[Len(f)], e[1])
  <2>1. /\ StreamPair("check-dns", "publish", "relocate", "publish")
        /\ StreamPair("relocate", "publish", "close-gateway", "forward")
        /\ StreamPair("open-gateway", "forward", "publish-record", "publish")
    BY DEF StreamPair
  <2> QED BY <1>6, <1>7, <1>8, <1>9, <2>1, SpanJoins DEF Span
<1>11. PICK p : p = a \o r
  OBVIOUS
<1>12. Chain(v, p) /\ IsJoin(a, r, p)
  BY <1>6, <1>7, <1>10, <1>11, ChainJoined DEF Span
<1>13. PICK q : q = p \o f
  OBVIOUS
<1>14. Chain(v, q) /\ IsJoin(p, f, q)
  <2>1. Joins(v, p[Len(p)], f[1])
    BY <1>10, <1>12 DEF IsJoin
  <2> QED BY <1>8, <1>12, <1>13, <2>1, ChainJoined DEF Span
<1>15. PICK s : s = q \o e
  OBVIOUS
<1>16. Chain(v, s) /\ IsJoin(q, e, s)
  <2>1. Joins(v, q[Len(q)], e[1])
    BY <1>10, <1>14 DEF IsJoin
  <2> QED BY <1>9, <1>14, <1>15, <2>1, ChainJoined DEF Span
<1>17. ToSet(s) = ((ToSet(a) \cup ToSet(r)) \cup ToSet(f)) \cup ToSet(e)
  BY <1>12, <1>14, <1>16 DEF IsJoin
<1>18. s[1] = Call("check-slot", n, TargetOf(v), "publish")
  BY <1>6, <1>12, <1>14, <1>16 DEF IsJoin, Span
<1>19. s[Len(s)] = Call("inspect", n, TargetOf(v), "publish")
  BY <1>9, <1>16 DEF IsJoin, Span
<1>20. \A x \in ToSet(s) : /\ x \in Card(v) /\ x.block \in {"publish", "forward"}
                           /\ x.call \notin {"start-gateway", "save"}
  BY <1>6, <1>7, <1>8, <1>9, <1>17 DEF Span, Checking, ForwardCalls
<1>21. Down(s, BeforeSet, BeforeSet)
  <2>1. Down(a, BeforeSet, BeforeSet)
    <3>1. a \in Seq(CallRecord)
      BY <1>6 DEF Span, Chain
    <3>2. \A x \in ToSet(a) : x \in BeforeSet
      <4>1. \A x \in ToSet(a) : x \in CallRecord /\ x.call \in Checking
        BY <1>6 DEF Span, Card, Menu
      <4> QED BY <4>1 DEF BeforeSet, BeforeNet
    <3> QED BY <3>1, <3>2, DownTrivial
  <2>2. /\ \A x \in ToSet(r) : x.call \notin BeforeNet
        /\ \A x \in ToSet(f) : x.call \notin BeforeNet
        /\ \A x \in ToSet(e) : x.call \notin BeforeNet
    <3>1. \A c \in {"relocate", "publish-record", "inspect"} \cup ForwardCalls : c \notin BeforeNet
      BY DEF BeforeNet, Checking, KeyCalls, Closing, Writing, ForwardCalls
    <3> QED BY <1>7, <1>8, <1>9, <3>1 DEF Span
  <2>3. Chain(v, a) /\ Chain(v, r) /\ Chain(v, f) /\ Chain(v, e)
    BY <1>6, <1>7, <1>8, <1>9 DEF Span
  <2>4. Down(p, BeforeSet, BeforeSet)
    BY <1>11, <2>1, <2>2, <2>3, SpansDown
  <2>5. Down(q, BeforeSet, BeforeSet)
    BY <1>12, <1>13, <2>2, <2>3, <2>4, SpansDown
  <2> QED BY <1>14, <1>15, <2>2, <2>3, <2>5, SpansDown
<1>22. s \in Segments(v)
  <2>1. Opens(s[1])
    BY <1>18 DEF Call, Opens
  <2>2. ~Leads(v, s[Len(s)])
    BY <1>19 DEF Call, Leads, Forwards, Writing, Cleaning
  <2> QED BY <1>16, <1>20, <2>1, <2>2, ChainSegment
<1>23. s # <<>> /\ Head(s) = s[1]
  <2>1. s \in Seq(CallRecord) /\ s # <<>>
    BY <1>16 DEF Chain
  <2> QED BY <2>1, ListMembers
<1>24. Published(v, s, n)
  BY <1>18, <1>20, <1>21, <1>22, <1>23 DEF Published
<1>25. PublishStream(n, TargetOf(v)) = s
  BY <1>5, <1>11, <1>13, <1>15
<1> QED BY <1>24, <1>25

LEMMA WebPublished ==
  ASSUME NEW v, NEW n, Publishes(v, n), ~IsStream(v.plan[n])
  PROVE  Published(v, PublishWeb(n, TargetOf(v)), n)
<1>1. PICK s : s = PublishWeb(n, TargetOf(v))
  OBVIOUS
<1>2. Span(v, n, s, "publish", "check-slot", "inspect", WebCalls) /\ Down(s, BeforeSet, BeforeSet)
  BY <1>1, WebSpan DEF PublishWeb
<1>3. s \in Segments(v)
  <2>1. Opens(s[1])
    BY <1>2 DEF Call, Opens, Span
  <2>2. ~Leads(v, s[Len(s)])
    BY <1>2 DEF Call, Leads, Forwards, Writing, Cleaning, Span
  <2> QED BY <1>2, <2>1, <2>2, ChainSegment DEF Span
<1>4. s # <<>> /\ Head(s) = s[1]
  <2>1. s \in Seq(CallRecord) /\ s # <<>>
    BY <1>2 DEF Chain, Span
  <2> QED BY <2>1, ListMembers
<1>5. \A x \in ToSet(s) : x.block \in {"publish", "forward"} /\ x.call \notin {"start-gateway", "save"}
  BY <1>2 DEF Span, WebCalls
<1>6. Published(v, s, n)
  BY <1>2, <1>3, <1>4, <1>5 DEF Published, Span
<1> QED BY <1>1, <1>6

\* A publication may stand anywhere.
LEMMA PublicationSegment ==
  ASSUME NEW v, NEW n, Publishes(v, n), NEW x, x = v.plan[n]
  PROVE  Published(v, Publish(x, n, TargetOf(v)), n)
BY StreamPublished, WebPublished DEF Publish

-----------------------------------------------------------------------------
(* Everything is published again, or withdrawn *)

\* Lists with nothing but calls in X.
Within(v, X) == {s \in Segments(v) : ToSet(s) \subseteq X}

LEMMA WithinClosed ==
  ASSUME NEW v, NEW X
  PROVE  /\ Within(v, X) \in SUBSET Seq(Card(v)) /\ <<>> \in Within(v, X)
         /\ \A s, t \in Within(v, X) : s \o t \in Within(v, X)
<1>1. Within(v, X) \in SUBSET Seq(Card(v))
  BY DEF Within, Segments
<1>2. <<>> \in Within(v, X)
  <2>1. PICK e : e = <<>>
    OBVIOUS
  <2>2. e \in Seq(Card(v)) /\ Len(e) = 0
    BY <2>1
  <2>3. ToSet(e) = {}
    <3>1. ToSet(e) = {e[i] : i \in 1..Len(e)}
      BY <2>2, ListMembers
    <3> QED BY <2>2, <3>1
  <2> QED BY <2>1, <2>3, EmptySegment DEF Within
<1>3. ASSUME NEW s \in Within(v, X), NEW t \in Within(v, X)
      PROVE  s \o t \in Within(v, X)
  <2>1. s \in Segments(v) /\ t \in Segments(v) /\ s \in Seq(Card(v)) /\ t \in Seq(Card(v))
    BY DEF Within, Segments
  <2>2. s \o t \in Segments(v)
    BY <2>1, SegmentConcat
  <2>3. ToSet(s \o t) = ToSet(s) \cup ToSet(t)
    BY <2>1, TwoLists
  <2> QED BY <2>2, <2>3 DEF Within
<1> QED BY <1>1, <1>2, <1>3

UnitSet == {t \in CallRecord : t.block \in {"publish", "forward"} /\ t.call \notin {"start-gateway", "save"}}

WithdrawSet == {t \in CallRecord : t.block = "withdraw"}

\* A command that publishes everything again.
Refreshes(v) ==
  /\ v.cmd.do \in Everything /\ v.plan = v.inventory /\ TargetOf(v) \in Domain /\ v.domain \in Domain
  /\ IsFiniteSet(Name)

\* What publishes an exposure again, and checks the host's daemon.
Again(services, n, d) ==
  Publish(services[n], n, d)
    \o (IF services[n].protocol = "ssh" THEN <<Call("check-host", n, d, "publish")>> ELSE <<>>)

LEMMA AgainSegment ==
  ASSUME NEW v, Refreshes(v), NEW n \in Of(v.inventory)
  PROVE  /\ Again(v.inventory, n, TargetOf(v)) \in Within(v, UnitSet)
         /\ \E i \in DOMAIN Again(v.inventory, n, TargetOf(v)) : Begins(Again(v.inventory, n, TargetOf(v))[i], n)
<1>1. Publishes(v, n)
  BY DEF Refreshes, Publishes, Everything
<1>2. PICK p : p = Publish(v.inventory[n], n, TargetOf(v))
  OBVIOUS
<1>3. Published(v, p, n)
  BY <1>1, <1>2, PublicationSegment DEF Refreshes
<1>4. p \in Within(v, UnitSet)
  <2>1. p \in Seq(Card(v)) /\ p \in Segments(v)
    BY <1>3 DEF Published, Segments
  <2>2. ToSet(p) \subseteq Card(v)
    BY <2>1 DEF ToSet
  <2> QED BY <1>3, <2>1, <2>2 DEF Published, Within, UnitSet, Card, Menu
<1>5. PICK t : t = Call("check-host", n, TargetOf(v), "publish")
  OBVIOUS
<1>6. PICK h : h = IF v.inventory[n].protocol = "ssh" THEN <<t>> ELSE <<>>
  OBVIOUS
<1>7. Again(v.inventory, n, TargetOf(v)) = p \o h
  BY <1>2, <1>5, <1>6 DEF Again
<1>8. h \in Within(v, UnitSet)
  <2>1. CASE v.inventory[n].protocol # "ssh"
    BY <1>6, <2>1, WithinClosed
  <2>2. CASE v.inventory[n].protocol = "ssh"
    <3>1. t.call = "check-host" /\ t.name = n /\ t.to = TargetOf(v) /\ t.block = "publish" /\ t \in CallRecord
      BY <1>5 DEF Call, CallRecord, Verb, Block, Refreshes, Of
    <3>2. UnitCall(v, t)
      BY <3>1 DEF UnitCall, Refreshes, UnitBlocks
    <3>3. t \in Menu(v)
      BY <2>2, <3>1, <3>2 DEF Menu, Refreshes, Everything, SshOf, StreamVerbs, WebVerbs
    <3>4. t \in Card(v)
      BY <3>1, <3>3 DEF Card, KeyCalls
    <3>5. /\ h \in Seq(Card(v)) /\ ToSet(h) = {t} /\ Len(h) = 1 /\ h[1] = t /\ h # <<>>
      BY <1>6, <2>2, <3>4, DownOne
    <3>6. h \in Seq(CallRecord)
      BY <1>6, <2>2, <3>1, DownOne
    <3>7. Chain(v, h)
      BY <3>5, <3>6 DEF Chain
    <3>8. Opens(t) /\ ~Leads(v, t)
      BY <3>1 DEF Opens, Leads, Forwards, Writing, Cleaning
    <3>9. h \in Segments(v)
      BY <3>4, <3>5, <3>7, <3>8, ChainSegment
    <3> QED BY <3>1, <3>5, <3>9 DEF Within, UnitSet
  <2> QED BY <2>1, <2>2
<1>9. p \o h \in Within(v, UnitSet)
  BY <1>4, <1>8, WithinClosed
<1>10. \E i \in DOMAIN (p \o h) : Begins((p \o h)[i], n)
  <2>1. p \in Seq(Card(v)) /\ h \in Seq(Card(v)) /\ p # <<>>
    BY <1>3, <1>4, <1>8 DEF Within, Segments, Published
  <2>2. Len(p) \in Nat \ {0} /\ Head(p) = p[1]
    BY <2>1, ListMembers
  <2>3. PICK l : l = p \o h
    OBVIOUS
  <2>4. DOMAIN l = 1..(Len(p) + Len(h)) /\ Len(h) \in Nat
    BY <2>1, <2>3, TwoLists
  <2>5. \A i \in 1..(Len(p) + Len(h)) : l[i] = IF i <= Len(p) THEN p[i] ELSE h[i - Len(p)]
    BY <2>1, <2>3, TwoLists
  <2>6. 1 \in DOMAIN l /\ l[1] = p[1]
    BY <2>2, <2>4, <2>5
  <2>7. Begins(l[1], n)
    BY <1>3, <2>2, <2>6 DEF Published, Begins, Call
  <2> QED BY <2>3, <2>6, <2>7
<1> QED BY <1>7, <1>9, <1>10

LEMMA RepublishSegment ==
  ASSUME NEW v, Refreshes(v), NEW names \in SUBSET Of(v.inventory), IsFiniteSet(names),
         NEW s, s = Republish(v.inventory, names, TargetOf(v))
  PROVE  /\ s \in Within(v, UnitSet)
         /\ \A m \in names : \E i \in DOMAIN s : Begins(s[i], m)
<1> DEFINE k == Cardinality(names)
           f == [i \in 1..k |-> Again(v.inventory, SetToSeq(names)[i], TargetOf(v))]
<1>1. k \in Nat /\ \A i \in 1..k : SetToSeq(names)[i] \in names
  BY Enumeration
<1>2. \A n \in names : Again(v.inventory, n, TargetOf(v)) \in Within(v, UnitSet)
  BY AgainSegment
<1>3. f \in [1..k -> Within(v, UnitSet)]
  <2> HIDE DEF k
  <2> QED BY <1>1, <1>2
<1>4. s = FlattenSeq(f)
  BY DEF Republish, ForAll, Again
<1>5. \A i \in 1..k : f[i] = Again(v.inventory, SetToSeq(names)[i], TargetOf(v))
  OBVIOUS
<1>6. \A m \in names : \E i \in 1..k : SetToSeq(names)[i] = m
  BY EnumerationIsComplete
<1> HIDE DEF f, k
<1>7. /\ Within(v, UnitSet) \in SUBSET Seq(Card(v)) /\ <<>> \in Within(v, UnitSet)
      /\ \A p, q \in Within(v, UnitSet) : p \o q \in Within(v, UnitSet)
  BY WithinClosed
<1>8. s \in Within(v, UnitSet)
  BY <1>1, <1>3, <1>4, <1>7, FlattenClosed
<1>9. ASSUME NEW m \in names PROVE \E i \in DOMAIN s : Begins(s[i], m)
  <2>1. PICK i \in 1..k : SetToSeq(names)[i] = m
    BY <1>6
  <2>2. f[i] = Again(v.inventory, m, TargetOf(v))
    BY <1>5, <2>1
  <2>3. PICK j \in DOMAIN f[i] : Begins(f[i][j], m)
    BY <2>2, AgainSegment
  <2>4. f \in [1..k -> Seq(Card(v))]
    BY <1>3, <1>7
  <2>5. \E x \in DOMAIN FlattenSeq(f) : FlattenSeq(f)[x] = f[i][j]
    <3>1. ASSUME NEW p \in Nat, NEW g \in [1..p -> Seq(Card(v))], NEW l \in 1..p, NEW m1 \in DOMAIN g[l]
          PROVE  \E x \in DOMAIN FlattenSeq(g) : FlattenSeq(g)[x] = g[l][m1]
      <4> DEFINE T == Card(v)
      <4> HIDE DEF T
      <4>1. g \in [1..p -> Seq(T)]
        BY DEF T
      <4> QED BY SMTT(30), <4>1, FlattenMembers
    <3> QED BY <1>1, <2>1, <2>3, <2>4, <3>1
  <2> QED BY <1>4, <2>3, <2>5
<1> QED BY <1>8, <1>9

\* A domain change, which withdraws what the old domain had.
Retires(v) == Refreshes(v) /\ v.cmd.do = "domain" /\ v.inventory = inventory /\ v.domain = domain

LEMMA WithdrawSegment ==
  ASSUME NEW v, Retires(v), NEW n \in Of(inventory), NEW l, l = Withdraw(n)
  PROVE  /\ l \in Within(v, WithdrawSet)
         /\ IsStream(inventory[n]) => \E i \in DOMAIN l : l[i] = Call("unforward", n, domain, "withdraw")
<1>1. PICK last : last = IF IsStream(inventory[n]) THEN "unforward" ELSE "delete-route"
  OBVIOUS
<1>2. PICK calls : calls = <<"delete-record", last>>
  OBVIOUS
<1>3. "delete-record" \in Verb /\ last \in Verb /\ "withdraw" \in Block /\ n \in Name \cup {Absent} /\ domain \in Domain
  BY <1>1 DEF Verb, Block, SoftBlocks, Of, Retires, Refreshes
<1>4. calls \in Seq(Verb) /\ Len(calls) = 2 /\ calls[1] = "delete-record" /\ calls[2] = last
  BY <1>2, <1>3, Tuples
<1>5. calls # <<>>
  BY <1>4, ListMembers
<1>6. (\A i \in 1..Len(calls) : i = 1 \/ i = 2) /\ (\A i \in 1..(Len(calls) - 1) : i = 1)
  BY <1>4
<1>7. l = Calls(calls, n, domain, "withdraw")
  BY <1>1, <1>2 DEF Withdraw
<1>8. ASSUME NEW c \in {"delete-record", last}
      PROVE  Call(c, n, domain, "withdraw") \in Card(v)
  <2>1. PICK t : t = Call(c, n, domain, "withdraw")
    OBVIOUS
  <2>2. t.call = c /\ t.name = n /\ t.to = domain /\ t.block = "withdraw" /\ t \in CallRecord
    BY <1>3, <2>1 DEF Call, CallRecord
  <2>3. c \in {"delete-record", "unforward", "delete-route"}
    BY <1>1
  <2>4. WithdrawCall(v, t)
    BY <2>2, <2>3 DEF WithdrawCall, Withdrawing, Retires
  <2>5. StreamIn(v, t) <=> IsStream(inventory[n])
    BY <2>2 DEF StreamIn, SubjectIn, Retires, Refreshes
  <2>6. (t.call \in StreamVerbs => StreamIn(v, t)) /\ (t.call \in WebVerbs => ~StreamIn(v, t))
    BY <1>1, <2>2, <2>3, <2>5 DEF StreamVerbs, WebVerbs
  <2>7. t \in Menu(v)
    BY <2>2, <2>3, <2>4, <2>6 DEF Menu, Retires
  <2> QED BY <2>1, <2>2, <2>3, <2>7 DEF Card, KeyCalls
<1>9. \A i \in 1..(Len(calls) - 1) : Joins(v, Call(calls[i], n, domain, "withdraw"), Call(calls[i + 1], n, domain, "withdraw"))
  <2>1. PICK s, t : s = Call("delete-record", n, domain, "withdraw") /\ t = Call(last, n, domain, "withdraw")
    OBVIOUS
  <2>2. s.call = "delete-record" /\ t.call \in {"unforward", "delete-route"}
    BY <1>1, <2>1 DEF Call
  <2>3. Joins(v, s, t)
    BY <2>2 DEF Joins, Leads, LedBy, Leading, Forwards, Writing, Cleaning
  <2>4. 1 + 1 = 2
    OBVIOUS
  <2> QED BY <1>4, <1>6, <2>1, <2>3, <2>4
<1>10. Chain(v, l) /\ Len(l) = 2
  <2>1. Chain(v, l)
    BY <1>3, <1>4, <1>5, <1>7, <1>9, CallsChain
  <2>2. l \in Seq(CallRecord) /\ l = [i \in 1..2 |-> Call(calls[i], n, domain, "withdraw")]
    BY <1>4, <1>7, <2>1 DEF Calls, Chain
  <2> QED BY <2>1, <2>2
<1>11. l = [i \in 1..2 |-> Call(calls[i], n, domain, "withdraw")]
  BY <1>4, <1>7 DEF Calls
<1>12. l[1] = Call("delete-record", n, domain, "withdraw") /\ l[2] = Call(last, n, domain, "withdraw") /\ DOMAIN l = 1..2
  BY <1>4, <1>11
<1>13. \A x \in ToSet(l) : x \in Card(v) /\ x.block = "withdraw"
  <2>1. \A x \in ToSet(l) : \E i \in 1..2 : x = Call(calls[i], n, domain, "withdraw")
    BY <1>11 DEF ToSet
  <2>2. \A i \in 1..2 : calls[i] \in {"delete-record", last}
    BY <1>4, <1>6
  <2>3. \A c : Call(c, n, domain, "withdraw").block = "withdraw"
    BY DEF Call
  <2> QED BY <1>8, <2>1, <2>2, <2>3
<1>14. l \in Segments(v)
  <2>1. Opens(l[1])
    BY <1>12 DEF Opens, Call
  <2>2. l[Len(l)].call = last
    BY <1>4, <1>10, <1>12 DEF Call
  <2>3. last \in {"unforward", "delete-route"}
    BY <1>1
  <2>4. ~Leads(v, l[Len(l)])
    BY <2>2, <2>3 DEF Leads, Forwards, Writing, Cleaning
  <2> QED BY <1>10, <1>13, <2>1, <2>4, ChainSegment
<1>15. l \in Within(v, WithdrawSet)
  BY <1>13, <1>14 DEF Within, WithdrawSet, Card, Menu
<1>16. 2 \in DOMAIN l
  BY <1>12
<1> QED BY <1>1, <1>12, <1>15, <1>16

\* A member of a member of a sequence of sequences is in their concatenation.
InFlat(f, i, j) == \E x \in DOMAIN FlattenSeq(f) : FlattenSeq(f)[x] = f[i][j]

LEMMA FlattenHas ==
  ASSUME NEW Q, NEW p \in Nat, NEW g \in [1..p -> Seq(Q)], NEW l \in 1..p, NEW j \in DOMAIN g[l]
  PROVE  InFlat(g, l, j)
<1> DEFINE T == Q
<1> HIDE DEF T
<1>1. g \in [1..p -> Seq(T)]
  BY DEF T
<1>2. \E x \in DOMAIN FlattenSeq(g) : FlattenSeq(g)[x] = g[l][j]
  BY <1>1, FlattenMembers
<1> QED BY <1>2 DEF InFlat

AllWithdrawn == ForAll(Of(inventory), Withdraw)

LEMMA WithdrawAll ==
  ASSUME NEW v, Retires(v), NEW s, s = AllWithdrawn
  PROVE  /\ s \in Within(v, WithdrawSet)
         /\ \A m \in Streams(inventory) : \E i \in DOMAIN s : s[i] = Call("unforward", m, domain, "withdraw")
<1>0. PICK names : names = Of(inventory)
  OBVIOUS
<1> DEFINE k == Cardinality(names)
           f == [i \in 1..k |-> Withdraw(SetToSeq(names)[i])]
<1>1. IsFiniteSet(names)
  BY <1>0, FS_Subset DEF Of, Retires, Refreshes
<1>2. k \in Nat /\ \A i \in 1..k : SetToSeq(names)[i] \in names
  BY <1>1, Enumeration
<1>3. \A n \in names : Withdraw(n) \in Within(v, WithdrawSet)
  BY <1>0, WithdrawSegment
<1>4. f \in [1..k -> Within(v, WithdrawSet)]
  <2> HIDE DEF k
  <2> QED BY <1>2, <1>3
<1>5. s = FlattenSeq(f)
  BY <1>0 DEF ForAll, AllWithdrawn
<1>6. \A i \in 1..k : f[i] = Withdraw(SetToSeq(names)[i])
  OBVIOUS
<1>7. \A m \in names : \E i \in 1..k : SetToSeq(names)[i] = m
  BY <1>1, EnumerationIsComplete
<1> HIDE DEF f, k
<1>8. /\ Within(v, WithdrawSet) \in SUBSET Seq(Card(v)) /\ <<>> \in Within(v, WithdrawSet)
      /\ \A p, q \in Within(v, WithdrawSet) : p \o q \in Within(v, WithdrawSet)
  BY WithinClosed
<1>9. s \in Within(v, WithdrawSet)
  BY <1>2, <1>4, <1>5, <1>8, FlattenClosed
<1>10. ASSUME NEW m \in Streams(inventory) PROVE \E i \in DOMAIN s : s[i] = Call("unforward", m, domain, "withdraw")
  <2>0. m \in names /\ m \in Of(inventory) /\ IsStream(inventory[m])
    BY <1>0 DEF Streams
  <2>1. PICK i \in 1..k : SetToSeq(names)[i] = m
    BY <1>7, <2>0
  <2>2. f[i] = Withdraw(m)
    BY <1>6, <2>1
  <2>3. PICK j \in DOMAIN f[i] : f[i][j] = Call("unforward", m, domain, "withdraw")
    BY <2>0, <2>2, WithdrawSegment
  <2>4. f \in [1..k -> Seq(Card(v))]
    BY <1>4, <1>8
  <2>5. \E x \in DOMAIN FlattenSeq(f) : FlattenSeq(f)[x] = f[i][j]
    <3>1. InFlat(f, i, j)
      BY <1>2, <2>1, <2>3, <2>4, FlattenHas
    <3> QED BY <3>1 DEF InFlat
  <2> QED BY <1>5, <2>3, <2>5
<1> QED BY <1>9, <1>10

-----------------------------------------------------------------------------
(* The lists of commands *)

\* A list that a command can begin with.
Begun(v, l) ==
  /\ l \in Seq(Card(v)) /\ l # <<>> /\ Joined(v, l) /\ Phased(v, l) /\ l[Len(l)].call \in Finals(v)

LEMMA OneSegment ==
  ASSUME NEW v, NEW t \in Card(v), ~Leads(v, t), NEW l, l = <<t>>
  PROVE  /\ l \in Seq(Card(v)) /\ Joined(v, l) /\ l # <<>> /\ Head(l) = t /\ ToSet(l) = {t} /\ Len(l) = 1 /\ l[1] = t
         /\ Opens(t) => l \in Segments(v)
<1>1. l \in Seq(Card(v)) /\ ToSet(l) = {t} /\ Len(l) = 1 /\ l[1] = t /\ l # <<>>
  BY DownOne
<1>2. Head(l) = t
  BY <1>1, ListMembers
<1>3. Joined(v, l)
  BY <1>1 DEF Joined
<1> QED BY <1>1, <1>2, <1>3 DEF Segments

LEMMA JoinMore ==
  ASSUME NEW v, NEW s \in Seq(Card(v)), Joined(v, s), NEW t \in Segments(v), NEW l, l = s \o t
  PROVE  l \in Seq(Card(v)) /\ Joined(v, l) /\ ToSet(l) = ToSet(s) \cup ToSet(t) /\ (s # <<>> => l # <<>> /\ Head(l) = Head(s))
<1>1. t \in Seq(Card(v)) /\ Joined(v, t) /\ (t # <<>> => Opens(Head(t)))
  BY DEF Segments
<1>2. l \in Seq(Card(v)) /\ ToSet(l) = ToSet(s) \cup ToSet(t)
  BY <1>1, TwoLists
<1>3. Joined(v, l)
  BY <1>1, JoinedThen
<1>4. s # <<>> => l # <<>> /\ Head(l) = Head(s)
  <2>1. s # <<>> => l # <<>>
    <3> SUFFICES ASSUME s # <<>> PROVE l # <<>>
      OBVIOUS
    <3>1. Len(s) \in Nat \ {0}
      BY ListMembers
    <3>2. Len(l) = Len(s) + Len(t) /\ Len(t) \in Nat
      BY <1>1, TwoLists
    <3>3. Len(l) # 0
      BY <3>1, <3>2
    <3> QED BY <3>3
  <2> QED BY <1>1, <2>1, HeadConcat
<1> QED BY <1>2, <1>3, <1>4

\* A last call.
LEMMA AppendOne ==
  ASSUME NEW v, NEW s \in Seq(Card(v)), NEW t \in Card(v), NEW e, e = <<t>>, NEW l, l = s \o e
  PROVE  l # <<>> /\ l[Len(l)] = t
<1>1. e \in Seq(Card(v)) /\ Len(e) = 1 /\ e[1] = t
  BY DownOne
<1>2. Len(l) = Len(s) + Len(e) /\ Len(s) \in Nat
  BY <1>1, TwoLists
<1>3. \A i \in 1..(Len(s) + Len(e)) : l[i] = IF i <= Len(s) THEN s[i] ELSE e[i - Len(s)]
  BY <1>1, TwoLists
<1>4. l[Len(s) + 1] = e[1]
  <2>1. (Len(s) + 1) - Len(s) = 1 /\ ~(Len(s) + 1 <= Len(s)) /\ Len(s) + 1 \in 1..(Len(s) + Len(e))
    BY <1>1, <1>2
  <2> QED BY <1>3, <2>1
<1>5. Len(l) # 0 /\ Len(l) = Len(s) + 1
  BY <1>1, <1>2
<1> QED BY <1>1, <1>4, <1>5

\* Every call in X comes before a publication of m.
AheadOf(s, X, m) == \A i \in DOMAIN s : s[i] \in X => Ahead(s, i, m)

LEMMA AheadConcat ==
  ASSUME NEW C, NEW s \in Seq(C), NEW t \in Seq(C), NEW X, NEW m, \A x \in ToSet(t) : x \notin X,
         (\E j \in DOMAIN t : Begins(t[j], m)) \/ AheadOf(s, X, m), NEW l, l = s \o t
  PROVE  AheadOf(l, X, m)
<1>1. /\ DOMAIN l = 1..(Len(s) + Len(t)) /\ Len(s) \in Nat /\ Len(t) \in Nat
      /\ \A i \in 1..(Len(s) + Len(t)) : l[i] = IF i <= Len(s) THEN s[i] ELSE t[i - Len(s)]
  BY TwoLists
<1>2. /\ DOMAIN s = 1..Len(s) /\ DOMAIN t = 1..Len(t)
      /\ ToSet(t) = {t[i] : i \in 1..Len(t)}
  BY ListMembers
<1>3. ASSUME NEW i \in DOMAIN l, l[i] \in X
      PROVE  Ahead(l, i, m)
  <2>1. i \in Nat /\ 1 <= i /\ i <= Len(s) + Len(t)
    BY <1>1
  <2>2. i <= Len(s)
    <3> SUFFICES ASSUME i > Len(s) PROVE FALSE
      BY <1>1, <2>1
    <3>1. PICK p \in Nat : p = i - Len(s)
      BY <1>1, <2>1
    <3>2. p \in 1..Len(t) /\ l[i] = t[p]
      BY <1>1, <2>1, <3>1
    <3>3. t[p] \in ToSet(t)
      BY <1>2, <3>2
    <3> QED BY <1>3, <3>2, <3>3
  <2>3. i \in DOMAIN s /\ l[i] = s[i]
    BY <1>1, <1>2, <2>1, <2>2
  <2>4. CASE \E j \in DOMAIN t : Begins(t[j], m)
    <3>1. PICK j \in DOMAIN t : Begins(t[j], m)
      BY <2>4
    <3>2. PICK q \in Nat : q = Len(s) + j
      BY <1>1, <1>2
    <3>3. q - Len(s) = j /\ q \in DOMAIN l /\ i < q /\ ~(q <= Len(s))
      BY <1>1, <1>2, <2>1, <2>2, <3>2
    <3>4. l[q] = t[j]
      BY <1>1, <3>3
    <3> QED BY <3>1, <3>3, <3>4 DEF Ahead
  <2>5. CASE AheadOf(s, X, m)
    <3>1. PICK j \in DOMAIN s : i < j /\ Begins(s[j], m)
      BY <1>3, <2>3, <2>5 DEF AheadOf, Ahead
    <3>2. j \in DOMAIN l /\ l[j] = s[j]
      BY <1>1, <1>2
    <3> QED BY <3>1, <3>2 DEF Ahead
  <2> QED BY <2>4, <2>5
<1> QED BY <1>3 DEF AheadOf

GatewaySet == {t \in CallRecord : t.call = "start-gateway"}

LEMMA PhasedBy ==
  ASSUME NEW v, NEW l \in Seq(CallRecord), Down(l, WithdrawSet, WithdrawSet),
         \A m \in Of(v.plan) : AheadOf(l, WithdrawSet, m), \A m \in Streams(v.plan) : AheadOf(l, GatewaySet, m)
  PROVE  PhasedNet(v, l)
<1>1. \A i \in DOMAIN l : l[i] \in CallRecord
  OBVIOUS
<1>2. \A i \in DOMAIN l : /\ l[i].block = "withdraw" <=> l[i] \in WithdrawSet
                          /\ l[i].call = "start-gateway" <=> l[i] \in GatewaySet
  BY <1>1 DEF WithdrawSet, GatewaySet
<1>3. \A i, j \in DOMAIN l : i < j /\ l[j].block = "withdraw" => l[i].block = "withdraw"
  BY <1>2 DEF Down
<1>4. \A i \in DOMAIN l : l[i].block = "withdraw" => \A m \in Of(v.plan) : Ahead(l, i, m)
  BY <1>2 DEF AheadOf
<1>5. \A i \in DOMAIN l : l[i].call = "start-gateway" => \A m \in Streams(v.plan) : Ahead(l, i, m)
  BY <1>2 DEF AheadOf
<1> QED BY <1>3, <1>4, <1>5 DEF PhasedNet

\* A list that neither withdraws nor starts the gateway.
LEMMA PhasedQuiet ==
  ASSUME NEW v, NEW l \in Seq(Card(v)), \A x \in ToSet(l) : x.block # "withdraw" /\ x.call # "start-gateway"
  PROVE  PhasedNet(v, l)
<1>1. \A i \in DOMAIN l : l[i] \in ToSet(l)
  BY DEF ToSet
<1> QED BY <1>1 DEF PhasedNet

LEMMA SaveItem ==
  ASSUME NEW v, v.cmd.do \in Everything \cup {"publish", "remove"}, TargetOf(v) \in Domain, NEW n \in Name \cup {Absent},
         v.cmd.do \in {"publish", "remove"} => n = v.cmd.name,
         NEW t, t = Call("save", n, TargetOf(v), "plain"), NEW e, e = <<t>>
  PROVE  /\ t \in Card(v) /\ t.call = "save" /\ t.block = "plain" /\ e \in Segments(v)
         /\ ToSet(e) = {t} /\ t.call \in Finals(v)
<1>1. t.call = "save" /\ t.block = "plain" /\ t.name = n /\ t.to = TargetOf(v) /\ t \in CallRecord
  BY DEF Call, CallRecord, Verb, Nameless, Block
<1>2. BareCall(v, t)
  BY <1>1 DEF BareCall
<1>3. v.cmd.do \in {"publish", "remove"} => TargetOf(v) = v.domain
  BY DEF TargetOf
<1>4. v.cmd.do \notin {"activate", "replace", "uninstall", "prepare"}
  BY DEF Everything
<1>5. t \in Card(v)
  BY <1>1, <1>2, <1>3, <1>4 DEF Menu, Card, KeyCalls, StreamVerbs, WebVerbs
<1>6. Opens(t) /\ ~Leads(v, t)
  BY <1>1 DEF Opens, Leads, Forwards, Writing, Cleaning
<1>7. e \in Segments(v) /\ ToSet(e) = {t}
  BY <1>5, <1>6, OneSegment
<1>8. t.call \in Finals(v)
  BY <1>1, <1>4 DEF Finals
<1> QED BY <1>1, <1>5, <1>7, <1>8

LEMMA RedirectList ==
  ASSUME NEW v, Refreshes(v), v.cmd.do = "redirect", v.inventory = inventory, v.domain = domain,
         NEW l, l = RedirectCalls
  PROVE  Begun(v, l) /\ Opens(Head(l))
<1>1. TargetOf(v) = domain /\ domain \in Domain
  BY DEF TargetOf, Refreshes
<1>2. PICK names : names = Of(inventory)
  OBVIOUS
<1>3. names \in SUBSET Of(v.inventory) /\ IsFiniteSet(names)
  BY <1>2, FS_Subset DEF Of, Refreshes
<1>4. PICK r : r = Republish(v.inventory, names, TargetOf(v))
  OBVIOUS
<1>5. r \in Within(v, UnitSet)
  BY <1>3, <1>4, RepublishSegment
<1>6. PICK t : t = Call("save", Absent, TargetOf(v), "plain")
  OBVIOUS
<1>7. PICK e : e = <<t>>
  OBVIOUS
<1>8. l = r \o e
  BY <1>1, <1>2, <1>4, <1>6, <1>7 DEF RedirectCalls
<1>9. t \in Card(v) /\ t.call = "save" /\ t.block = "plain" /\ e \in Segments(v) /\ ToSet(e) = {t} /\ t.call \in Finals(v)
  <2>1. v.cmd.do \in Everything \cup {"publish", "remove"} /\ Absent \in Name \cup {Absent} /\ TargetOf(v) \in Domain
    BY <1>1 DEF Everything
  <2>2. v.cmd.do \in {"publish", "remove"} => Absent = v.cmd.name
    OBVIOUS
  <2> QED BY <1>6, <1>7, <2>1, <2>2, SaveItem
<1>10. l \in Segments(v)
  BY <1>5, <1>8, <1>9, SegmentConcat DEF Within
<1>11. l \in Seq(Card(v)) /\ Joined(v, l)
  BY <1>10 DEF Segments
<1>12. r \in Seq(Card(v)) /\ e \in Seq(Card(v))
  BY <1>5, <1>9 DEF Within, Segments
<1>13. l # <<>> /\ l[Len(l)] = t
  BY <1>7, <1>8, <1>9, <1>12, AppendOne
<1>14. ToSet(l) = ToSet(r) \cup {t}
  BY <1>8, <1>9, <1>12, TwoLists
<1>15. \A x \in ToSet(l) : x.block # "withdraw" /\ x.call # "start-gateway"
  BY <1>5, <1>9, <1>14 DEF Within, UnitSet
<1>16. PhasedNet(v, l)
  BY <1>11, <1>15, PhasedQuiet
<1>17. Phased(v, l)
  BY <1>16 DEF Phased, PhasedPublication
<1> QED BY <1>9, <1>10, <1>11, <1>13, <1>17 DEF Begun, Segments

LEMMA DomainList ==
  ASSUME NEW v, Retires(v), NEW l, l = DomainCalls(TargetOf(v))
  PROVE  /\ Begun(v, l) /\ Opens(Head(l))
         /\ \A m \in Of(v.plan) : \E i \in DOMAIN l : Begins(l[i], m)
         /\ \A m \in Streams(inventory) : \E i \in DOMAIN l : l[i] = Call("unforward", m, domain, "withdraw")
<1>1. Refreshes(v) /\ TargetOf(v) \in Domain /\ v.inventory = inventory /\ v.plan = inventory /\ v.cmd.do = "domain"
  BY DEF Refreshes, Retires
<1>2. PICK names : names = Of(inventory)
  OBVIOUS
<1>3. names \in SUBSET Of(v.inventory) /\ IsFiniteSet(names)
  BY <1>1, <1>2, FS_Subset DEF Of, Refreshes
<1>4. PICK r : r = Republish(v.inventory, names, TargetOf(v))
  OBVIOUS
<1>5. r \in Within(v, UnitSet) /\ \A m \in names : \E i \in DOMAIN r : Begins(r[i], m)
  BY <1>1, <1>3, <1>4, RepublishSegment
<1>6. PICK w : w = AllWithdrawn
  OBVIOUS
<1>7. w \in Within(v, WithdrawSet)
  BY <1>6, WithdrawAll
<1>8. \A m \in Streams(inventory) : \E i \in DOMAIN w : w[i] = Call("unforward", m, domain, "withdraw")
  BY <1>6, WithdrawAll
<1>9. PICK t : t = Call("save", Absent, TargetOf(v), "plain")
  OBVIOUS
<1>10. PICK e : e = <<t>>
  OBVIOUS
<1>11. PICK p : p = w \o r
  OBVIOUS
<1>12. l = p \o e
  BY <1>1, <1>2, <1>4, <1>6, <1>9, <1>10, <1>11 DEF DomainCalls, AllWithdrawn
<1>13. t \in Card(v) /\ t.call = "save" /\ t.block = "plain" /\ e \in Segments(v) /\ ToSet(e) = {t} /\ t.call \in Finals(v)
  <2>1. v.cmd.do \in Everything \cup {"publish", "remove"} /\ Absent \in Name \cup {Absent} /\ TargetOf(v) \in Domain
    BY <1>1 DEF Everything
  <2>2. v.cmd.do \in {"publish", "remove"} => Absent = v.cmd.name
    BY <1>1
  <2> QED BY <1>9, <1>10, <2>1, <2>2, SaveItem
<1>14. w \in Segments(v) /\ r \in Segments(v) /\ p \in Segments(v)
  BY <1>5, <1>7, <1>11, SegmentConcat DEF Within
<1>15. l \in Segments(v)
  BY <1>12, <1>13, <1>14, SegmentConcat
<1>16. w \in Seq(Card(v)) /\ r \in Seq(Card(v)) /\ p \in Seq(Card(v)) /\ e \in Seq(Card(v)) /\ l \in Seq(Card(v)) /\ Joined(v, l)
  BY <1>13, <1>14, <1>15 DEF Segments
<1>17. l # <<>> /\ l[Len(l)] = t
  BY <1>10, <1>12, <1>13, <1>16, AppendOne
<1>18. ToSet(p) = ToSet(w) \cup ToSet(r) /\ ToSet(l) = ToSet(p) \cup {t}
  <2>1. ToSet(w \o r) = ToSet(w) \cup ToSet(r)
    BY <1>16, TwoLists
  <2>2. ToSet(p \o e) = ToSet(p) \cup ToSet(e)
    BY <1>16, TwoLists
  <2> QED BY <1>11, <1>12, <1>13, <2>1, <2>2
<1>19. (\A x \in ToSet(r) : x \notin WithdrawSet) /\ (\A x \in ToSet(e) : x \notin WithdrawSet) /\ \A x \in ToSet(w) : x \in WithdrawSet
  BY <1>5, <1>7, <1>13 DEF Within, UnitSet, WithdrawSet
<1>20. Down(l, WithdrawSet, WithdrawSet)
  <2>1. Down(w, WithdrawSet, WithdrawSet) /\ Down(r, WithdrawSet, WithdrawSet) /\ Down(e, WithdrawSet, WithdrawSet)
    BY <1>16, <1>19, DownTrivial
  <2>2. Down(p, WithdrawSet, WithdrawSet)
    BY <1>11, <1>16, <1>19, <2>1, DownConcat
  <2> QED BY <1>12, <1>16, <1>19, <2>1, <2>2, DownConcat
<1>21. ASSUME NEW m \in Of(v.plan) PROVE AheadOf(l, WithdrawSet, m) /\ \E i \in DOMAIN l : Begins(l[i], m)
  <2>1. \E i \in DOMAIN r : Begins(r[i], m)
    BY <1>1, <1>2, <1>5
  <2>2. AheadOf(p, WithdrawSet, m)
    BY <1>11, <1>16, <1>19, <2>1, AheadConcat
  <2>3. AheadOf(l, WithdrawSet, m)
    BY <1>12, <1>16, <1>19, <2>2, AheadConcat
  <2>4. \E i \in DOMAIN l : Begins(l[i], m)
    <3>1. PICK i \in DOMAIN r : Begins(r[i], m)
      BY <2>1
    <3>2. r[i] \in ToSet(l)
      BY <1>18 DEF ToSet
    <3> QED BY <3>1, <3>2 DEF ToSet
  <2> QED BY <2>3, <2>4
<1>22. \A m \in Streams(inventory) : \E i \in DOMAIN l : l[i] = Call("unforward", m, domain, "withdraw")
  <2> SUFFICES ASSUME NEW m \in Streams(inventory) PROVE \E i \in DOMAIN l : l[i] = Call("unforward", m, domain, "withdraw")
    OBVIOUS
  <2>1. PICK i \in DOMAIN w : w[i] = Call("unforward", m, domain, "withdraw")
    BY <1>8
  <2>2. w[i] \in ToSet(l)
    BY <1>18 DEF ToSet
  <2> QED BY <2>1, <2>2 DEF ToSet
<1>23. \A m \in Streams(v.plan) : AheadOf(l, GatewaySet, m)
  <2>1. \A x \in ToSet(l) : x \notin GatewaySet
    <3>1. \A x \in ToSet(w) : x.call # "start-gateway"
      <4>1. \A x \in ToSet(w) : x \in Card(v) /\ x.block = "withdraw"
        BY <1>7, <1>16 DEF Within, WithdrawSet, ToSet
      <4> QED BY <1>1, <4>1 DEF Card, Menu, UnitCall, WithdrawCall, BareCall, UnitBlocks, Withdrawing, Restoring
    <3>2. \A x \in ToSet(r) : x.call # "start-gateway"
      BY <1>5 DEF Within, UnitSet
    <3> QED BY <1>13, <1>18, <3>1, <3>2 DEF GatewaySet
  <2>2. \A i \in DOMAIN l : l[i] \in ToSet(l)
    BY DEF ToSet
  <2> QED BY <2>1, <2>2 DEF AheadOf
<1>24. l \in Seq(CallRecord)
  BY <1>16 DEF Card, Menu
<1>25. PhasedNet(v, l)
  BY <1>20, <1>21, <1>23, <1>24, PhasedBy
<1>26. Phased(v, l)
  BY <1>1, <1>25 DEF Phased, PhasedPublication
<1>27. Opens(Head(l))
  BY <1>15, <1>17 DEF Segments
<1> QED BY <1>13, <1>16, <1>17, <1>21, <1>22, <1>26, <1>27 DEF Begun

LEMMA VpnList ==
  ASSUME NEW v, Refreshes(v), v.cmd.do = "vpn", v.inventory = inventory, v.domain = domain,
         NEW l, l = VpnCalls
  PROVE  Begun(v, l) /\ Opens(Head(l))
<1>1. TargetOf(v) = domain /\ domain \in Domain
  BY DEF TargetOf, Refreshes
<1>2. PICK streams : streams = {n \in Of(inventory) : IsStream(inventory[n])}
  OBVIOUS
<1>3. PICK others : others = Of(inventory) \ streams
  OBVIOUS
<1>4. /\ streams \in SUBSET Of(v.inventory) /\ IsFiniteSet(streams)
      /\ others \in SUBSET Of(v.inventory) /\ IsFiniteSet(others)
  BY <1>2, <1>3, FS_Subset DEF Of, Refreshes
<1>5. PICK r : r = Republish(v.inventory, others, TargetOf(v))
  OBVIOUS
<1>6. PICK s : s = Republish(v.inventory, streams, TargetOf(v))
  OBVIOUS
<1>7. r \in Within(v, UnitSet)
  BY <1>4, <1>5, RepublishSegment
<1>8. s \in Within(v, UnitSet) /\ \A m \in streams : \E i \in DOMAIN s : Begins(s[i], m)
  BY <1>4, <1>6, RepublishSegment
<1>9. PICK g : g = Call("start-gateway", Absent, TargetOf(v), "plain")
  OBVIOUS
<1>10. PICK h : h = <<g>>
  OBVIOUS
<1>11. g.call = "start-gateway" /\ g.block = "plain" /\ g \in Card(v) /\ h \in Segments(v) /\ ToSet(h) = {g}
  <2>1. g.call = "start-gateway" /\ g.block = "plain" /\ g.name = Absent /\ g.to = TargetOf(v) /\ g \in CallRecord
    BY <1>1, <1>9 DEF Call, CallRecord, Verb, Nameless, Block
  <2>2. BareCall(v, g)
    BY <2>1 DEF BareCall
  <2>3. g \in Card(v)
    BY <2>1, <2>2 DEF Menu, Card, KeyCalls, StreamVerbs, WebVerbs
  <2>4. Opens(g) /\ ~Leads(v, g)
    BY <2>1 DEF Opens, Leads, Forwards, Writing, Cleaning
  <2>5. h \in Segments(v) /\ ToSet(h) = {g}
    BY <1>10, <2>3, <2>4, OneSegment
  <2> QED BY <2>1, <2>3, <2>5
<1>12. PICK t : t = Call("save", Absent, TargetOf(v), "plain")
  OBVIOUS
<1>13. PICK e : e = <<t>>
  OBVIOUS
<1>14. PICK p : p = r \o h
  OBVIOUS
<1>15. PICK q : q = p \o s
  OBVIOUS
<1>16. l = q \o e
  BY <1>1, <1>2, <1>3, <1>5, <1>6, <1>9, <1>10, <1>12, <1>13, <1>14, <1>15 DEF VpnCalls
<1>17. t \in Card(v) /\ t.call = "save" /\ t.block = "plain" /\ e \in Segments(v) /\ ToSet(e) = {t} /\ t.call \in Finals(v)
  <2>1. v.cmd.do \in Everything \cup {"publish", "remove"} /\ Absent \in Name \cup {Absent} /\ TargetOf(v) \in Domain
    BY <1>1 DEF Everything
  <2>2. v.cmd.do \in {"publish", "remove"} => Absent = v.cmd.name
    OBVIOUS
  <2> QED BY <1>12, <1>13, <2>1, <2>2, SaveItem
<1>18. r \in Segments(v) /\ s \in Segments(v) /\ h \in Segments(v) /\ e \in Segments(v)
  BY <1>7, <1>8, <1>11, <1>17 DEF Within
<1>19. p \in Segments(v)
  BY <1>14, <1>18, SegmentConcat
<1>20. q \in Segments(v)
  BY <1>15, <1>18, <1>19, SegmentConcat
<1>21. l \in Segments(v)
  BY <1>16, <1>18, <1>20, SegmentConcat
<1>22. /\ r \in Seq(Card(v)) /\ s \in Seq(Card(v)) /\ h \in Seq(Card(v)) /\ e \in Seq(Card(v)) /\ p \in Seq(Card(v))
       /\ q \in Seq(Card(v)) /\ l \in Seq(Card(v)) /\ Joined(v, l)
  BY <1>18, <1>19, <1>20, <1>21 DEF Segments
<1>23. l # <<>> /\ l[Len(l)] = t
  BY <1>13, <1>16, <1>17, <1>22, AppendOne
<1>24. /\ ToSet(p) = ToSet(r) \cup {g} /\ ToSet(q) = ToSet(p) \cup ToSet(s) /\ ToSet(l) = ToSet(q) \cup {t}
  <2>1. ToSet(r \o h) = ToSet(r) \cup ToSet(h)
    BY <1>22, TwoLists
  <2>2. ToSet(p \o s) = ToSet(p) \cup ToSet(s)
    BY <1>22, TwoLists
  <2>3. ToSet(q \o e) = ToSet(q) \cup ToSet(e)
    BY <1>22, TwoLists
  <2> QED BY <1>11, <1>14, <1>15, <1>16, <1>17, <2>1, <2>2, <2>3
<1>25. \A x \in ToSet(l) : x \notin WithdrawSet
  BY <1>7, <1>8, <1>11, <1>17, <1>24 DEF Within, UnitSet, WithdrawSet
<1>26. \A i \in DOMAIN l : l[i] \in ToSet(l)
  BY DEF ToSet
<1>27. Down(l, WithdrawSet, WithdrawSet) /\ \A m \in Of(v.plan) : AheadOf(l, WithdrawSet, m)
  BY <1>25, <1>26 DEF Down, AheadOf
<1>28. ASSUME NEW m \in Streams(v.plan) PROVE AheadOf(l, GatewaySet, m)
  <2>1. \E i \in DOMAIN s : Begins(s[i], m)
    BY <1>2, <1>8 DEF Streams, Refreshes
  <2>2. (\A x \in ToSet(s) : x \notin GatewaySet) /\ (\A x \in ToSet(e) : x \notin GatewaySet)
    BY <1>8, <1>17 DEF Within, UnitSet, GatewaySet
  <2>3. AheadOf(q, GatewaySet, m)
    BY <1>15, <1>22, <2>1, <2>2, AheadConcat
  <2> QED BY <1>16, <1>22, <2>2, <2>3, AheadConcat
<1>29. l \in Seq(CallRecord)
  BY <1>22 DEF Card, Menu
<1>30. PhasedNet(v, l)
  BY <1>27, <1>28, <1>29, PhasedBy
<1>31. Phased(v, l)
  BY <1>30 DEF Phased, PhasedPublication
<1>32. Opens(Head(l))
  BY <1>21, <1>23 DEF Segments
<1> QED BY <1>17, <1>22, <1>23, <1>31, <1>32 DEF Begun

\* A command that publishes an exposure.
PublishesOne(v, n) ==
  /\ v.cmd.do = "publish" /\ v.cmd.name = n /\ n \in Of(v.plan) /\ v.plan[n] = v.cmd.wish
  /\ v.domain = domain /\ domain \in Domain

EarlySet == {t \in CallRecord : Early(t)}

EnableSet == {t \in CallRecord : Early(t) \/ t.call = "enable-host"}

LEMMA PlainItem ==
  ASSUME NEW v, NEW n, PublishesOne(v, n), v.cmd.wish.protocol = "ssh",
         NEW c \in Checking \cup {"enable-host"}, NEW t, t = Call(c, n, domain, "plain")
  PROVE  t \in Card(v) /\ t \in BeforeSet /\ t \in EnableSet /\ (c # "enable-host" => t \in EarlySet)
<1>1. t.call = c /\ t.name = n /\ t.to = domain /\ t.block = "plain" /\ t \in CallRecord
  BY DEF Call, CallRecord, Verb, SshCalls, Checking, Block, PublishesOne, Of
<1>2. BareCall(v, t)
  BY <1>1 DEF BareCall, PublishesSshIn, MakesKeys, PublishesOne
<1>3. StreamIn(v, t)
  BY <1>1 DEF StreamIn, SubjectIn, PublishesOne, Of, IsStream
<1>4. t \in Menu(v)
  BY <1>1, <1>2, <1>3 DEF Menu, PublishesOne, Checking, WebVerbs
<1>5. t \in Card(v)
  BY <1>1, <1>4 DEF Card, KeyCalls, Checking
<1> QED BY <1>1, <1>5 DEF BeforeSet, BeforeNet, EnableSet, EarlySet, Early

LEMMA PlainCheck ==
  ASSUME NEW v, NEW n, PublishesOne(v, n), v.cmd.wish.protocol = "ssh",
         NEW l, l = Calls(<<"check-slot", "check-forwarding", "check-dns">>, n, domain, "plain")
  PROVE  /\ Chain(v, l) /\ l[1] = Call("check-slot", n, domain, "plain")
         /\ l[Len(l)] = Call("check-dns", n, domain, "plain")
         /\ \A x \in ToSet(l) : \E c \in Checking : x = Call(c, n, domain, "plain")
<1>1. PICK calls : calls = <<"check-slot", "check-forwarding", "check-dns">>
  OBVIOUS
<1>2. /\ "check-slot" \in Verb /\ "check-forwarding" \in Verb /\ "check-dns" \in Verb /\ "plain" \in Block
      /\ n \in Name \cup {Absent} /\ domain \in Domain
  BY DEF Verb, Block, PublishesOne, Of
<1>4. calls \in Seq(Verb) /\ Len(calls) = 3
  BY <1>1, <1>2, Tuples
<1>5. calls[1] = "check-slot" /\ calls[2] = "check-forwarding" /\ calls[3] = "check-dns"
  BY <1>1, <1>2, Tuples
<1>6. calls # <<>>
  BY SMTT(30), <1>4, ListMembers
<1>7. (\A i \in 1..3 : i = 1 \/ i = 2 \/ i = 3) /\ (\A i \in 1..(Len(calls) - 1) : i = 1 \/ i = 2)
  BY <1>4
<1>8. ASSUME NEW c \in Checking, NEW d \in Checking, StreamPair(c, "plain", d, "plain")
      PROVE  Joins(v, Call(c, n, domain, "plain"), Call(d, n, domain, "plain"))
  <2>1. PICK s, t : s = Call(c, n, domain, "plain") /\ t = Call(d, n, domain, "plain")
    OBVIOUS
  <2>2. /\ s.call = c /\ s.name = n /\ s.to = domain /\ s.block = "plain"
        /\ t.call = d /\ t.name = n /\ t.to = domain /\ t.block = "plain"
    BY <2>1 DEF Call
  <2>3. StreamIn(v, s)
    BY <2>2 DEF StreamIn, SubjectIn, PublishesOne, Of, IsStream
  <2>4. Joins(v, s, t)
    BY <1>8, <2>2, <2>3, StreamJoins
  <2> QED BY <2>1, <2>4
<1>9. \A i \in 1..(Len(calls) - 1) : Joins(v, Call(calls[i], n, domain, "plain"), Call(calls[i + 1], n, domain, "plain"))
  <2>1. /\ StreamPair("check-slot", "plain", "check-forwarding", "plain")
        /\ StreamPair("check-forwarding", "plain", "check-dns", "plain")
    BY DEF StreamPair
  <2>2. 1 + 1 = 2 /\ 2 + 1 = 3
    OBVIOUS
  <2>3. "check-slot" \in Checking /\ "check-forwarding" \in Checking /\ "check-dns" \in Checking
    BY DEF Checking
  <2> QED BY <1>5, <1>7, <1>8, <2>1, <2>2, <2>3
<1>10. l = Calls(calls, n, domain, "plain")
  BY <1>1
<1>11. Chain(v, l)
  BY ZenonT(40), <1>2, <1>4, <1>6, <1>9, <1>10, CallsChain
<1>12. l = [i \in 1..3 |-> Call(calls[i], n, domain, "plain")] /\ l \in Seq(CallRecord)
  BY <1>4, <1>10, <1>11 DEF Calls, Chain
<1>13. Len(l) = 3 /\ l[1] = Call("check-slot", n, domain, "plain") /\ l[3] = Call("check-dns", n, domain, "plain")
  BY <1>5, <1>12
<1>14. \A x \in ToSet(l) : \E c \in Checking : x = Call(c, n, domain, "plain")
  <2>1. \A x \in ToSet(l) : \E i \in 1..3 : x = Call(calls[i], n, domain, "plain")
    BY <1>12 DEF ToSet
  <2>2. \A i \in 1..3 : calls[i] \in Checking
    BY <1>5, <1>7 DEF Checking
  <2> QED BY <2>1, <2>2
<1> QED BY <1>11, <1>13, <1>14

\* What comes before the publication of host SSH.
Prepared(v, s, n) ==
  /\ s \in Segments(v) /\ s # <<>> /\ Head(s) = Call("check-slot", n, domain, "plain")
  /\ Down(s, EnableSet, EarlySet) /\ ToSet(s) \subseteq BeforeSet
  /\ \A x \in ToSet(s) : x.block = "plain"

LEMMA PreparedFirst ==
  ASSUME NEW v, NEW n, PublishesOne(v, n), v.cmd.wish.protocol = "ssh",
         NEW s, s = CheckStream(n, domain, "plain") \o <<Call("enable-host", n, domain, "plain")>>
  PROVE  Prepared(v, s, n)
<1>1. PICK a : a = CheckStream(n, domain, "plain")
  OBVIOUS
<1>2. PICK t : t = Call("enable-host", n, domain, "plain")
  OBVIOUS
<1>3. PICK e : e = <<t>>
  OBVIOUS
<1>4. s = a \o e
  BY <1>1, <1>2, <1>3
<1>5. /\ Chain(v, a) /\ a[1] = Call("check-slot", n, domain, "plain")
      /\ a[Len(a)] = Call("check-dns", n, domain, "plain")
  BY <1>1, PlainCheck DEF CheckStream
<1>6. \A x \in ToSet(a) : \E c \in Checking : x = Call(c, n, domain, "plain")
  BY <1>1, PlainCheck DEF CheckStream
<1>7. \A x \in ToSet(a) : x \in Card(v) /\ x \in BeforeSet /\ x \in EarlySet
  <2>1. \A c \in Checking : LET x == Call(c, n, domain, "plain") IN x \in Card(v) /\ x \in BeforeSet /\ x \in EarlySet
    <3> SUFFICES ASSUME NEW c \in Checking, NEW x, x = Call(c, n, domain, "plain")
                 PROVE  x \in Card(v) /\ x \in BeforeSet /\ x \in EarlySet
      OBVIOUS
    <3>1. c # "enable-host"
      BY DEF Checking
    <3> QED BY <3>1, PlainItem
  <2> QED BY <1>6, <2>1
<1>8. t \in Card(v) /\ t \in BeforeSet /\ t.call = "enable-host" /\ t.name = n /\ t.to = domain /\ t.block = "plain"
  <2>1. t \in Card(v) /\ t \in BeforeSet
    BY <1>2, PlainItem
  <2> QED BY <1>2, <2>1 DEF Call
<1>9. /\ e \in Seq(CallRecord) /\ Down(e, EnableSet, EarlySet) /\ ToSet(e) = {t} /\ Len(e) = 1 /\ e[1] = t /\ e # <<>>
  <2>1. t \in CallRecord
    BY <1>8 DEF Card, Menu
  <2> QED BY <1>3, <2>1, DownOne
<1>10. Chain(v, e)
  BY <1>9 DEF Chain
<1>11. Joins(v, a[Len(a)], e[1])
  <2>1. PICK x : x = a[Len(a)]
    OBVIOUS
  <2>2. x.call = "check-dns" /\ x.name = n /\ x.to = domain /\ x.block = "plain"
    BY <1>5, <2>1 DEF Call
  <2>3. StreamIn(v, x)
    BY <2>2 DEF StreamIn, SubjectIn, PublishesOne, Of, IsStream
  <2>4. StreamPair(x.call, x.block, t.call, t.block)
    BY <1>8, <2>2 DEF StreamPair
  <2>5. Joins(v, x, t)
    BY <1>8, <2>2, <2>3, <2>4, StreamJoins
  <2> QED BY <1>9, <2>1, <2>5
<1>12. Chain(v, s) /\ IsJoin(a, e, s)
  BY <1>4, <1>5, <1>10, <1>11, ChainJoined
<1>13. s[1] = a[1] /\ s[Len(s)] = t /\ ToSet(s) = ToSet(a) \cup {t}
  BY <1>9, <1>12 DEF IsJoin
<1>14. s \in Segments(v)
  <2>1. Opens(s[1])
    BY <1>5, <1>13 DEF Opens, Call
  <2>2. ~Leads(v, s[Len(s)])
    BY <1>8, <1>13 DEF Leads, Forwards, Writing, Cleaning
  <2> QED BY <1>7, <1>8, <1>12, <1>13, <2>1, <2>2, ChainSegment
<1>15. s # <<>> /\ Head(s) = s[1]
  <2>1. s \in Seq(CallRecord) /\ s # <<>>
    BY <1>12 DEF Chain
  <2> QED BY <2>1, ListMembers
<1>16. Down(s, EnableSet, EarlySet)
  <2>1. a \in Seq(CallRecord)
    BY <1>5 DEF Chain
  <2>2. Down(a, EnableSet, EarlySet)
    BY <1>7, <2>1, DownTrivial
  <2> QED BY <1>4, <1>7, <1>9, <2>1, <2>2, DownConcat
<1>17. \A x \in ToSet(s) : x.block = "plain" /\ x \in BeforeSet
  BY <1>6, <1>7, <1>8, <1>13 DEF Call
<1> QED BY <1>5, <1>13, <1>14, <1>15, <1>16, <1>17 DEF Prepared

LEMMA PublishBegun ==
  ASSUME NEW v, NEW n, PublishesOne(v, n), NEW l, l = PublishCalls(n, v.cmd.wish)
  PROVE  /\ Begun(v, l)
         /\ Head(l) = Call("check-slot", n, domain, IF PublishesSshIn(v) THEN "plain" ELSE "publish")
         /\ \E i \in DOMAIN l : Begins(l[i], n)
<1>1. TargetOf(v) = domain /\ domain \in Domain /\ n \in Name /\ v.cmd.do = "publish" /\ n = v.cmd.name
  BY DEF TargetOf, PublishesOne, Of
<1>2. PICK p : p = Publish(v.plan[n], n, TargetOf(v))
  OBVIOUS
<1>3. Published(v, p, n)
  <2>1. Publishes(v, n)
    BY <1>1 DEF Publishes, PublishesOne
  <2> QED BY <1>2, <2>1, PublicationSegment
<1>4. PICK k : k = IF v.cmd.wish.protocol # "ssh" THEN <<>>
                   ELSE CheckStream(n, domain, "plain") \o <<Call("enable-host", n, domain, "plain")>>
  OBVIOUS
<1>5. PICK t : t = Call("save", n, TargetOf(v), "plain")
  OBVIOUS
<1>6. PICK e : e = <<t>>
  OBVIOUS
<1>7. PICK q : q = k \o p
  OBVIOUS
<1>8. l = q \o e
  BY <1>1, <1>2, <1>4, <1>5, <1>6, <1>7 DEF PublishCalls, PublishesOne
<1>9. t \in Card(v) /\ t.call = "save" /\ t.block = "plain" /\ e \in Segments(v) /\ ToSet(e) = {t} /\ t.call \in Finals(v)
  <2>1. v.cmd.do \in Everything \cup {"publish", "remove"} /\ n \in Name \cup {Absent} /\ TargetOf(v) \in Domain
    BY <1>1
  <2>2. v.cmd.do \in {"publish", "remove"} => n = v.cmd.name
    BY <1>1
  <2> QED BY <1>5, <1>6, <2>1, <2>2, SaveItem
<1>10. /\ v.cmd.wish.protocol # "ssh" => k = <<>>
       /\ v.cmd.wish.protocol = "ssh" => Prepared(v, k, n)
  BY <1>4, PreparedFirst
<1>11. k \in Segments(v) /\ p \in Segments(v) /\ e \in Segments(v)
  <2>1. k \in Segments(v)
    BY <1>10, EmptySegment DEF Prepared
  <2> QED BY <1>3, <1>9, <2>1 DEF Published
<1>12. q \in Segments(v)
  BY <1>7, <1>11, SegmentConcat
<1>13. l \in Segments(v)
  BY <1>8, <1>11, <1>12, SegmentConcat
<1>14. /\ k \in Seq(Card(v)) /\ p \in Seq(Card(v)) /\ e \in Seq(Card(v)) /\ q \in Seq(Card(v)) /\ l \in Seq(Card(v))
       /\ Joined(v, l)
  BY <1>11, <1>12, <1>13 DEF Segments
<1>15. l # <<>> /\ l[Len(l)] = t
  BY <1>6, <1>8, <1>9, <1>14, AppendOne
<1>16. ToSet(q) = ToSet(k) \cup ToSet(p) /\ ToSet(l) = ToSet(q) \cup {t}
  <2>1. ToSet(k \o p) = ToSet(k) \cup ToSet(p)
    BY <1>14, TwoLists
  <2>2. ToSet(q \o e) = ToSet(q) \cup ToSet(e)
    BY <1>14, TwoLists
  <2> QED BY <1>7, <1>8, <1>9, <2>1, <2>2
<1>17. p # <<>> /\ Head(p) = Call("check-slot", n, domain, "publish") /\ Head(p) \in ToSet(p)
  <2>1. p # <<>> /\ Head(p) = Call("check-slot", n, domain, "publish")
    BY <1>1, <1>3 DEF Published
  <2> QED BY <1>14, <2>1, ListMembers
<1>18. \E i \in DOMAIN l : Begins(l[i], n)
  <2>1. Head(p) \in ToSet(l)
    BY <1>16, <1>17
  <2>2. Begins(Head(p), n)
    BY <1>17 DEF Begins, Call
  <2> QED BY <2>1, <2>2 DEF ToSet
<1>19. k = <<>> \/ k # <<>>
  OBVIOUS
<1>20. Head(l) = Call("check-slot", n, domain, IF PublishesSshIn(v) THEN "plain" ELSE "publish")
  <2>1. q # <<>> /\ Head(q) = IF k = <<>> THEN Head(p) ELSE Head(k)
    <3>1. CASE k = <<>>
      BY <1>7, <1>14, <1>17, <3>1
    <3>2. CASE k # <<>>
      <4>1. q # <<>> /\ Head(q) = Head(k)
        BY <1>7, <1>11, <1>14, <3>2, JoinMore DEF Segments
      <4> QED BY <3>2, <4>1
    <3> QED BY <3>1, <3>2
  <2>2. Head(l) = Head(q)
    BY <1>8, <1>11, <1>12, <1>14, <2>1, JoinMore DEF Segments
  <2>3. v.cmd.wish.protocol # "ssh" => k = <<>>
    BY <1>10
  <2>4. v.cmd.wish.protocol = "ssh" => k # <<>> /\ Head(k) = Call("check-slot", n, domain, "plain")
    BY <1>10 DEF Prepared
  <2>5. PublishesSshIn(v) <=> v.cmd.wish.protocol = "ssh"
    BY <1>1 DEF PublishesSshIn
  <2> QED BY <1>17, <2>1, <2>2, <2>3, <2>4, <2>5
<1>21. ToSet(k) \subseteq BeforeSet /\ \A x \in ToSet(k) : x.block = "plain"
  <2>1. CASE v.cmd.wish.protocol = "ssh"
    BY <1>10, <2>1 DEF Prepared
  <2>2. CASE v.cmd.wish.protocol # "ssh"
    <3>1. k = <<>>
      BY <1>10, <2>2
    <3>2. DOMAIN k = {}
      BY <3>1
    <3>3. ToSet(k) = {}
      BY <3>2 DEF ToSet
    <3> QED BY <3>3
  <2> QED BY <2>1, <2>2
<1>22. \A x \in ToSet(p) : x.block \in {"publish", "forward"} /\ x.call # "start-gateway"
  BY <1>3 DEF Published
<1>23. \A x \in ToSet(k) : x.call # "start-gateway"
  BY <1>21 DEF BeforeSet, BeforeNet, Checking, KeyCalls, Closing, Writing
<1>24. \A x \in ToSet(l) : x.block # "withdraw" /\ x.call # "start-gateway"
  BY <1>9, <1>16, <1>21, <1>22, <1>23
<1>25. PhasedNet(v, l)
  BY <1>14, <1>24, PhasedQuiet
<1>26. Down(l, BeforeSet, BeforeSet)
  <2>1. Down(k, BeforeSet, BeforeSet)
    BY <1>14, <1>21, DownTrivial
  <2>2. Down(p, BeforeSet, BeforeSet)
    BY <1>3 DEF Published
  <2>3. Down(q, BeforeSet, BeforeSet)
    BY <1>7, <1>14, <1>21, <2>1, <2>2, DownConcat
  <2>4. \A x \in ToSet(e) : x \notin BeforeSet
    BY <1>9 DEF BeforeSet, BeforeNet, Checking, KeyCalls, Closing, Writing
  <2>5. Down(e, BeforeSet, BeforeSet)
    BY <1>14, <2>4, DownTrivial
  <2> QED BY <1>8, <1>14, <2>3, <2>4, <2>5, DownConcat
<1>27. Down(l, EnableSet, EarlySet)
  <2>1. Down(k, EnableSet, EarlySet)
    <3>1. CASE v.cmd.wish.protocol = "ssh"
      BY <1>10, <3>1 DEF Prepared
    <3>2. CASE v.cmd.wish.protocol # "ssh"
      <4>1. DOMAIN k = {}
        BY <1>10, <3>2
      <4> QED BY <4>1 DEF Down
    <3> QED BY <3>1, <3>2
  <2>2. \A x \in ToSet(p) : x \notin EnableSet
    <3>1. \A x \in ToSet(p) : x \in Card(v) /\ x.block \in {"publish", "forward"}
      BY <1>14, <1>22 DEF ToSet
    <3>2. \A x \in Card(v) : x.call = "enable-host" => x.block = "plain"
      BY DEF Card, Menu, UnitCall, WithdrawCall, BareCall, UnitVerbs, RelocationCalls, Withdrawing, Restoring, KeyCalls
    <3> QED BY <3>1, <3>2 DEF EnableSet, Early
  <2>3. \A x \in ToSet(e) : x \notin EnableSet
    BY <1>9 DEF EnableSet, Early, Checking
  <2>4. Down(p, EnableSet, EarlySet) /\ Down(e, EnableSet, EarlySet)
    BY <1>14, <2>2, <2>3, DownTrivial
  <2>5. Down(q, EnableSet, EarlySet)
    BY <1>7, <1>14, <2>1, <2>2, <2>4, DownConcat
  <2> QED BY <1>8, <1>14, <2>3, <2>4, <2>5, DownConcat
<1>28. \A i \in DOMAIN l : l[i] \in CallRecord
  BY <1>14 DEF Card, Menu
<1>29. PhasedPublication(v, l)
  <2>1. \A i, j \in DOMAIN l : i < j => (l[j].call \in BeforeNet => l[i].call \in BeforeNet)
    BY <1>26, <1>28 DEF Down, BeforeSet
  <2>2. \A i, j \in DOMAIN l : i < j => (Early(l[j]) \/ l[j].call = "enable-host" => Early(l[i]))
    BY <1>27, <1>28 DEF Down, EnableSet, EarlySet
  <2> QED BY <2>1, <2>2 DEF PhasedPublication
<1>30. Phased(v, l)
  BY <1>25, <1>29 DEF Phased
<1>31. Begun(v, l)
  BY <1>9, <1>14, <1>15, <1>30 DEF Begun
<1> QED BY <1>18, <1>20, <1>31

\* A command that takes an exposure away.
RemovesOne(v, n) ==
  /\ v.cmd.do = "remove" /\ v.cmd.name = n /\ n \in Of(inventory) /\ v.inventory = inventory /\ v.plan[n] = Absent
  /\ v.domain = domain /\ domain \in Domain

LEMMA RemoveItem ==
  ASSUME NEW v, NEW n, RemovesOne(v, n),
         NEW c \in Closing \cup {"unforward", "delete-record", "delete-route"}, NEW t, t = Call(c, n, domain, "plain"),
         c \in Closing => inventory[n].protocol = "ssh", c = "unforward" => IsStream(inventory[n]),
         c = "delete-route" => ~IsStream(inventory[n]), c = "delete-record" => ~SharesDns(inventory, n, inventory[n])
  PROVE  t \in Card(v) /\ t.call = c /\ t.name = n /\ t.to = domain /\ t.block = "plain"
<1>1. t.call = c /\ t.name = n /\ t.to = domain /\ t.block = "plain" /\ t \in CallRecord
  BY DEF Call, CallRecord, Verb, SshCalls, Nameless, Closing, Block, RemovesOne, Of
<1>2. BareCall(v, t)
  BY <1>1 DEF BareCall, RemovesSsh, RemovesOne, SshOf, Withdrawing
<1>3. StreamIn(v, t) <=> IsStream(inventory[n])
  BY <1>1 DEF StreamIn, SubjectIn, RemovesOne
<1>4. t \in Menu(v)
  BY <1>1, <1>2, <1>3 DEF Menu, RemovesOne, Closing, StreamVerbs, WebVerbs
<1> QED BY <1>1, <1>4 DEF Card, KeyCalls, Closing

LEMMA OptionalSegment ==
  ASSUME NEW v, NEW t, NEW cond \in BOOLEAN, cond => t \in Card(v) /\ Opens(t) /\ ~Leads(v, t),
         NEW s, s = IF cond THEN <<t>> ELSE <<>>
  PROVE  s \in Segments(v) /\ ToSet(s) \subseteq {t} /\ (cond => t \in ToSet(s))
<1>1. CASE cond
  BY <1>1, OneSegment
<1>2. CASE ~cond
  <2>1. s = <<>> /\ DOMAIN s = {}
    BY <1>2
  <2>2. ToSet(s) = {}
    BY <2>1 DEF ToSet
  <2> QED BY <1>2, <2>1, <2>2, EmptySegment
<1> QED BY <1>1, <1>2

\* The calls of a revocation.
LEMMA RevokeChain ==
  ASSUME NEW v, NEW n \in Name \cup {Absent}, NEW d \in Domain, NEW l, l = Revoke(n, d, "plain")
  PROVE  /\ Chain(v, l) /\ l[1] = Call("revoke-keys", n, d, "plain") /\ l[Len(l)] = Call("stop-daemon", n, d, "plain")
         /\ \A x \in ToSet(l) : \E c \in Closing : x = Call(c, n, d, "plain")
<1>1. PICK calls : calls = <<"revoke-keys", "disable-record", "terminate", "stop-daemon">>
  OBVIOUS
<1>2. /\ "revoke-keys" \in Verb /\ "disable-record" \in Verb /\ "terminate" \in Verb /\ "stop-daemon" \in Verb
      /\ "plain" \in Block
  BY DEF Verb, Nameless, Block
<1>3. calls \in Seq(Verb) /\ Len(calls) = 4
  BY <1>1, <1>2, MoreTuples
<1>4. calls[1] = "revoke-keys" /\ calls[2] = "disable-record" /\ calls[3] = "terminate" /\ calls[4] = "stop-daemon"
  BY <1>1, <1>2, MoreTuples
<1>5. calls # <<>>
  BY <1>1
<1>6. (\A i \in 1..4 : i = 1 \/ i = 2 \/ i = 3 \/ i = 4) /\ (\A i \in 1..(Len(calls) - 1) : i = 1 \/ i = 2 \/ i = 3)
  BY <1>3
<1>7. \A c, e \in Closing : /\ c = "revoke-keys" => e = "disable-record"
                            /\ c = "disable-record" => e = "terminate"
                            /\ c = "terminate" => e = "stop-daemon"
                            /\ c # "stop-daemon"
                            => Joins(v, Call(c, n, d, "plain"), Call(e, n, d, "plain"))
  <2> SUFFICES ASSUME NEW c \in Closing, NEW e \in Closing, c = "revoke-keys" => e = "disable-record",
                      c = "disable-record" => e = "terminate", c = "terminate" => e = "stop-daemon",
                      c # "stop-daemon"
               PROVE  Joins(v, Call(c, n, d, "plain"), Call(e, n, d, "plain"))
    OBVIOUS
  <2>1. PICK s, t : s = Call(c, n, d, "plain") /\ t = Call(e, n, d, "plain")
    OBVIOUS
  <2>2. /\ s.call = c /\ s.name = n /\ s.to = d /\ s.block = "plain"
        /\ t.call = e /\ t.name = n /\ t.to = d /\ t.block = "plain"
    BY <2>1 DEF Call
  <2>3. NextInUnit(v, s, t)
    BY <2>2 DEF NextInUnit, Forwards, Closing
  <2>4. NextOnHost(v, s, t)
    BY <2>2 DEF NextOnHost, Closing
  <2>5. LedBy(s, t)
    <3>1. e # "revoke-keys"
      BY DEF Closing
    <3> QED BY <2>2, <3>1 DEF LedBy, Leading, Closing
  <2>6. Joins(v, s, t)
    BY <2>2, <2>3, <2>4, <2>5 DEF Joins
  <2> QED BY <2>1, <2>6
<1>8. \A i \in 1..(Len(calls) - 1) : Joins(v, Call(calls[i], n, d, "plain"), Call(calls[i + 1], n, d, "plain"))
  <2>1. /\ "revoke-keys" \in Closing /\ "disable-record" \in Closing /\ "terminate" \in Closing /\ "stop-daemon" \in Closing
    BY DEF Closing
  <2>2. 1 + 1 = 2 /\ 2 + 1 = 3 /\ 3 + 1 = 4
    OBVIOUS
  <2>3. /\ Joins(v, Call("revoke-keys", n, d, "plain"), Call("disable-record", n, d, "plain"))
        /\ Joins(v, Call("disable-record", n, d, "plain"), Call("terminate", n, d, "plain"))
        /\ Joins(v, Call("terminate", n, d, "plain"), Call("stop-daemon", n, d, "plain"))
    BY <1>7, <2>1
  <2> QED BY <1>4, <1>6, <2>2, <2>3
<1>9. l = Calls(calls, n, d, "plain")
  BY <1>1 DEF Revoke
<1>10. Chain(v, l)
  BY <1>2, <1>3, <1>5, <1>8, <1>9, CallsChain
<1>11. l = [i \in 1..4 |-> Call(calls[i], n, d, "plain")] /\ l \in Seq(CallRecord)
  BY <1>3, <1>9, <1>10 DEF Calls, Chain
<1>12. Len(l) = 4 /\ l[1] = Call("revoke-keys", n, d, "plain") /\ l[4] = Call("stop-daemon", n, d, "plain")
  BY <1>4, <1>11
<1>13. \A x \in ToSet(l) : \E c \in Closing : x = Call(c, n, d, "plain")
  <2>1. \A x \in ToSet(l) : \E i \in 1..4 : x = Call(calls[i], n, d, "plain")
    BY <1>11 DEF ToSet
  <2>2. \A i \in 1..4 : calls[i] \in Closing
    BY <1>4, <1>6 DEF Closing
  <2> QED BY <2>1, <2>2
<1> QED BY <1>10, <1>12, <1>13

\* A list that goes on with another one.
Extension(v, s, t, l) ==
  /\ l \in Seq(Card(v)) /\ Joined(v, l) /\ ToSet(l) = ToSet(s) \cup ToSet(t)
  /\ s # <<>> => l # <<>> /\ Head(l) = Head(s)

LEMMA ExtendList ==
  ASSUME NEW v, NEW s \in Seq(Card(v)), Joined(v, s), NEW t \in Segments(v), NEW l, l = s \o t
  PROVE  Extension(v, s, t, l)
<1>1. t \in Seq(Card(v)) /\ Joined(v, t) /\ (t # <<>> => Opens(Head(t)))
  BY DEF Segments
<1>2. l \in Seq(Card(v)) /\ ToSet(l) = ToSet(s) \cup ToSet(t) /\ Joined(v, l)
  <2>1. s \o t \in Seq(Card(v)) /\ ToSet(s \o t) = ToSet(s) \cup ToSet(t)
    BY <1>1, TwoLists
  <2>2. Joined(v, s \o t)
    BY <1>1, JoinedThen
  <2> QED BY <2>1, <2>2
<1>3. s # <<>> => l # <<>>
  BY JoinMore
<1>4. s # <<>> => Head(l) = Head(s)
  BY JoinMore
<1> QED BY <1>2, <1>3, <1>4 DEF Extension

LEMMA RemoveBegun ==
  ASSUME NEW v, NEW n, RemovesOne(v, n), NEW l, l = RemoveCalls(n)
  PROVE  /\ Begun(v, l)
         /\ IF inventory[n].protocol = "ssh" THEN Head(l).call = "revoke-keys" /\ Head(l).block = "plain"
            ELSE Opens(Head(l))
         /\ IsStream(inventory[n]) => \E i \in DOMAIN l : l[i] = Call("unforward", n, domain, "plain")
<1>1. n \in Name /\ domain \in Domain /\ TargetOf(v) = domain
  BY DEF RemovesOne, Of, TargetOf
<1>2. PICK k : k = IF inventory[n].protocol = "ssh" THEN Revoke(n, domain, "plain") ELSE <<>>
  OBVIOUS
<1>3. PICK tu : tu = Call("unforward", n, domain, "plain")
  OBVIOUS
<1>4. PICK u : u = IF IsStream(inventory[n]) THEN <<tu>> ELSE <<>>
  OBVIOUS
<1>5. PICK td : td = Call("delete-record", n, domain, "plain")
  OBVIOUS
<1>6. PICK d : d = IF ~SharesDns(inventory, n, inventory[n]) THEN <<td>> ELSE <<>>
  OBVIOUS
<1>7. PICK tr : tr = Call("delete-route", n, domain, "plain")
  OBVIOUS
<1>8. PICK r : r = IF ~IsStream(inventory[n]) THEN <<tr>> ELSE <<>>
  OBVIOUS
<1>9. PICK t : t = Call("save", n, TargetOf(v), "plain")
  OBVIOUS
<1>10. PICK e : e = <<t>>
  OBVIOUS
<1>11. l = (((k \o u) \o d) \o r) \o e
  BY <1>1, <1>2, <1>3, <1>4, <1>5, <1>6, <1>7, <1>8, <1>9, <1>10 DEF RemoveCalls
<1>12. k \in Seq(Card(v)) /\ Joined(v, k) /\ \A x \in ToSet(k) : x.block = "plain" /\ x.call # "start-gateway"
  <2>1. CASE inventory[n].protocol = "ssh"
    <3>1. /\ Chain(v, k) /\ k[Len(k)] = Call("stop-daemon", n, domain, "plain")
          /\ \A x \in ToSet(k) : \E c \in Closing : x = Call(c, n, domain, "plain")
      BY <1>1, <1>2, <2>1, RevokeChain
    <3>2. \A x \in ToSet(k) : x \in Card(v) /\ x.block = "plain" /\ x.call \in Closing
      <4>1. \A c \in Closing : c \notin {"unforward", "delete-record", "delete-route"}
        BY DEF Closing
      <4>2. \A c \in Closing : /\ Call(c, n, domain, "plain") \in Card(v) /\ Call(c, n, domain, "plain").block = "plain"
                               /\ Call(c, n, domain, "plain").call = c
        <5> SUFFICES ASSUME NEW c \in Closing, NEW y, y = Call(c, n, domain, "plain")
                     PROVE  y \in Card(v) /\ y.block = "plain" /\ y.call = c
          OBVIOUS
        <5>1. c \in Closing \cup {"unforward", "delete-record", "delete-route"} /\ c # "unforward" /\ c # "delete-record"
              /\ c # "delete-route"
          BY <4>1
        <5> QED BY <2>1, <5>1, RemoveItem
      <4> QED BY <3>1, <4>2
    <3>3. k \in Seq(CallRecord) /\ \A i \in 1..(Len(k) - 1) : Joins(v, k[i], k[i + 1])
      BY <3>1 DEF Chain
    <3>4. k \in Seq(Card(v))
      <4>1. ToSet(k) = {k[i] : i \in 1..Len(k)} /\ Len(k) \in Nat
        BY <3>3, ListMembers
      <4>2. \A i \in 1..Len(k) : k[i] \in Card(v)
        BY <3>2, <4>1
      <4> QED BY <3>3, <4>2
    <3>5. ~Leads(v, k[Len(k)])
      BY <3>1 DEF Call, Leads, Forwards, Writing, Cleaning, RemovesOne
    <3> QED BY <3>2, <3>3, <3>4, <3>5 DEF Joined, Closing
  <2>2. CASE inventory[n].protocol # "ssh"
    <3>1. k = <<>> /\ DOMAIN k = {}
      BY <1>2, <2>2
    <3>2. ToSet(k) = {}
      BY <3>1 DEF ToSet
    <3> QED BY <3>1, <3>2, EmptySegment DEF Segments
  <2> QED BY <2>1, <2>2
<1>13. /\ u \in Segments(v) /\ ToSet(u) \subseteq {tu} /\ (IsStream(inventory[n]) => tu \in ToSet(u))
  <2>1. IsStream(inventory[n]) => tu \in Card(v) /\ tu.call = "unforward" /\ tu.block = "plain"
    BY <1>3, RemoveItem DEF Closing
  <2>2. IsStream(inventory[n]) => Opens(tu) /\ ~Leads(v, tu)
    BY <2>1 DEF Opens, Leads, Forwards, Writing, Cleaning
  <2>3. IsStream(inventory[n]) \in BOOLEAN
    BY DEF IsStream
  <2> QED BY <1>4, <2>1, <2>2, <2>3, OptionalSegment
<1>14. d \in Segments(v) /\ ToSet(d) \subseteq {td}
  <2>0. PICK b : b = ~SharesDns(inventory, n, inventory[n])
    OBVIOUS
  <2>1. b => td \in Card(v) /\ td.call = "delete-record" /\ td.block = "plain"
    <3> SUFFICES ASSUME b PROVE td \in Card(v) /\ td.call = "delete-record" /\ td.block = "plain"
      OBVIOUS
    <3>1. ~SharesDns(inventory, n, inventory[n]) /\ "delete-record" \notin Closing
      BY <2>0 DEF Closing
    <3> QED BY <1>5, <3>1, RemoveItem
  <2>2. b => Opens(td) /\ ~Leads(v, td)
    BY <2>1 DEF Opens, Leads, Forwards, Writing, Cleaning
  <2>3. b \in BOOLEAN
    BY <2>0
  <2>4. d = IF b THEN <<td>> ELSE <<>>
    BY <1>6, <2>0
  <2> QED BY <2>1, <2>2, <2>3, <2>4, OptionalSegment
<1>15. r \in Segments(v) /\ ToSet(r) \subseteq {tr}
  <2>0. PICK b : b = ~IsStream(inventory[n])
    OBVIOUS
  <2>1. b => tr \in Card(v) /\ tr.call = "delete-route" /\ tr.block = "plain"
    <3> SUFFICES ASSUME b PROVE tr \in Card(v) /\ tr.call = "delete-route" /\ tr.block = "plain"
      OBVIOUS
    <3>1. ~IsStream(inventory[n]) /\ "delete-route" \notin Closing
      BY <2>0 DEF Closing
    <3> QED BY <1>7, <3>1, RemoveItem
  <2>2. b => Opens(tr) /\ ~Leads(v, tr)
    BY <2>1 DEF Opens, Leads, Forwards, Writing, Cleaning
  <2>3. b \in BOOLEAN
    BY <2>0
  <2>4. r = IF b THEN <<tr>> ELSE <<>>
    BY <1>8, <2>0
  <2> QED BY <2>1, <2>2, <2>3, <2>4, OptionalSegment
<1>16. t \in Card(v) /\ t.call = "save" /\ t.block = "plain" /\ e \in Segments(v) /\ ToSet(e) = {t} /\ t.call \in Finals(v)
  <2>1. v.cmd.do \in Everything \cup {"publish", "remove"} /\ n \in Name \cup {Absent} /\ TargetOf(v) \in Domain
    BY <1>1 DEF RemovesOne
  <2>2. v.cmd.do \in {"publish", "remove"} => n = v.cmd.name
    BY DEF RemovesOne
  <2> QED BY <1>9, <1>10, <2>1, <2>2, SaveItem
<1>17. PICK l1 : l1 = k \o u
  OBVIOUS
<1>18. PICK l2 : l2 = l1 \o d
  OBVIOUS
<1>19. PICK l3 : l3 = l2 \o r
  OBVIOUS
<1>20. l = l3 \o e
  BY <1>11, <1>17, <1>18, <1>19
<1>21. l1 \in Seq(Card(v)) /\ Joined(v, l1) /\ ToSet(l1) = ToSet(k) \cup ToSet(u) /\ (k # <<>> => l1 # <<>> /\ Head(l1) = Head(k))
  <2>1. Extension(v, k, u, l1)
    BY <1>12, <1>13, <1>17, ExtendList
  <2> QED BY <2>1 DEF Extension
<1>22. l2 \in Seq(Card(v)) /\ Joined(v, l2) /\ ToSet(l2) = ToSet(l1) \cup ToSet(d) /\ (l1 # <<>> => l2 # <<>> /\ Head(l2) = Head(l1))
  <2>1. Extension(v, l1, d, l2)
    BY <1>14, <1>18, <1>21, ExtendList
  <2> QED BY <2>1 DEF Extension
<1>23. l3 \in Seq(Card(v)) /\ Joined(v, l3) /\ ToSet(l3) = ToSet(l2) \cup ToSet(r) /\ (l2 # <<>> => l3 # <<>> /\ Head(l3) = Head(l2))
  <2>1. Extension(v, l2, r, l3)
    BY <1>15, <1>19, <1>22, ExtendList
  <2> QED BY <2>1 DEF Extension
<1>24. l \in Seq(Card(v)) /\ Joined(v, l) /\ ToSet(l) = ToSet(l3) \cup ToSet(e) /\ (l3 # <<>> => l # <<>> /\ Head(l) = Head(l3))
  <2>1. Extension(v, l3, e, l)
    BY <1>16, <1>20, <1>23, ExtendList
  <2> QED BY <2>1 DEF Extension
<1>25. l # <<>> /\ l[Len(l)] = t
  BY <1>10, <1>16, <1>20, <1>23, AppendOne
<1>26. IF inventory[n].protocol = "ssh" THEN Head(l).call = "revoke-keys" /\ Head(l).block = "plain" ELSE Opens(Head(l))
  <2>1. CASE inventory[n].protocol = "ssh"
    <3>1. Chain(v, k) /\ k[1] = Call("revoke-keys", n, domain, "plain")
      BY <1>1, <1>2, <2>1, RevokeChain
    <3>2. k # <<>> /\ Head(k) = k[1]
      <4>1. k \in Seq(CallRecord) /\ k # <<>>
        BY <3>1 DEF Chain
      <4> QED BY <4>1, ListMembers
    <3>3. Head(l) = Call("revoke-keys", n, domain, "plain")
      BY <1>21, <1>22, <1>23, <1>24, <3>1, <3>2
    <3> QED BY <2>1, <3>3 DEF Call
  <2>2. CASE inventory[n].protocol # "ssh"
    <3>1. k = <<>>
      BY <1>2, <2>2
    <3>2. k \in Segments(v)
      BY <3>1, EmptySegment
    <3>3. l1 \in Segments(v)
      BY <1>13, <1>17, <3>2, SegmentConcat
    <3>4. l2 \in Segments(v)
      BY <1>14, <1>18, <3>3, SegmentConcat
    <3>5. l3 \in Segments(v)
      BY <1>15, <1>19, <3>4, SegmentConcat
    <3>6. l \in Segments(v)
      BY <1>16, <1>20, <3>5, SegmentConcat
    <3> QED BY <1>25, <2>2, <3>6 DEF Segments
  <2> QED BY <2>1, <2>2
<1>27. IsStream(inventory[n]) => \E i \in DOMAIN l : l[i] = Call("unforward", n, domain, "plain")
  <2>1. IsStream(inventory[n]) => tu \in ToSet(l)
    BY <1>13, <1>21, <1>22, <1>23, <1>24
  <2> QED BY <1>3, <2>1 DEF ToSet
<1>28. \A x \in ToSet(l) : x.block # "withdraw" /\ x.call # "start-gateway"
  <2>1. /\ tu.block = "plain" /\ tu.call = "unforward" /\ td.block = "plain" /\ td.call = "delete-record"
        /\ tr.block = "plain" /\ tr.call = "delete-route"
    BY <1>3, <1>5, <1>7 DEF Call
  <2>2. ToSet(l) \subseteq ToSet(k) \cup {tu, td, tr, t}
    BY <1>13, <1>14, <1>15, <1>16, <1>21, <1>22, <1>23, <1>24
  <2> QED BY <1>12, <1>16, <2>1, <2>2
<1>29. PhasedNet(v, l)
  BY <1>24, <1>28, PhasedQuiet
<1>30. Phased(v, l)
  BY <1>29 DEF Phased, PhasedPublication, RemovesOne
<1>31. Begun(v, l)
  BY <1>16, <1>24, <1>25, <1>30 DEF Begun
<1> QED BY <1>26, <1>27, <1>31

\* A command of one call.
LEMMA SingleBegun ==
  ASSUME NEW v, NEW n \in Name \cup {Absent}, domain \in Domain,
         NEW c \in {"prepare-key", "activate-key", "replace-key", "delete-project"},
         c = "prepare-key" => v.cmd.do = "prepare", c = "activate-key" => v.cmd.do = "activate",
         c = "replace-key" => v.cmd.do = "replace", c = "delete-project" => v.cmd.do = "uninstall",
         v.cmd.do \in {"activate", "replace"} => n \in SshOf(v.inventory),
         NEW l, l = <<Call(c, n, domain, "plain")>>
  PROVE  Begun(v, l) /\ Head(l).call = c /\ Head(l).block = "plain" /\ Head(l).name = n /\ Head(l).to = domain
<1>1. PICK t : t = Call(c, n, domain, "plain")
  OBVIOUS
<1>2. t.call = c /\ t.name = n /\ t.to = domain /\ t.block = "plain" /\ t \in CallRecord
  BY <1>1 DEF Call, CallRecord, Verb, SshCalls, Nameless, Block
<1>3. BareCall(v, t)
  BY <1>2 DEF BareCall
<1>4. t \in Card(v)
  BY <1>2, <1>3 DEF Menu, Card, KeyCalls, StreamVerbs, WebVerbs
<1>5. ~Leads(v, t)
  BY <1>2 DEF Leads, Forwards, Writing, Cleaning
<1>6. l \in Seq(Card(v)) /\ Joined(v, l) /\ l # <<>> /\ Head(l) = t /\ ToSet(l) = {t} /\ Len(l) = 1 /\ l[1] = t
  BY <1>1, <1>4, <1>5, OneSegment
<1>7. PhasedNet(v, l)
  BY <1>2, <1>6, PhasedQuiet
<1>8. v.cmd.do # "publish"
  OBVIOUS
<1>9. t.call \in Finals(v)
  BY <1>2 DEF Finals
<1> QED BY <1>2, <1>6, <1>7, <1>8, <1>9 DEF Begun, Phased, PhasedPublication

\* The calls that remove the host's daemon.
LEMMA CleaningChain ==
  ASSUME NEW v, NEW n \in Name \cup {Absent}, NEW d \in Domain,
         NEW l, l = Calls(<<"check-owned", "remove-unit", "reload", "remove-record", "remove-files">>, n, d, "plain")
  PROVE  /\ Chain(v, l) /\ l[1] = Call("check-owned", n, d, "plain") /\ l[Len(l)] = Call("remove-files", n, d, "plain")
         /\ \A x \in ToSet(l) : \E c \in Cleaning : x = Call(c, n, d, "plain")
<1>1. PICK calls : calls = <<"check-owned", "remove-unit", "reload", "remove-record", "remove-files">>
  OBVIOUS
<1>2. /\ "check-owned" \in Verb /\ "remove-unit" \in Verb /\ "reload" \in Verb /\ "remove-record" \in Verb
      /\ "remove-files" \in Verb /\ "plain" \in Block
  BY DEF Verb, Nameless, Block
<1>3. calls \in Seq(Verb) /\ Len(calls) = 5
  BY <1>1, <1>2, MoreTuples
<1>4. /\ calls[1] = "check-owned" /\ calls[2] = "remove-unit" /\ calls[3] = "reload" /\ calls[4] = "remove-record"
      /\ calls[5] = "remove-files"
  BY <1>1, <1>2, MoreTuples
<1>5. calls # <<>>
  BY <1>1
<1>6. /\ \A i \in 1..5 : i = 1 \/ i = 2 \/ i = 3 \/ i = 4 \/ i = 5
      /\ \A i \in 1..(Len(calls) - 1) : i = 1 \/ i = 2 \/ i = 3 \/ i = 4
  BY <1>3
<1>7. ASSUME NEW c \in Cleaning, NEW e \in Cleaning, c = "check-owned" => e = "remove-unit",
             c = "remove-unit" => e = "reload", c = "reload" => e = "remove-record",
             c = "remove-record" => e = "remove-files", c # "remove-files"
      PROVE  Joins(v, Call(c, n, d, "plain"), Call(e, n, d, "plain"))
  <2>1. PICK s, t : s = Call(c, n, d, "plain") /\ t = Call(e, n, d, "plain")
    OBVIOUS
  <2>2. /\ s.call = c /\ s.name = n /\ s.to = d /\ s.block = "plain"
        /\ t.call = e /\ t.name = n /\ t.to = d /\ t.block = "plain"
    BY <2>1 DEF Call
  <2>3. NextInUnit(v, s, t)
    BY <2>2 DEF NextInUnit, Forwards, Cleaning
  <2>4. NextOnHost(v, s, t)
    BY <1>7, <2>2 DEF NextOnHost, Cleaning
  <2>5. LedBy(s, t)
    BY <2>2 DEF LedBy, Leading, Cleaning
  <2>6. Joins(v, s, t)
    BY <2>2, <2>3, <2>4, <2>5 DEF Joins
  <2> QED BY <2>1, <2>6
<1>8. \A i \in 1..(Len(calls) - 1) : Joins(v, Call(calls[i], n, d, "plain"), Call(calls[i + 1], n, d, "plain"))
  <2>1. /\ "check-owned" \in Cleaning /\ "remove-unit" \in Cleaning /\ "reload" \in Cleaning /\ "remove-record" \in Cleaning
        /\ "remove-files" \in Cleaning
    BY DEF Cleaning
  <2>2. 1 + 1 = 2 /\ 2 + 1 = 3 /\ 3 + 1 = 4 /\ 4 + 1 = 5
    OBVIOUS
  <2>3. /\ Joins(v, Call("check-owned", n, d, "plain"), Call("remove-unit", n, d, "plain"))
        /\ Joins(v, Call("remove-unit", n, d, "plain"), Call("reload", n, d, "plain"))
        /\ Joins(v, Call("reload", n, d, "plain"), Call("remove-record", n, d, "plain"))
        /\ Joins(v, Call("remove-record", n, d, "plain"), Call("remove-files", n, d, "plain"))
    BY <1>7, <2>1
  <2> QED BY <1>4, <1>6, <2>2, <2>3
<1>9. l = Calls(calls, n, d, "plain")
  BY <1>1
<1>10. Chain(v, l)
  BY <1>2, <1>3, <1>5, <1>8, <1>9, CallsChain
<1>11. l = [i \in 1..5 |-> Call(calls[i], n, d, "plain")] /\ l \in Seq(CallRecord)
  BY <1>3, <1>9, <1>10 DEF Calls, Chain
<1>12. Len(l) = 5 /\ l[1] = Call("check-owned", n, d, "plain") /\ l[5] = Call("remove-files", n, d, "plain")
  BY <1>4, <1>11
<1>13. \A x \in ToSet(l) : \E c \in Cleaning : x = Call(c, n, d, "plain")
  <2>1. \A x \in ToSet(l) : \E i \in 1..5 : x = Call(calls[i], n, d, "plain")
    BY <1>11 DEF ToSet
  <2>2. \A i \in 1..5 : calls[i] \in Cleaning
    BY <1>4, <1>6 DEF Cleaning
  <2> QED BY <2>1, <2>2
<1> QED BY <1>10, <1>12, <1>13

LEMMA UninstallBegun ==
  ASSUME NEW v, v.cmd.do = "uninstall", domain \in Domain, host.record # Nobody, NEW l, l = UninstallCalls
  PROVE  Begun(v, l) /\ Head(l).call = "revoke-keys" /\ Head(l).block = "plain"
<1>1. PICK a : a = Revoke(Absent, domain, "plain")
  OBVIOUS
<1>2. PICK b : b = Calls(<<"check-owned", "remove-unit", "reload", "remove-record", "remove-files">>, Absent, domain, "plain")
  OBVIOUS
<1>3. PICK t : t = Call("delete-project", Absent, domain, "plain")
  OBVIOUS
<1>4. PICK e : e = <<t>>
  OBVIOUS
<1>5. PICK p : p = a \o b
  OBVIOUS
<1>6. l = p \o e
  BY <1>1, <1>2, <1>3, <1>4, <1>5 DEF UninstallCalls
<1>7. Absent \in Name \cup {Absent}
  OBVIOUS
<1>8. /\ Chain(v, a) /\ a[1] = Call("revoke-keys", Absent, domain, "plain") /\ a[Len(a)] = Call("stop-daemon", Absent, domain, "plain")
      /\ \A x \in ToSet(a) : \E c \in Closing : x = Call(c, Absent, domain, "plain")
  BY <1>1, <1>7, RevokeChain
<1>9. /\ Chain(v, b) /\ b[1] = Call("check-owned", Absent, domain, "plain") /\ b[Len(b)] = Call("remove-files", Absent, domain, "plain")
      /\ \A x \in ToSet(b) : \E c \in Cleaning : x = Call(c, Absent, domain, "plain")
  BY <1>2, <1>7, CleaningChain
<1>10. /\ t.call = "delete-project" /\ t.name = Absent /\ t.to = domain /\ t.block = "plain" /\ t \in CallRecord
  BY <1>3 DEF Call, CallRecord, Verb, Nameless, Block
<1>11. Chain(v, e) /\ e[1] = t /\ e[Len(e)] = t /\ ToSet(e) = {t}
  <2>1. e \in Seq(CallRecord) /\ ToSet(e) = {t} /\ Len(e) = 1 /\ e[1] = t /\ e # <<>>
    BY <1>4, <1>10, DownOne
  <2> QED BY <2>1 DEF Chain
<1>12. Joins(v, a[Len(a)], b[1])
  <2>1. PICK x, y : x = a[Len(a)] /\ y = b[1]
    OBVIOUS
  <2>2. /\ x.call = "stop-daemon" /\ x.name = Absent /\ x.to = domain /\ x.block = "plain"
        /\ y.call = "check-owned" /\ y.name = Absent /\ y.to = domain /\ y.block = "plain"
    BY <1>8, <1>9, <2>1 DEF Call
  <2>3. NextInUnit(v, x, y) /\ NextOnHost(v, x, y) /\ LedBy(x, y)
    BY <2>2 DEF NextInUnit, NextOnHost, LedBy, Leading, Forwards
  <2>4. Joins(v, x, y)
    BY <2>2, <2>3 DEF Joins
  <2> QED BY <2>1, <2>4
<1>13. Joins(v, b[Len(b)], t)
  <2>1. PICK x : x = b[Len(b)]
    OBVIOUS
  <2>2. x.call = "remove-files" /\ x.name = Absent /\ x.to = domain /\ x.block = "plain"
    BY <1>9, <2>1 DEF Call
  <2>3. NextInUnit(v, x, t) /\ NextOnHost(v, x, t) /\ LedBy(x, t)
    BY <1>10, <2>2 DEF NextInUnit, NextOnHost, LedBy, Leading, Forwards
  <2>4. Joins(v, x, t)
    BY <1>10, <2>2, <2>3 DEF Joins
  <2> QED BY <2>1, <2>4
<1>14. Chain(v, p) /\ IsJoin(a, b, p)
  BY <1>5, <1>8, <1>9, <1>12, ChainJoined
<1>15. Chain(v, l) /\ IsJoin(p, e, l)
  <2>1. Joins(v, p[Len(p)], e[1])
    BY <1>11, <1>13, <1>14 DEF IsJoin
  <2> QED BY <1>6, <1>11, <1>14, <2>1, ChainJoined
<1>16. ToSet(l) = (ToSet(a) \cup ToSet(b)) \cup {t} /\ l[1] = a[1] /\ l[Len(l)] = t
  BY <1>11, <1>14, <1>15 DEF IsJoin
<1>17. \A x \in ToSet(l) : x.block = "plain" /\ x.call \in Closing \cup Cleaning \cup {"delete-project"}
  BY <1>8, <1>9, <1>10, <1>16 DEF Call
<1>18. l \in Seq(CallRecord) /\ l # <<>> /\ \A i \in 1..(Len(l) - 1) : Joins(v, l[i], l[i + 1])
  BY <1>15 DEF Chain
<1>19. Head(l) = l[1] /\ ToSet(l) = {l[i] : i \in 1..Len(l)} /\ Len(l) \in Nat
  BY <1>18, ListMembers
<1>20. \A x \in ToSet(l) : x \in Card(v)
  <2> SUFFICES ASSUME NEW x \in ToSet(l) PROVE x \in Card(v)
    OBVIOUS
  <2>1. x \in CallRecord /\ x.block = "plain" /\ x.call \in Closing \cup Cleaning \cup {"delete-project"}
    BY <1>17, <1>18, <1>19
  <2>2. BareCall(v, x)
    BY <2>1 DEF BareCall
  <2>3. x.call \notin {"save", "delete-record", "check-host"} \cup StreamVerbs \cup WebVerbs \cup KeyCalls
    BY <2>1 DEF Closing, Cleaning, StreamVerbs, WebVerbs, KeyCalls
  <2>4. x \in Menu(v)
    BY <2>1, <2>2, <2>3 DEF Menu
  <2> QED BY <2>3, <2>4 DEF Card
<1>21. l \in Seq(Card(v))
  BY <1>18, <1>19, <1>20
<1>22. ~Leads(v, t)
  BY <1>10 DEF Leads, Forwards, Writing, Cleaning
<1>23. Joined(v, l)
  BY <1>16, <1>18, <1>22 DEF Joined
<1>24. \A x \in ToSet(l) : x.block # "withdraw" /\ x.call # "start-gateway"
  BY <1>17 DEF Closing, Cleaning
<1>25. PhasedNet(v, l)
  BY <1>21, <1>24, PhasedQuiet
<1>26. t.call \in Finals(v)
  BY <1>10 DEF Finals
<1>27. Begun(v, l)
  BY <1>16, <1>18, <1>21, <1>23, <1>25, <1>26 DEF Begun, Phased, PhasedPublication
<1> QED BY <1>8, <1>16, <1>19, <1>27 DEF Call

\* What a command is given and finds.
SettingOf(c) == [cmd |-> c, plan |-> PlanOf(c), inventory |-> inventory, domain |-> domain]

\* What commands begin with.
Started(v, l) ==
  /\ Begun(v, l)
  /\ v.cmd.do \in Everything => Opens(Head(l))
  /\ v.cmd.do = "domain" =>
       /\ \A m \in Of(v.plan) : \E i \in DOMAIN l : Begins(l[i], m)
       /\ \A m \in Streams(inventory) : \E i \in DOMAIN l : l[i] = Call("unforward", m, domain, "withdraw")
  /\ v.cmd.do = "publish" =>
       /\ Head(l) = Call("check-slot", v.cmd.name, domain, IF PublishesSshIn(v) THEN "plain" ELSE "publish")
       /\ \E i \in DOMAIN l : Begins(l[i], v.cmd.name)
  /\ v.cmd.do = "remove" =>
       /\ IF inventory[v.cmd.name].protocol = "ssh" THEN Head(l).call = "revoke-keys" /\ Head(l).block = "plain"
          ELSE Opens(Head(l))
       /\ IsStream(inventory[v.cmd.name])
            => \E i \in DOMAIN l : l[i] = Call("unforward", v.cmd.name, domain, "plain")
  /\ v.cmd.do \in {"prepare", "activate", "replace"} => Head(l).call \in KeyCommands /\ Head(l).block = "plain"
  /\ v.cmd.do = "prepare" => Head(l).call = "prepare-key"
  /\ v.cmd.do = "activate" => Head(l).call = "activate-key"
  /\ v.cmd.do = "replace" => Head(l).call = "replace-key"
  /\ v.cmd.do = "uninstall" =>
       /\ Head(l).call = IF host.record = Nobody THEN "delete-project" ELSE "revoke-keys"
       /\ Head(l).block = "plain"

LEMMA SettingOfFacts ==
  ASSUME NEW c
  PROVE  /\ SettingOf(c).cmd = c /\ SettingOf(c).plan = PlanOf(c)
         /\ SettingOf(c).inventory = inventory /\ SettingOf(c).domain = domain
<1> QED BY DEF SettingOf

LEMMA EverythingStarted ==
  ASSUME inventory \in Services, domain \in Domain, Good(inventory), NEW c \in Command, Possible(c),
         c.do \in Everything, NEW v, v = SettingOf(c), NEW l, l = CallsOf(c)
  PROVE  Started(v, l)
<1>1. v.cmd = c /\ v.plan = PlanOf(c) /\ v.inventory = inventory /\ v.domain = domain
  BY SettingOfFacts
<1>2. c.do \notin {"publish", "remove", "prepare", "activate", "replace", "uninstall"}
  BY DEF Everything
<1>3. PlanOf(c) = inventory
  BY <1>2, PlanType
<1>4. c.do = "domain" => c.to \in Domain
  BY CommandFields
<1>5. TargetOf(v) \in Domain
  BY <1>1, <1>4 DEF TargetOf
<1>6. Refreshes(v)
  BY <1>1, <1>3, <1>5, NamesAreFinite DEF Refreshes
<1>7. CASE c.do = "redirect"
  <2>1. l = RedirectCalls
    BY <1>7 DEF CallsOf
  <2>2. Begun(v, l) /\ Opens(Head(l))
    BY <1>1, <1>6, <1>7, <2>1, RedirectList
  <2> QED BY <1>1, <1>2, <1>7, <2>2 DEF Started
<1>8. CASE c.do = "vpn"
  <2>1. l = VpnCalls
    BY <1>8 DEF CallsOf
  <2>2. Begun(v, l) /\ Opens(Head(l))
    BY <1>1, <1>6, <1>8, <2>1, VpnList
  <2> QED BY <1>1, <1>2, <1>8, <2>2 DEF Started
<1>9. CASE c.do = "domain"
  <2>1. l = DomainCalls(c.to)
    BY <1>9 DEF CallsOf
  <2>2. TargetOf(v) = c.to
    BY <1>1, <1>9 DEF TargetOf
  <2>3. Retires(v) /\ l = DomainCalls(TargetOf(v))
    BY <1>1, <1>6, <1>9, <2>1, <2>2 DEF Retires
  <2>4. Begun(v, l) /\ Opens(Head(l))
    BY <2>3, DomainList
  <2>5. \A m \in Of(v.plan) : \E i \in DOMAIN l : Begins(l[i], m)
    BY <2>3, DomainList
  <2>6. \A m \in Streams(inventory) : \E i \in DOMAIN l : l[i] = Call("unforward", m, domain, "withdraw")
    BY <2>3, DomainList
  <2> QED BY <1>1, <1>2, <1>9, <2>4, <2>5, <2>6 DEF Started
<1> QED BY <1>7, <1>8, <1>9 DEF Everything

LEMMA PublishStarted ==
  ASSUME inventory \in Services, domain \in Domain, Good(inventory), NEW c \in Command, Possible(c),
         c.do = "publish", NEW v, v = SettingOf(c), NEW l, l = CallsOf(c)
  PROVE  Started(v, l)
<1>1. v.cmd = c /\ v.plan = PlanOf(c) /\ v.inventory = inventory /\ v.domain = domain
  BY SettingOfFacts
<1>2. c.name \in Name /\ c.wish \in Exposure
  BY CommandFields
<1>3. c.wish # Absent
  BY <1>2, WishesAreExposures
<1>4. v.plan = [inventory EXCEPT ![c.name] = c.wish]
  BY <1>1, PlanType
<1>5. v.plan[c.name] = c.wish
  BY <1>2, <1>4 DEF Services
<1>6. PublishesOne(v, c.name)
  BY <1>1, <1>2, <1>3, <1>5 DEF PublishesOne, Of
<1>7. l = PublishCalls(c.name, v.cmd.wish)
  BY <1>1 DEF CallsOf
<1>8. Begun(v, l)
  BY <1>6, <1>7, PublishBegun
<1>9. Head(l) = Call("check-slot", c.name, domain, IF PublishesSshIn(v) THEN "plain" ELSE "publish")
  BY <1>6, <1>7, PublishBegun
<1>10. \E i \in DOMAIN l : Begins(l[i], c.name)
  BY <1>6, <1>7, PublishBegun
<1> QED BY <1>1, <1>8, <1>9, <1>10 DEF Started, Everything

LEMMA RemoveStarted ==
  ASSUME inventory \in Services, domain \in Domain, Good(inventory), NEW c \in Command, Possible(c),
         c.do = "remove", NEW v, v = SettingOf(c), NEW l, l = CallsOf(c)
  PROVE  Started(v, l)
<1>1. v.cmd = c /\ v.plan = PlanOf(c) /\ v.inventory = inventory /\ v.domain = domain
  BY SettingOfFacts
<1>2. c.name \in Name
  BY CommandFields
<1>3. inventory[c.name] # Absent
  BY DEF Possible
<1>4. v.plan = [inventory EXCEPT ![c.name] = Absent]
  BY <1>1, PlanType
<1>5. v.plan[c.name] = Absent
  BY <1>2, <1>4 DEF Services
<1>6. RemovesOne(v, c.name)
  BY <1>1, <1>2, <1>3, <1>5 DEF RemovesOne, Of
<1>7. l = RemoveCalls(c.name)
  BY DEF CallsOf
<1>8. Begun(v, l)
  BY <1>6, <1>7, RemoveBegun
<1>9. IF inventory[c.name].protocol = "ssh" THEN Head(l).call = "revoke-keys" /\ Head(l).block = "plain"
      ELSE Opens(Head(l))
  BY <1>6, <1>7, RemoveBegun
<1>10. IsStream(inventory[c.name]) => \E i \in DOMAIN l : l[i] = Call("unforward", c.name, domain, "plain")
  BY <1>6, <1>7, RemoveBegun
<1> QED BY <1>1, <1>8, <1>9, <1>10 DEF Started, Everything

LEMMA KeyCommandStarted ==
  ASSUME inventory \in Services, domain \in Domain, NEW c \in Command, Possible(c),
         c.do \in {"prepare", "activate", "replace"}, NEW v, v = SettingOf(c), NEW l, l = CallsOf(c)
  PROVE  Started(v, l)
<1>1. v.cmd = c /\ v.plan = PlanOf(c) /\ v.inventory = inventory /\ v.domain = domain
  BY SettingOfFacts
<1>2. SshOf(inventory) # {}
  BY DEF Possible
<1>3. PICK n : n = CHOOSE m \in SshOf(inventory) : TRUE
  OBVIOUS
<1>4. n \in SshOf(inventory) /\ n \in Name \cup {Absent}
  BY <1>2, <1>3 DEF SshOf, Of
<1>5. PICK k : k = IF c.do = "prepare" THEN "prepare-key" ELSE IF c.do = "activate" THEN "activate-key" ELSE "replace-key"
  OBVIOUS
<1>6. l = <<Call(k, n, domain, "plain")>>
  BY <1>3, <1>5 DEF CallsOf
<1>7. k \in {"prepare-key", "activate-key", "replace-key", "delete-project"} /\ k # "delete-project"
  BY <1>5
<1>8. /\ k = "prepare-key" => v.cmd.do = "prepare"
      /\ k = "activate-key" => v.cmd.do = "activate"
      /\ k = "replace-key" => v.cmd.do = "replace"
  BY <1>1, <1>5
<1>9. Begun(v, l) /\ Head(l).call = k /\ Head(l).block = "plain"
  BY <1>1, <1>4, <1>6, <1>7, <1>8, SingleBegun
<1> QED BY <1>1, <1>5, <1>9 DEF Started, Everything, KeyCommands

LEMMA UninstallStarted ==
  ASSUME inventory \in Services, domain \in Domain, NEW c \in Command, c.do = "uninstall",
         NEW v, v = SettingOf(c), NEW l, l = CallsOf(c)
  PROVE  Started(v, l)
<1>1. v.cmd = c /\ v.plan = PlanOf(c) /\ v.inventory = inventory /\ v.domain = domain
  BY SettingOfFacts
<1>2. l = UninstallCalls
  BY DEF CallsOf
<1>3. CASE host.record = Nobody
  <2>1. PICK e : e = <<Call("delete-project", Absent, domain, "plain")>>
    OBVIOUS
  <2>2. l = <<>> \o e
    BY <1>2, <1>3, <2>1 DEF UninstallCalls
  <2>3. Call("delete-project", Absent, domain, "plain") \in CallRecord
    BY DEF Call, CallRecord, Verb, Nameless, Block
  <2>4. e \in Seq(CallRecord)
    BY <2>1, <2>3
  <2>5. l = e
    BY <2>2, <2>4
  <2>6. Begun(v, l) /\ Head(l).call = "delete-project" /\ Head(l).block = "plain"
    BY <1>1, <2>1, <2>5, SingleBegun
  <2> QED BY <1>1, <1>3, <2>6 DEF Started, Everything
<1>4. CASE host.record # Nobody
  <2>1. Begun(v, l) /\ Head(l).call = "revoke-keys" /\ Head(l).block = "plain"
    BY <1>1, <1>2, <1>4, UninstallBegun
  <2> QED BY <1>1, <1>4, <2>1 DEF Started, Everything
<1> QED BY <1>3, <1>4

LEMMA CommandStarted ==
  ASSUME inventory \in Services, domain \in Domain, Good(inventory), NEW c \in Command, Possible(c)
  PROVE  Started(SettingOf(c), CallsOf(c))
<1>1. c.do \in {"publish", "remove", "domain", "redirect", "vpn", "prepare", "activate", "replace", "uninstall"}
  BY CommandFields
<1>2. CASE c.do \in Everything
  BY <1>2, EverythingStarted
<1>3. CASE c.do = "publish"
  BY <1>3, PublishStarted
<1>4. CASE c.do = "remove"
  BY <1>4, RemoveStarted
<1>5. CASE c.do \in {"prepare", "activate", "replace"}
  BY <1>5, KeyCommandStarted
<1>6. CASE c.do = "uninstall"
  BY <1>6, UninstallStarted
<1> QED BY <1>1, <1>2, <1>3, <1>4, <1>5, <1>6 DEF Everything

-----------------------------------------------------------------------------
(* A command that begins where everything recorded is served *)

StartsAtRest(c) ==
  /\ IInv /\ Sound /\ AtRest /\ c \in Command /\ Possible(c)
  /\ op'.cmd = c /\ op'.plan = PlanOf(c) /\ op'.todo = CallsOf(c) /\ op'.late = FALSE
  /\ UNCHANGED <<host, proxy, gateway, dns, routes, inventory, domain>>

LEMMA StartFacts ==
  ASSUME NEW c, StartsAtRest(c), NEW v, v = SettingOf(c), NEW l, l = CallsOf(c)
  PROVE  /\ Setting' = v /\ op'.todo = l /\ First' = Head(l) /\ Started(v, l) /\ Begun(v, l)
         /\ v.cmd = c /\ v.plan = PlanOf(c) /\ v.inventory = inventory /\ v.domain = domain
         /\ inventory \in Services /\ Good(inventory) /\ domain \in Domain
<1>1. c \in Command /\ Possible(c) /\ inventory \in Services /\ Good(inventory) /\ domain \in Domain
  BY DEF StartsAtRest, IInv, WorldOK, CommandOK, Services
<1>2. Started(v, l)
  BY <1>1, CommandStarted
<1>3. Setting' = v
  BY DEF StartsAtRest, Setting, SettingOf
<1>4. op'.todo = l /\ First' = Head(l)
  BY DEF StartsAtRest, First
<1>5. Begun(v, l)
  BY <1>2 DEF Started
<1>6. v.cmd = c /\ v.plan = PlanOf(c) /\ v.inventory = inventory /\ v.domain = domain
  BY SettingOfFacts
<1> QED BY <1>1, <1>2, <1>3, <1>4, <1>5, <1>6

\* Its calls.
LEMMA StartList ==
  ASSUME NEW c, StartsAtRest(c), NEW v, v = SettingOf(c), NEW l, l = CallsOf(c)
  PROVE  /\ l # <<>> /\ Listed(v, l) /\ Head(l) \in ToSet(l) /\ ToSet(l) = {l[i] : i \in DOMAIN l}
         /\ \A x \in ToSet(l) : x \in Menu(v) /\ x \in CallRecord /\ x.call \notin KeyCalls
<1>1. Begun(v, l)
  BY StartFacts
<1>2. l \in Seq(Card(v)) /\ l # <<>> /\ Joined(v, l) /\ Phased(v, l) /\ l[Len(l)].call \in Finals(v)
  BY <1>1 DEF Begun
<1>3. /\ DOMAIN l = 1..Len(l) /\ Len(l) \in Nat /\ ToSet(l) = {l[i] : i \in 1..Len(l)}
      /\ Head(l) \in ToSet(l)
  BY <1>2, ListMembers
<1>4. \A x \in ToSet(l) : x \in Card(v)
  BY <1>2, <1>3
<1>5. \A x \in ToSet(l) : x \in Menu(v) /\ x \in CallRecord /\ x.call \notin KeyCalls
  BY <1>4 DEF Card, Menu
<1>6. l \in Seq(CallRecord)
  BY <1>2, <1>3, <1>5
<1>7. ToSet(l) \subseteq Menu(v)
  BY <1>5
<1> QED BY <1>2, <1>3, <1>5, <1>6, <1>7 DEF Listed

LEMMA StartSubjects ==
  ASSUME NEW c, StartsAtRest(c), NEW v, v = SettingOf(c), NEW t
  PROVE  /\ Subject(t)' = SubjectIn(v, t.name) /\ HostOf(t)' = <<SubjectIn(v, t.name).label, t.to>>
         /\ PortOf(t)' = SubjectIn(v, t.name).port
         /\ PublishesSsh' = PublishesSshIn(v) /\ TargetOf(Setting)' = TargetOf(v)
         /\ StreamIn(v, t) = IsStream(SubjectIn(v, t.name)) /\ IsStream(Subject(t))' = StreamIn(v, t)
<1>1. v.cmd = c /\ v.plan = PlanOf(c) /\ v.inventory = inventory /\ v.domain = domain /\ Setting' = v
  BY StartFacts
<1>2. op'.plan = v.plan /\ inventory' = v.inventory /\ op'.cmd = v.cmd /\ domain' = v.domain
  BY <1>1 DEF StartsAtRest
<1>3. Subject(t)' = SubjectIn(v, t.name)
  BY <1>2 DEF Subject, SubjectIn
<1>4. PublishesSsh' = PublishesSshIn(v)
  BY <1>2 DEF PublishesSsh, PublishesSshIn
<1>5. TargetOf(Setting)' = TargetOf(v)
  BY <1>1 DEF TargetOf
<1>6. StreamIn(v, t) = IsStream(SubjectIn(v, t.name)) /\ IsStream(Subject(t))' = StreamIn(v, t)
  BY <1>3 DEF StreamIn, IsStream
<1> QED BY <1>3, <1>4, <1>5, <1>6 DEF HostOf, PortOf

\* What it leaves.
LEMMA StartPlans ==
  ASSUME NEW c, StartsAtRest(c), NEW v, v = SettingOf(c)
  PROVE  /\ v.plan \in Services
         /\ c.do = "publish" => /\ c.name \in Name /\ c.wish \in Exposure /\ c.wish # Absent /\ v.plan[c.name] = c.wish
                                /\ SameSlot(c.name, c.wish)
                                /\ \A n \in Name \ {c.name} : v.plan[n] = inventory[n]
         /\ c.do = "remove" => /\ c.name \in Of(inventory) /\ v.plan[c.name] = Absent
                               /\ \A n \in Name \ {c.name} : v.plan[n] = inventory[n]
         /\ c.do \notin {"publish", "remove"} => v.plan = inventory
         /\ c.do # "domain" => TargetOf(v) = domain
<1>1. v.cmd = c /\ v.plan = PlanOf(c) /\ v.domain = domain /\ inventory \in Services /\ Good(inventory)
  BY SettingOfFacts DEF StartsAtRest, IInv, WorldOK, CommandOK, Services
<1>2. c \in Command /\ Possible(c)
  BY DEF StartsAtRest
<1>3. /\ PlanOf(c) \in Services
      /\ c.do = "publish" => PlanOf(c) = [inventory EXCEPT ![c.name] = c.wish]
      /\ c.do = "remove" => PlanOf(c) = [inventory EXCEPT ![c.name] = Absent]
      /\ c.do \notin {"publish", "remove"} => PlanOf(c) = inventory
  BY <1>1, <1>2, PlanType
<1>4. /\ c.do = "publish" => c.name \in Name /\ c.wish \in Exposure
      /\ c.do = "remove" => c.name \in Name
  BY <1>2, CommandFields
<1>5. c.do = "publish" => c.wish # Absent
  BY <1>4, WishesAreExposures
<1>6. c.do = "remove" => c.name \in Of(inventory)
  BY <1>2, <1>4 DEF Possible, Of
<1>7. c.do = "publish" => SameSlot(c.name, c.wish)
  BY <1>2 DEF Possible
<1> QED BY <1>1, <1>3, <1>4, <1>5, <1>6, <1>7 DEF Services, TargetOf

LEMMA StartMayRefuse ==
  ASSUME NEW c, StartsAtRest(c), c.do = "publish", NEW X, "check-slot" \in X
  PROVE  MayRefuse(X)'
<1>1. PICK v, l : v = SettingOf(c) /\ l = CallsOf(c)
  OBVIOUS
<1>2. /\ First' = Head(l) /\ Started(v, l) /\ v.cmd = c
  BY <1>1, StartFacts
<1>3. Head(l) = Call("check-slot", c.name, domain, IF PublishesSshIn(v) THEN "plain" ELSE "publish")
  BY <1>2 DEF Started
<1>4. PublishesSsh' = PublishesSshIn(v)
  BY <1>1, StartSubjects
<1>5. op'.cmd.do = "publish"
  BY DEF StartsAtRest
<1>6. First'.call = "check-slot" /\ First'.block = IF PublishesSsh' THEN "plain" ELSE "publish"
  BY <1>2, <1>3, <1>4 DEF Call
<1> QED BY <1>5, <1>6 DEF MayRefuse

LEMMA StartPlanReady ==
  ASSUME NEW c, StartsAtRest(c)
  PROVE  PlanReady'
<1>1. PICK v : v = SettingOf(c)
  OBVIOUS
<1>2. op'.plan = v.plan /\ op'.cmd = c /\ proxy' = proxy
  BY <1>1, SettingOfFacts DEF StartsAtRest
<1>3. CASE c.do = "publish"
  <2>1. MayRefuse({"check-slot"})'
    BY <1>3, StartMayRefuse
  <2>2. MayRefuse({"check-slot", "check-forwarding"})'
    BY <1>3, StartMayRefuse
  <2>3. "check-slot" \in Checking
    BY DEF Checking
  <2>4. MayRefuse(Checking)'
    BY <1>3, <2>3, StartMayRefuse
  <2> QED BY <2>1, <2>2, <2>4 DEF PlanReady
<1>4. CASE c.do # "publish"
  <2>1. \A n \in Name : v.plan[n] = inventory[n] \/ v.plan[n] = Absent
    BY <1>1, <1>4, StartPlans
  <2>2. Unique(inventory) /\ Compatible(inventory)
    BY DEF StartsAtRest, Sound
  <2>3. \A n \in Of(v.plan) : n \in Of(inventory) /\ v.plan[n] = inventory[n]
    BY <2>1 DEF Of
  <2>4. Unique(v.plan)
    BY <2>2, <2>3 DEF Unique, SlotFree, Of
  <2>5. \A n \in Streams(v.plan) : n \in Streams(inventory) /\ v.plan[n] = inventory[n]
    BY <2>3 DEF Streams
  <2>6. StreamPorts(v.plan) \subseteq StreamPorts(inventory)
    BY <2>5 DEF StreamPorts
  <2>7. Compatible(v.plan)
    BY <2>2, <2>6 DEF Compatible
  <2>8. Unique(op.plan)'
    BY <1>2, <2>4 DEF Unique, SlotFree, Of, IsStream
  <2>9. Compatible(op.plan)'
    BY <1>2, <2>7 DEF Compatible, StreamPorts, Streams, Of, IsStream
  <2>10. ~PublishesSsh'
    BY <1>2, <1>4 DEF PublishesSsh
  <2> QED BY <2>8, <2>9, <2>10 DEF PlanReady
<1> QED BY <1>3, <1>4

\* What it is to publish again it does, and the rest is served.
LEMMA StartAwaits ==
  ASSUME NEW c, StartsAtRest(c), NEW v, v = SettingOf(c), NEW m \in Of(v.plan)
  PROVE  ServedAt(v.plan[m], TargetOf(v)) \/ Awaits(m)'
<1>1. PICK l : l = CallsOf(c)
  OBVIOUS
<1>2. Started(v, l) /\ op'.todo = l /\ v.cmd = c /\ ToSet(l) = {l[i] : i \in DOMAIN l}
  BY <1>1, StartFacts, StartList
<1>3. ASSUME NEW i \in DOMAIN l, Begins(l[i], m) PROVE Awaits(m)'
  <2>1. PICK t : t = l[i]
    OBVIOUS
  <2>2. t \in ToSet(op'.todo) /\ Begins(t, m)
    BY <1>2, <1>3, <2>1
  <2> QED BY <2>2 DEF Awaits
<1>4. ASSUME NEW n \in Of(inventory) PROVE ServedAt(inventory[n], domain)
  BY DEF StartsAtRest, AtRest, NetRest
<1>5. CASE c.do = "domain"
  <2>1. \A n \in Of(v.plan) : \E i \in DOMAIN l : Begins(l[i], n)
    BY <1>2, <1>5 DEF Started
  <2> QED BY <1>3, <2>1
<1>6. CASE c.do = "publish" /\ m = c.name
  <2>1. \E i \in DOMAIN l : Begins(l[i], c.name)
    BY <1>2, <1>6 DEF Started
  <2> QED BY <1>3, <1>6, <2>1
<1>7. CASE c.do # "domain" /\ ~(c.do = "publish" /\ m = c.name)
  <2>1. TargetOf(v) = domain
    BY <1>7, StartPlans
  <2>2. m \in Name /\ v.plan[m] # Absent
    BY DEF Of
  <2>3. v.plan[m] = inventory[m]
    BY <1>7, <2>2, StartPlans
  <2>4. m \in Of(inventory)
    BY <2>2, <2>3 DEF Of
  <2> QED BY <1>4, <2>1, <2>3, <2>4
<1> QED BY <1>5, <1>6, <1>7

\* What is forwarded stays with its exposure, or is withdrawn.
LEMMA StartOwned ==
  ASSUME NEW c, StartsAtRest(c), NEW v, v = SettingOf(c), NEW p \in Port
  PROVE  proxy.record[p] = Free \/ OwnedIn(v.plan, TargetOf(v), p) \/ \E t \in ToSet(op'.todo) : Removes(t, p)'
<1>1. PICK l : l = CallsOf(c)
  OBVIOUS
<1>2. Started(v, l) /\ op'.todo = l /\ v.cmd = c /\ ToSet(l) = {l[i] : i \in DOMAIN l}
  BY <1>1, StartFacts, StartList
<1>3. proxy.record[p] = Free \/ OwnedIn(inventory, domain, p)
  BY DEF StartsAtRest, AtRest, NetRest
<1>4. ASSUME NEW n \in Streams(inventory), inventory[n].port = p, Forwarded(inventory[n], domain)
      PROVE  OwnedIn(v.plan, TargetOf(v), p) \/ \E t \in ToSet(op'.todo) : Removes(t, p)'
  <2>1. n \in Name /\ inventory[n] # Absent /\ IsStream(inventory[n])
    BY DEF Streams, Of
  <2>2. ASSUME NEW b, NEW i \in DOMAIN l, l[i] = Call("unforward", n, domain, b), SubjectIn(v, n) = inventory[n]
        PROVE  \E t \in ToSet(op'.todo) : Removes(t, p)'
    <3>1. PICK t : t = l[i]
      OBVIOUS
    <3>2. t \in ToSet(op'.todo) /\ t.call = "unforward" /\ t.name = n
      BY <1>2, <2>2, <3>1 DEF Call
    <3>3. PortOf(t)' = SubjectIn(v, t.name).port
      BY StartSubjects
    <3>4. PortOf(t)' = p
      BY <1>4, <2>2, <3>2, <3>3
    <3>5. Removes(t, p)'
      BY <3>2, <3>4 DEF Removes
    <3> QED BY <3>2, <3>5
  <2>3. CASE c.do = "domain"
    <3>1. \E i \in DOMAIN l : l[i] = Call("unforward", n, domain, "withdraw")
      BY <1>2, <2>3 DEF Started
    <3>2. v.plan = inventory /\ v.inventory = inventory
      BY <2>3, StartPlans, SettingOfFacts
    <3>3. SubjectIn(v, n) = inventory[n]
      BY <3>2 DEF SubjectIn
    <3> QED BY <2>2, <3>1, <3>3
  <2>4. CASE c.do = "remove" /\ n = c.name
    <3>1. \E i \in DOMAIN l : l[i] = Call("unforward", n, domain, "plain")
      BY <1>2, <2>1, <2>4 DEF Started
    <3>2. v.plan[n] = Absent /\ v.inventory = inventory
      BY <2>4, StartPlans, SettingOfFacts
    <3>3. SubjectIn(v, n) = inventory[n]
      BY <3>2 DEF SubjectIn
    <3> QED BY <2>2, <3>1, <3>3
  <2>5. CASE c.do # "domain" /\ ~(c.do = "remove" /\ n = c.name)
    <3>1. TargetOf(v) = domain
      BY <2>5, StartPlans
    <3>2. v.plan[n] # Absent /\ v.plan[n].label = inventory[n].label /\ v.plan[n].protocol = inventory[n].protocol
          /\ v.plan[n].port = inventory[n].port
      <4>1. CASE c.do = "publish" /\ n = c.name
        <5>1. v.plan[n] = c.wish /\ c.wish # Absent /\ SameSlot(n, c.wish)
          BY <4>1, StartPlans
        <5> QED BY <2>1, <5>1 DEF SameSlot
      <4>2. CASE ~(c.do = "publish" /\ n = c.name)
        <5>1. v.plan[n] = inventory[n]
          BY <2>1, <2>5, <4>2, StartPlans
        <5> QED BY <2>1, <5>1
      <4> QED BY <4>1, <4>2
    <3>3. n \in Streams(v.plan)
      BY <2>1, <3>2 DEF Streams, Of, IsStream
    <3>4. Forwarded(v.plan[n], domain)
      BY <1>4, <3>2 DEF Forwarded
    <3>5. OwnedIn(v.plan, domain, p)
      BY <1>4, <3>2, <3>3, <3>4 DEF OwnedIn
    <3> QED BY <3>1, <3>5
  <2> QED BY <2>3, <2>4, <2>5
<1> QED BY <1>3, <1>4 DEF OwnedIn

\* It withdraws what is forwarded as recorded.
LEMMA StartWithdraws ==
  ASSUME NEW c, StartsAtRest(c), NEW v, v = SettingOf(c), NEW l, l = CallsOf(c), NEW t \in ToSet(l), t.call = "unforward"
  PROVE  proxy.record[PortOf(t)'] \in {Free, HostOf(t)'}
<1>1. t \in Menu(v)
  BY StartList
<1>2. v.cmd = c /\ v.inventory = inventory /\ v.domain = domain
  BY SettingOfFacts
<1>3. Withdraws(v, t)
  BY <1>1, MenuFacts DEF WithdrawVerbs
<1>4. StreamIn(v, t)
  BY <1>1 DEF Menu, StreamVerbs
<1>5. t.name \in Of(inventory) /\ t.to = domain /\ SubjectIn(v, t.name) = inventory[t.name]
  <2>1. CASE WithdrawCall(v, t)
    <3>1. t.name \in Of(inventory) /\ t.to = domain /\ c.do = "domain"
      BY <1>2, <2>1 DEF WithdrawCall
    <3>2. v.plan = inventory
      BY <3>1, StartPlans
    <3> QED BY <1>2, <3>1, <3>2 DEF SubjectIn
  <2>2. CASE c.do = "remove"
    <3>1. t.name = c.name /\ t.to = domain
      BY <1>1, <1>2, <2>2 DEF Menu
    <3>2. c.name \in Of(inventory) /\ v.plan[c.name] = Absent
      BY <2>2, StartPlans
    <3> QED BY <1>2, <3>1, <3>2 DEF SubjectIn
  <2> QED BY <1>2, <1>3, <2>1, <2>2 DEF Withdraws
<1>6. ServedAt(inventory[t.name], domain)
  BY <1>5 DEF StartsAtRest, AtRest, NetRest
<1>7. IsStream(inventory[t.name])
  BY <1>4, <1>5 DEF StreamIn
<1>8. proxy.record[inventory[t.name].port] = <<inventory[t.name].label, domain>>
  BY <1>6, <1>7 DEF ServedAt, Forwarded
<1>9. PortOf(t)' = SubjectIn(v, t.name).port /\ HostOf(t)' = <<SubjectIn(v, t.name).label, t.to>>
  BY StartSubjects
<1>10. PortOf(t)' = inventory[t.name].port /\ HostOf(t)' = <<inventory[t.name].label, domain>>
  BY <1>5, <1>9
<1> QED BY <1>8, <1>10

LEMMA StartNetReady ==
  ASSUME NEW c, StartsAtRest(c)
  PROVE  NetReady'
<1>1. PICK v, l : v = SettingOf(c) /\ l = CallsOf(c)
  OBVIOUS
<1>2. /\ op'.plan = v.plan /\ op'.cmd = c /\ op'.todo = l
      /\ UNCHANGED <<host, proxy, gateway, dns, routes, inventory, domain>>
  BY <1>1, SettingOfFacts DEF StartsAtRest
<1>3. Setting' = v
  BY <1>1, StartFacts
<1>4. ASSUME NEW m \in Of(op'.plan)
      PROVE  ServedAt(op.plan[m], TargetOf(Setting))' \/ Awaits(m)' \/ InUnit(m)'
  <2>1. ServedAt(v.plan[m], TargetOf(v)) \/ Awaits(m)'
    BY <1>1, <1>2, <1>4, StartAwaits
  <2>2. TargetOf(Setting)' = TargetOf(v)
    BY <1>3 DEF TargetOf
  <2>3. ServedAt(v.plan[m], TargetOf(v)) => ServedAt(op.plan[m], TargetOf(Setting))'
    BY <1>2, <2>2 DEF ServedAt, Forwarded, GatewayOK, IsStream
  <2> QED BY <2>1, <2>3
<1>5. ASSUME NEW p \in Port
      PROVE  proxy'.record[p] = Free \/ OwnedIn(op.plan, TargetOf(Setting), p)' \/ \E t \in ToSet(op'.todo) : Removes(t, p)'
  <2>1. proxy.record[p] = Free \/ OwnedIn(v.plan, TargetOf(v), p) \/ \E t \in ToSet(op'.todo) : Removes(t, p)'
    BY <1>1, StartOwned
  <2>2. TargetOf(Setting)' = TargetOf(v)
    BY <1>3 DEF TargetOf
  <2>3. OwnedIn(v.plan, TargetOf(v), p) => OwnedIn(op.plan, TargetOf(Setting), p)'
    BY <1>2, <2>2 DEF OwnedIn, Streams, Of, IsStream, Forwarded
  <2> QED BY <1>2, <2>1, <2>3
<1>6. ASSUME NEW t \in ToSet(op'.todo), t.call = "unforward"
      PROVE  proxy'.record[PortOf(t)'] \in {Free, HostOf(t)'}
  BY <1>1, <1>2, <1>6, StartWithdraws
<1>7. NetRest(inventory, domain)'
  <2>1. NetRest(inventory, domain)
    BY DEF StartsAtRest, AtRest
  <2> QED BY <1>2, <2>1 DEF NetRest, ServedAt, OwnedIn, Streams, Of, IsStream, Forwarded, GatewayOK
<1> QED BY <1>4, <1>5, <1>6, <1>7 DEF NetReady, Of

\* What the first call is.
LEMMA StartHead ==
  ASSUME NEW c, StartsAtRest(c), NEW v, v = SettingOf(c), NEW l, l = CallsOf(c), NEW t, t = Head(l)
  PROVE  /\ First' = t /\ t \in CallRecord /\ t.block \in {"plain", "publish", "withdraw"}
         /\ t.call \in {"check-slot", "check-host", "unforward", "delete-record", "delete-route", "start-gateway",
                        "save", "revoke-keys", "delete-project"} \cup KeyCommands
         /\ c.do = "publish" => t.call = "check-slot" /\ (c.wish.protocol = "ssh" => t.block = "plain")
         /\ c.do = "remove" /\ c.name \in SshOf(inventory) => t.call = "revoke-keys"
         /\ t.call = "revoke-keys" => (c.do = "remove" /\ c.name \in SshOf(inventory)) \/ c.do = "uninstall"
         /\ c.do = "uninstall" /\ host.record # Nobody => t.call = "revoke-keys"
         /\ c.do \in {"activate", "replace"} => t.call \in KeyCommands
<1>1. Started(v, l) /\ First' = t /\ v.cmd = c /\ t \in CallRecord /\ c \in Command
  BY StartFacts, StartList DEF StartsAtRest
<1>2. c.do \in {"publish", "remove", "domain", "redirect", "vpn", "prepare", "activate", "replace", "uninstall"}
  BY <1>1, CommandFields
<1>3. CASE c.do \in Everything
  <2>1. Opens(t)
    BY <1>1, <1>3 DEF Started
  <2> QED BY <1>1, <1>3, <2>1 DEF Opens, Everything
<1>4. CASE c.do = "publish"
  <2>1. t = Call("check-slot", c.name, domain, IF PublishesSshIn(v) THEN "plain" ELSE "publish")
    BY <1>1, <1>4 DEF Started
  <2>2. t.call = "check-slot" /\ t.block = IF PublishesSshIn(v) THEN "plain" ELSE "publish"
    BY <2>1 DEF Call
  <2>3. c.wish.protocol = "ssh" => t.block = "plain"
    BY <1>1, <1>4, <2>2 DEF PublishesSshIn
  <2> QED BY <1>1, <1>4, <2>2, <2>3
<1>5. CASE c.do = "remove"
  <2>1. IF inventory[c.name].protocol = "ssh" THEN t.call = "revoke-keys" /\ t.block = "plain" ELSE Opens(t)
    BY <1>1, <1>5 DEF Started
  <2>2. c.name \in Of(inventory)
    BY <1>5, StartPlans
  <2>3. c.name \in SshOf(inventory) <=> inventory[c.name].protocol = "ssh"
    BY <2>2 DEF SshOf
  <2> QED BY <1>1, <1>5, <2>1, <2>3 DEF Opens
<1>6. CASE c.do \in {"prepare", "activate", "replace"}
  <2>1. t.call \in KeyCommands /\ t.block = "plain"
    BY <1>1, <1>6 DEF Started
  <2> QED BY <1>1, <1>6, <2>1 DEF KeyCommands
<1>7. CASE c.do = "uninstall"
  <2>1. t.call = (IF host.record = Nobody THEN "delete-project" ELSE "revoke-keys") /\ t.block = "plain"
    BY <1>1, <1>7 DEF Started
  <2> QED BY <1>1, <1>7, <2>1
<1> QED BY <1>2, <1>3, <1>4, <1>5, <1>6, <1>7 DEF Everything

LEMMA StartUnitReady ==
  ASSUME NEW c, StartsAtRest(c)
  PROVE  UnitReady(First)'
<1>1. PICK v, l : v = SettingOf(c) /\ l = CallsOf(c)
  OBVIOUS
<1>2. PICK t : t = Head(l)
  OBVIOUS
<1>3. /\ First' = t /\ t.block \in {"plain", "publish", "withdraw"}
      /\ t.call \in {"check-slot", "check-host", "unforward", "delete-record", "delete-route", "start-gateway",
                     "save", "revoke-keys", "delete-project"} \cup KeyCommands
  BY <1>1, <1>2, StartHead
<1>4. Steady'
  BY DEF StartsAtRest, AtRest, Steady
<1>5. UnitReady(t)'
  BY <1>3, <1>4, UnitQuiet DEF KeyCommands
<1> QED BY <1>3, <1>5 DEF UnitReady, Unsteady, Forwards, IsSsh, Subject, PortOf, HostOf

LEMMA StartHostReady ==
  ASSUME NEW c, StartsAtRest(c)
  PROVE  HostReady(First)'
<1>1. PICK v, l : v = SettingOf(c) /\ l = CallsOf(c)
  OBVIOUS
<1>2. PICK t : t = Head(l)
  OBVIOUS
<1>3. /\ First' = t /\ t.block \in {"plain", "publish", "withdraw"}
      /\ t.call \in {"check-slot", "check-host", "unforward", "delete-record", "delete-route", "start-gateway",
                     "save", "revoke-keys", "delete-project"} \cup KeyCommands
      /\ c.do = "publish" => t.call = "check-slot" /\ (c.wish.protocol = "ssh" => t.block = "plain")
      /\ c.do = "remove" /\ c.name \in SshOf(inventory) => t.call = "revoke-keys"
      /\ t.call = "revoke-keys" => (c.do = "remove" /\ c.name \in SshOf(inventory)) \/ c.do = "uninstall"
      /\ c.do = "uninstall" /\ host.record # Nobody => t.call = "revoke-keys"
      /\ c.do \in {"activate", "replace"} => t.call \in KeyCommands
  BY <1>1, <1>2, StartHead
<1>4. op'.cmd = c /\ host' = host /\ inventory' = inventory
  BY DEF StartsAtRest
<1>5. HostRest /\ HostRest'
  <2>1. HostRest
    BY DEF StartsAtRest, AtRest
  <2> QED BY <1>4, <2>1 DEF HostRest, HostHealthy, HostOwned, HostEnabled, SshOf, Of
<1>6. SshOf(inventory)' = SshOf(inventory) /\ HostOwned' = HostOwned /\ HostEnabled' = HostEnabled
  BY <1>4 DEF SshOf, Of, HostOwned, HostEnabled
<1>7. SshOf(inventory) # {} => HostOwned /\ host.record # Nobody
  BY <1>5 DEF HostRest, HostHealthy, HostOwned
<1>8. SshOf(inventory) = {} => ~HostEnabled
  BY <1>5 DEF HostRest
<1>9. ~(PublishesSsh' /\ (t.block \in UnitBlocks \/ t.call = "save"))
  BY <1>3, <1>4 DEF PublishesSsh, UnitBlocks
<1>10. ~(c.do \in {"activate", "replace"} /\ t.call \in Closing \cup {"enable-host"})
  BY <1>3 DEF KeyCommands, Closing
<1>11. t.call \in Closing \cup {"check-owned"} => t.call = "revoke-keys"
  BY <1>3 DEF KeyCommands, Closing
<1>12. t.call \in Closing \cup {"check-owned"} => HostOwned \/ (c.do = "uninstall" /\ SshOf(inventory) = {})
  BY <1>3, <1>7, <1>11
<1>13. t.call \notin {"terminate", "stop-daemon", "authorize", "start-daemon", "enable-record", "verify", "enable-host"}
  BY <1>3 DEF KeyCommands
<1>14. c.do = "remove" /\ ~HostIdle' => t.call = "revoke-keys"
  BY <1>3, <1>4, <1>6 DEF HostIdle
<1>15. c.do = "uninstall" => (t.call = "revoke-keys" /\ SshOf(inventory) # {}) \/ ~HostEnabled
  BY <1>3, <1>7, <1>8
<1>16. HostReady(t)'
  BY <1>4, <1>5, <1>6, <1>9, <1>10, <1>12, <1>13, <1>14, <1>15 DEF HostReady
<1> QED BY <1>3, <1>16 DEF HostReady, Subject

LEMMA StartGoesWell ==
  ASSUME NEW c, StartsAtRest(c)
  PROVE  GoesWell'
<1>1. PICK v, l : v = SettingOf(c) /\ l = CallsOf(c)
  OBVIOUS
<1>2. Setting' = v /\ op'.todo = l /\ l # <<>> /\ Listed(v, l)
  BY <1>1, StartFacts, StartList
<1>3. Listed(Setting, op.todo)'
  BY <1>2
<1>4. PlanReady' /\ NetReady'
  BY StartPlanReady, StartNetReady
<1>5. UnitReady(First)'
  BY StartUnitReady
<1>6. HostReady(First)'
  BY StartHostReady
<1>7. \A x \in ToSet(l) : x.call # "install-key"
  <2>1. "install-key" \in KeyCalls
    BY DEF KeyCalls
  <2> QED BY <1>1, <2>1, StartList
<1>8. KeysReady'
  <2>1. op'.todo \in Seq(CallRecord) /\ \A x \in ToSet(op'.todo) : x.call # "install-key"
    BY <1>2, <1>7 DEF Listed
  <2> QED BY <2>1, NoInstall
<1>9. Sound'
  BY SoundSame DEF StartsAtRest
<1> QED BY <1>2, <1>3, <1>4, <1>5, <1>6, <1>8, <1>9 DEF GoesWell, UnderWay

\* Nothing changes but who is logged in, what is scheduled, or the counts.
LEMMA GoesOnWell ==
  ASSUME GoesWell, UNCHANGED <<adapters, files, op>>
  PROVE  GoesWell'
<1>1. UNCHANGED <<host, proxy, gateway, dns, routes, inventory, domain, op>>
  BY DEF adapters, files
<1>2. Sound'
  BY <1>1, SoundSame DEF GoesWell, Sound
<1>3. CASE op.todo = <<>>
  <2>1. AtRest
    BY <1>3 DEF GoesWell
  <2>2. HostRest'
    BY <1>1, <2>1 DEF AtRest, HostRest, HostHealthy, HostOwned, HostEnabled, SshOf, Of
  <2>3. NetRest(inventory, domain)'
    BY <1>1, <2>1 DEF AtRest, NetRest, ServedAt, OwnedIn, Streams, Of, IsStream, Forwarded, GatewayOK
  <2>4. Steady'
    BY <1>1, <2>1 DEF AtRest, Steady
  <2> QED BY <1>1, <1>2, <1>3, <2>2, <2>3, <2>4 DEF GoesWell, AtRest
<1>4. CASE op.todo # <<>>
  <2>1. UnderWay
    BY <1>4 DEF GoesWell
  <2>2. Listed(Setting, op.todo)'
    BY <1>1, <2>1 DEF UnderWay, Setting
  <2>3. PublishesSsh' = PublishesSsh /\ First' = First /\ Target' = Target /\ HostIdle' = HostIdle
    BY <1>1 DEF PublishesSsh, First, Target, Setting, HostIdle, SshOf, Of
  <2>4. NetRest(inventory, domain) <=> NetRest(inventory, domain)'
    BY <1>1 DEF NetRest, ServedAt, OwnedIn, Streams, Of, IsStream, Forwarded, GatewayOK
  <2>5. PlanReady'
    <3>1. Unique(op.plan) <=> Unique(op.plan)'
      BY <1>1 DEF Unique, SlotFree, Of, IsStream
    <3>2. Compatible(op.plan) <=> Compatible(op.plan)'
      BY <1>1 DEF Compatible, StreamPorts, Streams, Of, IsStream
    <3>3. \A X : MayRefuse(X) <=> MayRefuse(X)'
      BY <1>1, <2>3 DEF MayRefuse
    <3>4. /\ Unique(op.plan) \/ MayRefuse({"check-slot"})
          /\ Compatible(op.plan) \/ MayRefuse({"check-slot", "check-forwarding"})
          /\ PublishesSsh /\ First.call \in BeforeNet /\ ~MayRefuse(Checking)
               => (<<op.cmd.wish.label, domain>> \in dns
                     => \E n \in Of(inventory) : inventory[n].label = op.cmd.wish.label)
      BY <2>1 DEF UnderWay, PlanReady
    <3> QED BY <1>1, <2>3, <3>1, <3>2, <3>3, <3>4 DEF PlanReady, Of
  <2>6. NetReady'
    <3>1. ASSUME NEW m \in Of(op'.plan)
          PROVE  ServedAt(op.plan[m], TargetOf(Setting))' \/ Awaits(m)' \/ InUnit(m)'
      <4>1. ServedAt(op.plan[m], TargetOf(Setting)) \/ Awaits(m) \/ InUnit(m)
        BY <1>1, <2>1, <3>1 DEF UnderWay, NetReady, Of
      <4>2. ServedAt(op.plan[m], TargetOf(Setting)) <=> ServedAt(op.plan[m], TargetOf(Setting))'
        BY <1>1 DEF ServedAt, IsStream, Forwarded, GatewayOK, TargetOf, Setting
      <4>3. (Awaits(m) <=> Awaits(m)') /\ (InUnit(m) <=> InUnit(m)')
        BY <1>1, <2>3 DEF Awaits, InUnit
      <4> QED BY <4>1, <4>2, <4>3
    <3>2. \A t : /\ PortOf(t)' = PortOf(t) /\ HostOf(t)' = HostOf(t)
                 /\ \A p : Removes(t, p) <=> Removes(t, p)'
      BY <1>1 DEF Removes, PortOf, HostOf, Subject
    <3>3. ASSUME NEW p \in Port
          PROVE  \/ proxy'.record[p] = Free \/ OwnedIn(op.plan, TargetOf(Setting), p)'
                 \/ \E t \in ToSet(op'.todo) : Removes(t, p)'
      <4>1. \/ proxy.record[p] = Free \/ OwnedIn(op.plan, TargetOf(Setting), p)
            \/ \E t \in ToSet(op.todo) : Removes(t, p)
        BY <2>1 DEF UnderWay, NetReady
      <4>2. OwnedIn(op.plan, TargetOf(Setting), p) <=> OwnedIn(op.plan, TargetOf(Setting), p)'
        BY <1>1 DEF OwnedIn, Streams, Of, IsStream, Forwarded, TargetOf, Setting
      <4> QED BY <1>1, <3>2, <4>1, <4>2
    <3>4. \A t \in ToSet(op'.todo) : t.call = "unforward" => proxy'.record[PortOf(t)'] \in {Free, HostOf(t)'}
      BY <1>1, <2>1, <3>2 DEF UnderWay, NetReady
    <3>5. op'.cmd.do = "publish" /\ First'.call \in BeforeNet => NetRest(inventory, domain)'
      BY <1>1, <2>1, <2>3, <2>4 DEF UnderWay, NetReady
    <3> QED BY <3>1, <3>3, <3>4, <3>5 DEF NetReady, Of
  <2>7. UnitReady(First)'
    <3>1. UnitReady(First)
      BY <2>1 DEF UnderWay
    <3> QED BY <1>1, <3>1 DEF UnitReady, Unsteady, Forwards, IsSsh, Subject, PortOf, HostOf, Steady, IsStream, Forwarded,
                   GatewayOK, TargetOf, Setting, First
  <2>8. HostReady(First)'
    <3>1. HostReady(First)
      BY <2>1 DEF UnderWay
    <3>2. (HostRest <=> HostRest') /\ SshOf(inventory)' = SshOf(inventory)
      BY <1>1 DEF HostRest, HostHealthy, HostOwned, HostEnabled, SshOf, Of
    <3>3. \A X : MayRefuse(X) <=> MayRefuse(X)'
      BY <1>1, <2>3 DEF MayRefuse
    <3>4. (HostOwned <=> HostOwned') /\ (HostEnabled <=> HostEnabled') /\ \A a : HostHealthy(a) <=> HostHealthy(a)'
      BY <1>1 DEF HostOwned, HostEnabled, HostHealthy
    <3> QED BY <1>1, <2>3, <3>1, <3>2, <3>3, <3>4 DEF HostReady, Subject
  <2>9. KeysReady'
    BY <1>1, <2>1 DEF UnderWay, KeysReady, WrittenBefore, Subject
  <2> QED BY <1>1, <1>2, <1>4, <2>2, <2>5, <2>6, <2>7, <2>8, <2>9 DEF GoesWell, UnderWay
<1> QED BY <1>3, <1>4

LEMMA InitServes == Init => CalmInv
<1> SUFFICES ASSUME Init PROVE CalmInv
  OBVIOUS
<1>1. /\ inventory = [n \in Name |-> Absent] /\ op.todo = <<>> /\ op.late = FALSE /\ host.record = Nobody
      /\ gateway.ports = {}
  BY DEF Init, HostInit, NoHostSsh, NoOp, ForwardingInit, NoGateway
<1>2. /\ proxy.record = [p \in Port |-> Free] /\ proxy.unit = [p \in Port |-> Free] /\ proxy.live = {}
      /\ proxy.admin \in {"ssh", "stopped"} /\ proxy.saved = "none"
  BY DEF Init, ForwardingInit, NoForwarding
<1>3. Of(inventory) = {} /\ SshOf(inventory) = {} /\ Streams(inventory) = {} /\ StreamPorts(inventory) = {}
  BY <1>1 DEF Of, SshOf, Streams, StreamPorts
<1>4. Sound
  BY <1>1, <1>2, <1>3 DEF Sound, Unique, Compatible
<1>5. HostRest /\ NetRest(inventory, domain) /\ Steady
  BY <1>1, <1>2, <1>3 DEF HostRest, HostEnabled, NetRest, Steady
<1> QED BY <1>1, <1>4, <1>5 DEF CalmInv, AtRest

LEMMA CountedCalm ==
  ASSUME count \in CountType, NEW event \in {"commands", "logins", "faults", "crashes"}, Counted(event)
  PROVE  /\ event \in {"commands", "logins"} => (Calm' <=> Calm)
         /\ event \in {"faults", "crashes"} => ~Calm'
<1>1. count' = [count EXCEPT ![event] = @ + 1]
  BY DEF Counted
<1>2. CASE event = "commands"
  BY <1>1, <1>2 DEF CountType, Calm
<1>3. CASE event = "logins"
  BY <1>1, <1>3 DEF CountType, Calm
<1>4. CASE event = "faults"
  BY <1>1, <1>4 DEF CountType, Calm
<1>5. CASE event = "crashes"
  BY <1>1, <1>5 DEF CountType, Calm
<1> QED BY <1>2, <1>3, <1>4, <1>5

\* A command begins.
LEMMA StartServes ==
  ASSUME IInv, CalmInv, Idle, NEW c \in Command, Possible(c), NEW from, Start(c, from),
         UNCHANGED <<adapters, files>>, Calm' => Calm
  PROVE  CalmInv'
<1> SUFFICES ASSUME Calm' PROVE GoesWell'
  BY DEF CalmInv, GoesWell
<1>1. Sound /\ AtRest
  BY DEF CalmInv, Idle, NoOp
<1>2. /\ op'.cmd = c /\ op'.plan = PlanOf(c) /\ op'.todo = CallsOf(c) /\ op'.late = FALSE
      /\ UNCHANGED <<host, proxy, gateway, dns, routes, inventory, domain>>
  <2> DEFINE P == PlanOf(c)
             L == CallsOf(c)
  <2>1. op' = [NoOp EXCEPT !.cmd = c, !.from = from, !.todo = L, !.plan = P]
    BY DEF Start
  <2> HIDE DEF P, L
  <2>2. op'.cmd = c /\ op'.plan = P /\ op'.todo = L /\ op'.late = FALSE
    BY <2>1 DEF NoOp
  <2> QED BY <2>2 DEF P, L, adapters, files
<1>3. StartsAtRest(c)
  BY <1>1, <1>2 DEF StartsAtRest
<1> QED BY <1>3, StartGoesWell

\* A command goes on as it was.
LEMMA SameServes ==
  ASSUME CalmInv, UNCHANGED <<adapters, files>>, op' = op, Calm' => Calm
  PROVE  CalmInv'
<1> SUFFICES ASSUME Calm' PROVE GoesWell'
  BY DEF CalmInv, GoesWell
<1>1. GoesWell
  BY DEF CalmInv, GoesWell
<1> QED BY <1>1, GoesOnWell

\* A command is over.
LEMMA EndServes ==
  ASSUME CalmInv, End
  PROVE  CalmInv'
<1>1. /\ op.todo = <<>> /\ op' = NoOp /\ UNCHANGED <<adapters, files>> /\ count' = count
  BY DEF End
<1>2. op'.todo = <<>> /\ op'.late = FALSE
  BY <1>1 DEF NoOp
<1> SUFFICES ASSUME Calm' PROVE GoesWell'
  BY DEF CalmInv, GoesWell
<1>3. Sound /\ AtRest
  BY <1>1 DEF CalmInv, Calm
<1>4. UNCHANGED <<host, proxy, gateway, dns, routes, inventory, domain>>
  BY <1>1 DEF adapters, files
<1>5. Sound'
  BY <1>2, <1>3, <1>4, SoundSame
<1>6. HostRest'
  BY <1>3, <1>4 DEF AtRest, HostRest, HostHealthy, HostOwned, HostEnabled, SshOf, Of
<1>7. NetRest(inventory, domain)'
  BY <1>3, <1>4 DEF AtRest, NetRest, ServedAt, OwnedIn, Streams, Of, IsStream, Forwarded, GatewayOK
<1>8. Steady'
  BY <1>3, <1>4 DEF AtRest, Steady
<1> QED BY <1>2, <1>5, <1>6, <1>7, <1>8 DEF GoesWell, AtRest

LEMMA RunServes ==
  ASSUME IInv, JInv, CalmInv, Run
  PROVE  CalmInv'
<1>1. UNCHANGED <<job, failed, count>> /\ count' = count /\ count \in CountType
  BY DEF Run, JInv
<1>2. op.todo # <<>>
  <2>1. CASE Save \/ DeleteProject
    BY <2>1 DEF Save, DeleteProject, On
  <2>2. CASE Checks \/ Expand \/ HostCalls \/ ProxyCalls \/ NameCalls
    BY <1>1, <2>2, ChecksGo, ExpandGoesOn, HostCallsGo, ProxyCallsGo DEF Compound, Ends
  <2> QED BY <2>1, <2>2 DEF Run
<1> SUFFICES ASSUME Calm' PROVE GoesWell'
  BY DEF CalmInv, GoesWell
<1>3. Sound /\ UnderWay
  BY <1>1, <1>2 DEF CalmInv, Calm
<1>4. Active
  BY <1>2, <1>3 DEF Active
<1> QED BY <1>4, RunGoesWell

LEMMA NextServes == IInv /\ JInv /\ CalmInv /\ [Next]_vars => CalmInv'
<1> SUFFICES ASSUME IInv, JInv, CalmInv, [Next]_vars PROVE CalmInv'
  OBVIOUS
<1>0. count \in CountType /\ (count' = count => (Calm' => Calm))
  BY DEF JInv, Calm
<1>1. CASE UNCHANGED vars
  BY <1>0, <1>1, SameServes DEF vars
<1>2. ASSUME NEW c \in Command, Begin(c) PROVE CalmInv'
  <2>1. Idle /\ Possible(c) /\ Counted("commands") /\ UNCHANGED <<adapters, files>> /\ \E from : Start(c, from)
    BY <1>2 DEF Begin
  <2>2. Calm' => Calm
    BY <1>0, <2>1, CountedCalm
  <2> QED BY <2>1, <2>2, StartServes
<1>3. ASSUME NEW c \in Command, Schedule(c) PROVE CalmInv'
  <2>1. Counted("commands") /\ UNCHANGED <<adapters, files>> /\ op' = op
    BY <1>3 DEF Schedule
  <2>2. Calm' => Calm
    BY <1>0, <2>1, CountedCalm
  <2> QED BY <2>1, <2>2, SameServes
<1>4. CASE Work
  <2>1. UNCHANGED <<adapters, files>> /\ count' = count /\ job.state = "scheduled"
    BY <1>4 DEF Work
  <2>2. CASE Idle /\ Possible(job.cmd) /\ Start(job.cmd, "worker")
    <3>1. PICK c \in Command : c = job.cmd
      BY <2>1 DEF IInv, CommandOK
    <3> QED BY <1>0, <2>1, <2>2, <3>1, StartServes
  <2>3. CASE op' = op
    BY <1>0, <2>1, <2>3, SameServes
  <2> QED BY <1>4, <2>2, <2>3 DEF Work
<1>5. CASE Repeat
  <2>1. UNCHANGED <<adapters, files>> /\ count' = count /\ Idle /\ Possible(failed) /\ Start(failed, "console")
    BY <1>5 DEF Repeat
  <2>2. PICK c \in Command : c = failed
    BY <1>5 DEF Repeat, IInv, CommandOK
  <2> QED BY <1>0, <2>1, <2>2, StartServes
<1>6. CASE Run
  BY <1>6, RunServes
<1>7. CASE End
  BY <1>7, EndServes
<1>8. CASE Login
  <2>1. UNCHANGED <<adapters, files>> /\ op' = op /\ Counted("logins")
    BY <1>8 DEF Login
  <2>2. Calm' => Calm
    BY <1>0, <2>1, CountedCalm
  <2> QED BY <2>1, <2>2, SameServes
<1>9. CASE Logout
  BY <1>0, <1>9, SameServes DEF Logout
<1>10. CASE Fault
  <2>1. Counted("faults")
    BY <1>10 DEF Fault
  <2>2. ~Calm'
    BY <1>0, <2>1, CountedCalm
  <2> QED BY <2>2 DEF CalmInv
<1>11. CASE Crash
  <2>1. Counted("crashes")
    BY <1>11 DEF Crash
  <2>2. ~Calm'
    BY <1>0, <2>1, CountedCalm
  <2> QED BY <2>2 DEF CalmInv
<1> QED BY <1>1, <1>2, <1>3, <1>4, <1>5, <1>6, <1>7, <1>8, <1>9, <1>10, <1>11 DEF Next

LEMMA ServedFromCalm == CalmInv => ExposuresServed
<1> SUFFICES ASSUME CalmInv, Idle, Calm, NEW n \in Of(inventory)
             PROVE  /\ <<inventory[n].label, domain>> \in dns
                    /\ IF IsStream(inventory[n])
                       THEN /\ proxy.record[inventory[n].port] = <<inventory[n].label, domain>>
                            /\ inventory[n].port \in proxy.live
                            /\ (inventory[n].port \in gateway.ports) = (gateway.up /\ inventory[n].tailnet)
                       ELSE <<inventory[n].label, domain>> \in routes
  BY DEF ExposuresServed, Calm
<1>1. AtRest
  BY DEF CalmInv, Idle, NoOp
<1>2. ServedAt(inventory[n], domain)
  BY <1>1 DEF AtRest, NetRest
<1> QED BY <1>2 DEF ServedAt, Forwarded, GatewayOK

\* Without faults and crashes, what nomina.yaml records is served between the commands of cli.js:
\* its DNS record, its route or its forwarding, and the gateway's port when the tailnet is to reach
\* it, whatever was published, changed, removed, refused or uninstalled next to it.
THEOREM RecordedIsServed == Spec => []ExposuresServed
<1>1. Spec => []JInv
  BY InitAccess, NextAccess, InductiveExposures, PTL DEF Spec
<1>2. Spec => []CalmInv
  BY <1>1, InitServes, NextServes, InductiveExposures, PTL DEF Spec
<1> QED BY <1>2, ServedFromCalm, PTL
=============================================================================
