---------------------------- MODULE SessionProofs ----------------------------
(***************************************************************************)
(* Proofs about Config and Session.  For every file, the upstreams that    *)
(* the session recomputes are those that Load wired.  For any number of    *)
(* supervisors, sessions, resources and ports, whatever a reload finds and *)
(* whatever programs outside bind, no session trespasses on another.       *)
(***************************************************************************)
EXTENDS Session, TLAPS, NaturalsInduction, WellFoundedInduction

-----------------------------------------------------------------------------
(* The first of several *)

\* Numbers that are not none have a least one.
LEMMA LeastNumber ==
  ASSUME NEW S, S \subseteq Nat, S # {}
  PROVE  \E i \in S : \A j \in S : i <= j
<1> DEFINE less == {pair \in Nat \X Nat : pair[1] < pair[2]}
<1>1. less = OpToRel(<, Nat)
  BY DEF OpToRel
<1>2. IsWellFoundedOn(less, Nat)
  BY <1>1, NatLessThanWellFounded
<1> HIDE DEF less
<1>3. PICK i \in S : \A j \in S : ~(<<j, i>> \in less)
  BY <1>2, WFMin
<1>4. ASSUME NEW j \in S PROVE i <= j
  <2>1. <<j, i>> \notin less
    BY <1>3
  <2> QED  BY <2>1 DEF less
<1> QED  BY <1>4

\* FirstOf finds a candidate among the names, if there is one.
LEMMA FirstIsCandidate ==
  ASSUME NEW names, DOMAIN names \subseteq Nat, NEW candidates,
         FirstOf(names, candidates) # NoName
  PROVE  FirstOf(names, candidates) \in candidates
<1> DEFINE hits == {i \in DOMAIN names : names[i] \in candidates}
<1>1. FirstOf(names, candidates)
        = IF hits = {} THEN NoName ELSE names[CHOOSE i \in hits : \A j \in hits : i <= j]
  BY DEF FirstOf
<1>2. hits # {} /\ hits \subseteq Nat
  BY <1>1
<1>3. \E i \in hits : \A j \in hits : i <= j
  BY <1>2, LeastNumber
<1> DEFINE i == CHOOSE k \in hits : \A j \in hits : k <= j
<1>4. i \in hits
  BY <1>3
<1> QED  BY <1>1, <1>2, <1>4

\* Candidates that are not among the names do not matter.
LEMMA FirstIgnores ==
  ASSUME NEW names, NEW A, NEW B, \A i \in DOMAIN names : names[i] \in A <=> names[i] \in B
  PROVE  FirstOf(names, A) = FirstOf(names, B)
<1> DEFINE hits(C) == {i \in DOMAIN names : names[i] \in C}
           pick(H) == IF H = {} THEN NoName ELSE names[CHOOSE i \in H : \A j \in H : i <= j]
<1>1. hits(A) = hits(B)
  OBVIOUS
<1>2. FirstOf(names, A) = pick(hits(A)) /\ FirstOf(names, B) = pick(hits(B))
  BY DEF FirstOf
<1>3. \A H, G : H = G => pick(H) = pick(G)
  OBVIOUS
<1> HIDE DEF hits, pick
<1> QED  BY <1>1, <1>2, <1>3

-----------------------------------------------------------------------------
(* The upstreams of the loaded configuration *)

\* What Load leaves of the processes, as far as the upstreams are concerned.
Kept(raw, procs) ==
  /\ MergePortProcessName \notin DOMAIN raw
  /\ DOMAIN procs = DOMAIN raw \cup {MergePortProcessName}
  /\ Declared(procs[MergePortProcessName]) = NoPORT
  /\ procs[MergePortProcessName].http = Undeclared
  /\ \A n \in DOMAIN raw :
       /\ Declared(procs[n]) = Declared(raw[n])
       /\ procs[n].http = raw[n].http
       /\ procs[n].mode = raw[n].mode

\* The proxy is served on no port that is known, and everybody else is served
\* as before.
LEMMA ServedKept ==
  ASSUME NEW raw, NEW procs, Kept(raw, procs)
  PROVE  servedPorts(procs) = servedPorts(raw)
<1> DEFINE known(P) == {m \in DOMAIN P : Known(P, m)}
<1>1. ~Known(procs, MergePortProcessName)
  BY ConfigAssumption DEF Kept, Known, Undeclared, PortNumber
<1>2. ASSUME NEW n \in DOMAIN raw PROVE Known(procs, n) <=> Known(raw, n)
  <2>1. CASE Declared(raw[n]) = NoPORT
    BY <2>1 DEF Kept, Known
  <2>2. CASE Declared(raw[n]) # NoPORT
    <3>1. Undeclared \notin PortNumber
      BY ConfigAssumption DEF Undeclared, PortNumber
    <3>2. Resolvable(procs, Declared(raw[n])) <=> Resolvable(raw, Declared(raw[n]))
      BY <3>1 DEF Kept, Resolvable
    <3> QED  BY <2>2, <3>2 DEF Kept, Known
  <2> QED  BY <2>1, <2>2
<1>3. known(procs) = known(raw)
  BY <1>1, <1>2 DEF Kept
<1>4. ASSUME NEW n \in known(raw) PROVE ServedPort(procs, n) = ServedPort(raw, n)
  <2>1. n \in DOMAIN raw /\ Known(raw, n)
    BY <1>4
  <2>2. CASE Declared(raw[n]) = NoPORT
    BY <2>1, <2>2 DEF Kept, ServedPort
  <2>3. CASE Declared(raw[n]) # NoPORT
    <3>1. Declared(raw[n]).is = "ref" =>
            procs[Declared(raw[n]).of].http = raw[Declared(raw[n]).of].http
      BY <2>1, <2>3 DEF Kept, Known, Resolvable
    <3> QED  BY <2>1, <2>3, <3>1 DEF Kept, ServedPort
  <2> QED  BY <2>2, <2>3
<1> QED  BY <1>3, <1>4 DEF servedPorts

\* The same processes are found, and the same ports.
LEMMA UpstreamsKept ==
  ASSUME NEW raw, NEW procs, Kept(raw, procs), NEW m, m.client_process # MergePortProcessName,
         NEW served, served = servedPorts(raw)
  PROVE  resolveUpstreamProcesses(serviceUpstreams(procs), served, m)
           = resolveUpstreamProcesses(serviceUpstreams(raw), served, m)
<1> DEFINE now == serviceUpstreams(procs)
           then == serviceUpstreams(raw)
<1>1. now \ {MergePortProcessName} = then \ {MergePortProcessName}
  <2>1. \A n \in DOMAIN raw : EffectiveMode(procs[n]) = EffectiveMode(raw[n])
    BY Zenon DEF Kept, EffectiveMode
  <2> QED  BY <2>1 DEF Kept, serviceUpstreams
<1> HIDE DEF now, then
<1>2. ASSUME NEW port PROVE procWithPort(now, served, port) = procWithPort(then, served, port)
  <2> DEFINE found(C) == {n \in C \cap DOMAIN served :
                            port > 0 /\ n # MergePortProcessName /\ served[n].port = port}
  <2>1. found(now) = found(then)
    BY <1>1
  <2> QED  BY <2>1 DEF procWithPort
<1>3. FirstOf(ServerNames, now) = FirstOf(ServerNames, then)
  <2>1. \A i \in DOMAIN ServerNames : ServerNames[i] # MergePortProcessName
    BY DEF ServerNames, MergePortProcessName
  <2> QED  BY <1>1, <2>1, FirstIgnores
<1>4. FirstOf(ClientNames, now) = FirstOf(ClientNames, then)
  <2>1. \A i \in DOMAIN ClientNames : ClientNames[i] # MergePortProcessName
    BY DEF ClientNames, MergePortProcessName
  <2> QED  BY <1>1, <2>1, FirstIgnores
<1>5. m.client_process \in now <=> m.client_process \in then
  BY <1>1
<1>6. /\ findServerProc(now, served, m) = findServerProc(then, served, m)
      /\ findClientProc(now, served, m) = findClientProc(then, served, m)
  BY <1>2, <1>3, <1>4, <1>5 DEF findServerProc, findClientProc
<1>7. {procWithPort(now, served, port) : port \in m.routes}
        = {procWithPort(then, served, port) : port \in m.routes}
  BY <1>2
<1>8. resolveUpstreamProcesses(now, served, m) = resolveUpstreamProcesses(then, served, m)
  BY <1>6, <1>7 DEF resolveUpstreamProcesses
<1> QED  BY <1>8 DEF now, then

\* A process that is found by its port is a candidate that is served on it.
LEMMA FoundByPort ==
  ASSUME NEW candidates, NEW served, NEW port, procWithPort(candidates, served, port) # NoName
  PROVE  LET n == procWithPort(candidates, served, port)
         IN  n \in candidates \cap DOMAIN served /\ served[n].port = port
<1> DEFINE found == {n \in candidates \cap DOMAIN served :
                       port > 0 /\ n # MergePortProcessName /\ served[n].port = port}
<1>1. procWithPort(candidates, served, port) = FirstOf(NameOrder, found)
  BY DEF procWithPort
<1>2. DOMAIN NameOrder \subseteq Nat
  BY ConfigAssumption
<1>3. FirstOf(NameOrder, found) \in found
  BY <1>1, <1>2, FirstIsCandidate
<1> QED  BY <1>1, <1>3

\* The upstreams of a merge that Load accepts are services, and served on the
\* port the proxy sends their traffic to, as far as it is known.
LEMMA UpstreamsSound ==
  ASSUME NEW c, NEW served, MergeAccepted(c, served), NEW up,
         up = resolveUpstreamProcesses(serviceUpstreams(c.procs), served, c.merge)
  PROVE  \A n \in DOMAIN up :
           /\ n \in serviceUpstreams(c.procs)
           /\ up[n] \in PortNumber
           /\ up[n] \in (IF c.merge.routes # {} THEN c.merge.routes
                         ELSE {c.merge.client, c.merge.server})
           /\ n \in DOMAIN served => served[n].port = up[n]
<1> DEFINE C == serviceUpstreams(c.procs)
           m == c.merge
           client == findClientProc(C, served, m)
           server == findServerProc(C, served, m)
<1>1. buildMergeCmd(m)
  BY DEF MergeAccepted
<1>2. CASE m.routes # {}
  <2> DEFINE routed == {procWithPort(C, served, port) : port \in m.routes} \ {NoName}
  <2>1. up = [n \in routed |-> served[n].port]
    BY <1>2 DEF resolveUpstreamProcesses
  <2>2. ASSUME NEW n \in routed
        PROVE  n \in C /\ served[n].port \in m.routes
    <3>1. PICK port \in m.routes : n = procWithPort(C, served, port)
      OBVIOUS
    <3> QED  BY <3>1, FoundByPort
  <2>3. m.routes \subseteq PortNumber
    BY <1>1 DEF buildMergeCmd
  <2> HIDE DEF routed, C, m
  <2>4. \A n \in DOMAIN up : n \in C /\ up[n] \in PortNumber /\ up[n] \in m.routes
                             /\ served[n].port = up[n]
    BY <2>1, <2>2, <2>3
  <2> QED  BY <1>2, <2>4 DEF C, m
<1>3. CASE m.routes = {}
  <2>1. up = [n \in ({client, server} \ {NoName}) |-> IF n = server THEN m.server ELSE m.client]
    BY <1>3 DEF resolveUpstreamProcesses
  <2>2. m.client \in PortNumber /\ m.server \in PortNumber
    BY <1>1, <1>3 DEF buildMergeCmd
  <2>3. /\ client \in DOMAIN served => served[client].port = m.client
        /\ server \in DOMAIN served => served[server].port = m.server
    BY <1>3 DEF MergeAccepted, checkUpstreamPort
  <2>4. server # NoName => server \in C
    <3>1. DOMAIN ServerNames \subseteq Nat
      BY DEF ServerNames
    <3> QED  BY <3>1, FoundByPort, FirstIsCandidate DEF findServerProc
  <2>5. client # NoName => client \in C
    <3>1. DOMAIN ClientNames \subseteq Nat
      BY DEF ClientNames
    <3> QED  BY <3>1, FoundByPort, FirstIsCandidate DEF findClientProc
  <2> HIDE DEF C, m, client, server
  <2>6. \A n \in DOMAIN up :
          /\ n \in C /\ up[n] \in PortNumber /\ up[n] \in {m.client, m.server}
          /\ n \in DOMAIN served => served[n].port = up[n]
    BY <2>1, <2>2, <2>3, <2>4, <2>5
  <2> QED  BY <1>3, <2>6 DEF C, m
<1> QED  BY <1>2, <1>3

\* What Load made of a file it accepts.
LEMMA LoadedIs ==
  ASSUME NEW f, Load(f).ok
  PROVE  LET c == Defaulted(f)
             served == servedPorts(c.procs)
             up == resolveUpstreamProcesses(serviceUpstreams(c.procs), served, c.merge)
             wired == IF c.merge.on THEN Wire(c, up) ELSE c
         IN  /\ Load(f) = Finish(wired)
             /\ c.merge.on => MergeAccepted(c, served)
             /\ \A n \in DOMAIN wired.procs : ValidProcess(wired.procs[n])
<1>1. ~Refused.ok
  BY DEF Refused
<1> QED  BY <1>1 DEF Load

\* Load defaults the merge port, and nothing else.
LEMMA DefaultedIs ==
  ASSUME NEW f, IsFile(f)
  PROVE  /\ IsFile(Defaulted(f))
         /\ Defaulted(f).procs = f.procs /\ Defaulted(f).resources = f.resources
         /\ Defaulted(f).merge.on = f.merge.on
         /\ Defaulted(f).merge.client_process = f.merge.client_process
<1>1. DefaultPort \in Int
  BY ConfigAssumption
<1>2. f.merge \in MergeRecord /\ DOMAIN f = {"merge", "resources", "procs"}
  BY DEF IsFile
<1>3. [f.merge EXCEPT !.port = DefaultPort] \in MergeRecord
  BY <1>1, <1>2 DEF MergeRecord
<1>4. CASE f.merge.on /\ f.merge.port = 0
  <2> DEFINE m == [f.merge EXCEPT !.port = DefaultPort]
  <2>1. Defaulted(f) = [f EXCEPT !.merge = m]
    BY <1>4, <1>2 DEF Defaulted
  <2>2. m.on = f.merge.on /\ m.client_process = f.merge.client_process
    BY <1>2 DEF MergeRecord
  <2> HIDE DEF m
  <2> QED  BY <1>2, <1>3, <2>1, <2>2 DEF IsFile, m
<1>5. CASE ~(f.merge.on /\ f.merge.port = 0)
  BY <1>5 DEF Defaulted
<1> QED  BY <1>4, <1>5

\* The env_file is merged below the env block: the PORT stays what it was.
LEMMA EnvKept ==
  ASSUME NEW p \in ProcessRecord
  PROVE  /\ MergeEnvFile(p) \in ProcessRecord
         /\ Declared(MergeEnvFile(p)) = Declared(p)
         /\ MergeEnvFile(p).http = p.http /\ MergeEnvFile(p).mode = p.mode
         /\ MergeEnvFile(p).probe = p.probe /\ MergeEnvFile(p).deps = p.deps
         /\ MergeEnvFile(p).refs = p.refs
  BY DEF MergeEnvFile, Declared, ProcessRecord

\* Nor does the injected probe change it.
LEMMA ProbeInjected ==
  ASSUME NEW p \in ProcessRecord, NEW port \in Int
  PROVE  /\ injectTCPReadyIfMissing(p, port) \in ProcessRecord
         /\ Declared(injectTCPReadyIfMissing(p, port)) = Declared(p)
         /\ injectTCPReadyIfMissing(p, port).http = p.http
         /\ injectTCPReadyIfMissing(p, port).mode = p.mode
         /\ port # 0 => injectTCPReadyIfMissing(p, port).probe # 0
  BY DEF injectTCPReadyIfMissing, Declared, ProcessRecord

\* The proxy declares no port, and waits for its upstreams.
LEMMA ProxyIs ==
  ASSUME NEW c, NEW up
  PROVE  LET p == MergeEnvFile(mergeProc(c, up))
         IN  Declared(p) = NoPORT /\ p.http = Undeclared /\ p.deps = DOMAIN up
<1> DEFINE q == mergeProc(c, up)
<1>1. q.env = NoPORT /\ q.file = NoPORT /\ q.http = Undeclared /\ q.deps = DOMAIN up
  BY DEF mergeProc
<1>2. DOMAIN q = {"mode", "restart", "health", "probe", "deps", "env", "file", "http", "refs"}
  BY DEF mergeProc
<1> HIDE DEF q
<1>3. q = [n \in DOMAIN q |-> q[n]]
  BY DEF q, mergeProc
<1>4. Declared(q) = NoPORT
  BY <1>1 DEF Declared
<1> QED  BY <1>1, <1>2, <1>3, <1>4 DEF MergeEnvFile, Declared, q

\* The processes of a loaded configuration with a merge.
LEMMA LoadKeeps ==
  ASSUME NEW f, IsFile(f), Load(f).ok, f.merge.on
  PROVE  LET c == Defaulted(f)
             served == servedPorts(c.procs)
             up == resolveUpstreamProcesses(serviceUpstreams(c.procs), served, c.merge)
         IN  /\ Kept(c.procs, Load(f).procs) /\ Load(f).merge = c.merge
             /\ MergeAccepted(c, served)
             /\ Load(f).procs[MergePortProcessName].deps = DOMAIN up
             /\ \A n \in DOMAIN c.procs \cap DOMAIN up :
                  up[n] \in PortNumber => Load(f).procs[n].probe # 0
<1> DEFINE c == Defaulted(f)
           served == servedPorts(c.procs)
           up == resolveUpstreamProcesses(serviceUpstreams(c.procs), served, c.merge)
           inner(n) == IF n = MergePortProcessName THEN mergeProc(c, up)
                       ELSE IF n \in DOMAIN up THEN injectTCPReadyIfMissing(c.procs[n], up[n])
                       ELSE c.procs[n]
           names == DOMAIN c.procs \cup {MergePortProcessName}
           L == Load(f).procs
<1>1. IsFile(c) /\ c.merge.on
  BY DefaultedIs
<1>2. Load(f) = Finish(Wire(c, up)) /\ MergeAccepted(c, served)
  BY <1>1, LoadedIs
<1>3. MergePortProcessName \notin DOMAIN c.procs
  BY <1>2 DEF MergeAccepted
<1>4. /\ DOMAIN c = {"merge", "resources", "procs"}
      /\ c = [x \in DOMAIN c |-> c[x]]
      /\ \A n \in DOMAIN c.procs : c.procs[n] \in ProcessRecord
  BY <1>1 DEF IsFile
<1> HIDE DEF c, served, up
<1>5. Wire(c, up).procs = [n \in names |-> inner(n)] /\ Wire(c, up).merge = c.merge
  BY <1>4 DEF Wire
<1>6. L = [n \in names |-> MergeEnvFile(inner(n))] /\ Load(f).merge = c.merge
  BY <1>2, <1>5 DEF Finish
<1> HIDE DEF L
<1>7. /\ Declared(L[MergePortProcessName]) = NoPORT
      /\ L[MergePortProcessName].http = Undeclared
      /\ L[MergePortProcessName].deps = DOMAIN up
  BY <1>6, ProxyIs
<1>8. \A n \in DOMAIN up : up[n] \in Int
  BY <1>2, UpstreamsSound DEF up, PortNumber
<1>9. ASSUME NEW n \in DOMAIN c.procs
      PROVE  /\ Declared(L[n]) = Declared(c.procs[n])
             /\ L[n].http = c.procs[n].http /\ L[n].mode = c.procs[n].mode
             /\ n \in DOMAIN up /\ up[n] \in PortNumber => L[n].probe # 0
  <2>1. L[n] = MergeEnvFile(inner(n)) /\ n # MergePortProcessName
    BY <1>3, <1>6
  <2>2. c.procs[n] \in ProcessRecord
    BY <1>4
  <2>3. CASE n \in DOMAIN up
    <3>1. inner(n) = injectTCPReadyIfMissing(c.procs[n], up[n])
      BY <2>1, <2>3
    <3>2. up[n] \in Int /\ (up[n] \in PortNumber => up[n] # 0)
      BY <1>8, <2>3 DEF PortNumber
    <3> HIDE DEF inner
    <3> QED  BY <2>1, <2>2, <3>1, <3>2, ProbeInjected, EnvKept
  <2>4. CASE n \notin DOMAIN up
    BY <2>1, <2>2, <2>4, EnvKept
  <2> QED  BY <2>3, <2>4
<1>10. Kept(c.procs, L)
  BY <1>3, <1>6, <1>7, <1>9 DEF Kept
<1> QED  BY <1>2, <1>6, <1>7, <1>9, <1>10 DEF c, served, up, L

\* The configuration that is loaded is one that agrees on its upstreams.
LEMMA LoadAgrees ==
  ASSUME IsFile(file), file.merge.client_process # MergePortProcessName,
         loaded = Load(file)
  PROVE  UpstreamsAgree
<1> SUFFICES ASSUME loaded.ok, loaded.merge.on PROVE UpstreamsAgree
  BY DEF UpstreamsAgree
<1> DEFINE c == Defaulted(file)
           procs == loaded.procs
           served == servedPorts(procs)
           up == resolveUpstreamProcesses(serviceUpstreams(procs), served, loaded.merge)
<1>1. file.merge.on
  <2>1. SUFFICES ASSUME ~file.merge.on PROVE FALSE
    OBVIOUS
  <2>2. Load(file) = Finish(c) /\ ~c.merge.on
    BY <2>1, DefaultedIs, LoadedIs
  <2> QED  BY <2>2 DEF Finish
<1>2. /\ Kept(c.procs, procs) /\ loaded.merge = c.merge
      /\ c.merge.client_process # MergePortProcessName
  BY <1>1, LoadKeeps, DefaultedIs
<1>3. served = servedPorts(c.procs)
  BY <1>2, ServedKept
<1>4. up = resolveUpstreamProcesses(serviceUpstreams(c.procs), served, c.merge)
  BY <1>2, <1>3, UpstreamsKept
<1>5. /\ MergeAccepted(c, served)
      /\ procs[MergePortProcessName].deps = DOMAIN up
      /\ \A n \in DOMAIN c.procs \cap DOMAIN up : up[n] \in PortNumber => procs[n].probe # 0
  BY <1>1, <1>3, <1>4, LoadKeeps
<1> DEFINE targets == IF c.merge.routes # {} THEN c.merge.routes
                                            ELSE {c.merge.client, c.merge.server}
<1>6. \A n \in DOMAIN up :
        /\ n \in serviceUpstreams(c.procs)
        /\ up[n] \in PortNumber /\ up[n] \in targets
        /\ n \in DOMAIN served => served[n].port = up[n]
  BY <1>4, <1>5, UpstreamsSound
<1>7. \A n \in DOMAIN served :
        /\ n \in DOMAIN procs
        /\ \A q \in served[n].named : procs[q].http = served[n].port
  BY DEF servedPorts, ServedPort
<1>8. MergePortProcessName \notin DOMAIN served
  BY <1>2, <1>3 DEF Kept, servedPorts
<1> HIDE DEF up, served, c
<1>9. ASSUME NEW n \in DOMAIN up
      PROVE  /\ EffectiveMode(procs[n]) = "service" /\ procs[n].probe # 0
             /\ n \in DOMAIN served => served[n].port = up[n]
             /\ n \in DOMAIN served => \A q \in served[n].named :
                  q \in MergeUpstreamPorts(loaded) /\ procs[q].http = up[n]
             /\ n \in DOMAIN served /\ served[n].named = {} =>
                  up[n] \in mergePreflightPorts(loaded)
  <2>1. n \in serviceUpstreams(c.procs)
    BY <1>6
  <2>2. n \in DOMAIN c.procs /\ EffectiveMode(c.procs[n]) = "service"
    BY <2>1 DEF serviceUpstreams
  <2>3. EffectiveMode(procs[n]) = EffectiveMode(c.procs[n])
    <3>1. procs[n].mode = c.procs[n].mode
      BY <1>2, <2>2 DEF Kept
    <3> QED  BY <3>1, Zenon DEF EffectiveMode
  <2>4. n \in serviceUpstreams(procs)
    BY <1>2, <2>2, <2>3 DEF serviceUpstreams, Kept
  <2>5. ASSUME n \in DOMAIN served
        PROVE  \A q \in served[n].named :
                 q \in MergeUpstreamPorts(loaded) /\ procs[q].http = up[n]
    <3>1. \A q \in served[n].named : q \in MergeUpstreamPorts(loaded)
      BY <2>5 DEF MergeUpstreamPorts, up, served
    <3> QED  BY <1>6, <1>7, <2>5, <3>1
  <2>6. ASSUME n \in DOMAIN served, served[n].named = {}
        PROVE  up[n] \in mergePreflightPorts(loaded)
    <3>1. /\ served[n].port = up[n] /\ up[n] > 0 /\ up[n] \in targets \ {0}
          /\ n # MergePortProcessName
      BY <1>6, <1>8, <2>6 DEF PortNumber
    <3>2. up[n] \in processPorts(procs)
      BY <2>4, <2>6, <3>1 DEF processPorts, served
    <3>3. up[n] \in managedMergeUpstreamPorts(loaded)
      BY <1>2, <3>1, <3>2 DEF managedMergeUpstreamPorts
    <3> QED  BY <3>3 DEF mergePreflightPorts
  <2> QED  BY <1>5, <1>6, <2>2, <2>3, <2>5, <2>6
<1> QED  BY <1>5, <1>9 DEF UpstreamsAgree, up, served

\* From every file, the session recomputes the upstreams Load wired.
THEOREM UpstreamsAreTheWired ==
  ASSUME NEW files, NEW filters,
         \A f \in files : IsFile(f) /\ f.merge.client_process # MergePortProcessName
  PROVE  ConfigSpec(files, filters) => []UpstreamsAgree
<1> DEFINE Inv == file \in files /\ (loaded = Refused \/ loaded = Load(file))
<1>1. ConfigInit(files, filters) => Inv
  BY DEF ConfigInit
<1>2. Inv /\ [Explain]_configVars => Inv'
  BY DEF Explain, configVars
<1>3. Inv => UpstreamsAgree
  <2>1. CASE loaded = Refused
    BY <2>1 DEF UpstreamsAgree, Refused
  <2>2. ASSUME Inv, loaded = Load(file) PROVE UpstreamsAgree
    BY <2>2, LoadAgrees
  <2> QED  BY <2>1, <2>2
<1> QED  BY <1>1, <1>2, <1>3, PTL DEF ConfigSpec

-----------------------------------------------------------------------------
(* The inductive invariant of the sessions *)

\* What a session relies on in a configuration that Load accepted.
Sound(c) ==
  /\ c.resources \subseteq DOMAIN Identity
  /\ c.merge.on => c.merge.port \in PortNumber
  /\ \A n \in DOMAIN c.procs : c.procs[n].mode = "teardown" => c.procs[n].http = Undeclared

\* An item was dealt with.
Granted(q, item) ==
  /\ item.do = "lease" => item.label \in q.leases
  /\ item.do = "proxy" => q.mergePort = item.port
  /\ item.do \in {"hold", "allocate"} => item.process \in DOMAIN q.ports
  /\ item.do = "hold" => q.ports[item.process] = item.port

\* The plan knows its leases and its listeners.
BooksOf(p, q, leases, listeners) ==
  /\ q.leases \subseteq Label /\ q.held \subseteq PortNumber
  /\ \A x \in Label : leases[x] = p <=> x \in q.leases
  /\ \A x \in PortNumber :
       listeners[x] = Listener(p) <=> x \in q.held \/ (q.step = "bound" /\ x = q.port)

\* A plan that has not begun or is over has nothing, and one that is closed
\* listens no more.  A port that is bound is leased next.
Outline(q) ==
  /\ q.at \in {"idle", "instance", "over", "gone"} => q.leases = {}
  /\ q.at \in {"idle", "instance", "over", "gone", "unbound"} => q.held = {}
  /\ q.step = "bound" => q.at = "acquiring" /\ q.port \in PortNumber \ q.held

\* Every port that was assigned is leased, and has a number of its own.
Assignments(q) ==
  /\ \A n \in DOMAIN q.ports : q.ports[n] \in PortNumber /\ PortLease(q.ports[n]) \in q.leases
  /\ q.mergePort # 0 => q.mergePort \in PortNumber /\ PortLease(q.mergePort) \in q.leases
  /\ IsInjective(q.ports)
  /\ \A n \in DOMAIN q.ports : q.ports[n] # q.mergePort

\* The names of the plan are processes of its configuration, and the ports are
\* theirs.
NamesOf(q) ==
  /\ q.names \subseteq DOMAIN q.base.procs /\ TeardownNames(q.base) \subseteq q.names
  /\ DOMAIN q.ports \subseteq {n \in q.names : q.base.procs[n].http # Undeclared}

\* What is wanted is still to be done or was granted; a port that is leased and
\* not yet bound is not one of those assigned.
Acquisition(q) ==
  /\ NamesOf(q) /\ Sound(q.base) /\ q.launched = {}
  /\ q.todo \subseteq Wanted(q.base, q.names)
  /\ \A item \in Wanted(q.base, q.names) : item \in q.todo \/ Granted(q, item)
  /\ \A item \in q.todo : item.do \in {"hold", "allocate"} => item.process \notin DOMAIN q.ports
  /\ Ports(q) \subseteq q.held
  /\ q.step \in {"leased", "bound"} => q.todo # {}
  /\ q.step = "leased" =>
       First(q.todo).label \in q.leases /\ First(q.todo).port \notin Ports(q)

\* A granted plan, under the configuration in force.
Grant(q, c) ==
  /\ NamesOf(q)
  /\ \A item \in Wanted(q.base, q.names) : Granted(q, item)
  /\ c.resources = q.base.resources
  /\ \A n \in q.names \cap DOMAIN c.procs : c.procs[n].http = q.base.procs[n].http
  /\ ~Unresolved(q.base, q.names \ TeardownNames(q.base))
  /\ DOMAIN q.uses = q.names /\ q.launched \subseteq q.names
  /\ \A x \in Ports(q) : x \in q.held \/ \E n \in q.launched : x \in q.uses[n]

PlanIs(q, c, instance) ==
  /\ DOMAIN q = DOMAIN EmptyPlan
  /\ Outline(q)
  /\ q.at = "idle" /\ c.ok => Sound(c)
  /\ q.at = "instance" => q.base = c /\ Acquisition(q) /\ Assignments(q) /\ q.step = "start"
  /\ q.at = "acquiring" =>
       q.base = c /\ Acquisition(q) /\ Assignments(q) /\ instance \in q.leases
  /\ q.at = "held" => Grant(q, c) /\ Assignments(q) /\ instance \in q.leases

PortsTypeOK ==
  /\ DOMAIN plan = Supervisor /\ DOMAIN conf = Supervisor /\ DOMAIN bound = PortNumber
  /\ session \in [Supervisor -> SessionName]
  /\ lease \in [Label -> Supervisor \cup {Nobody, Inspector}]

PlanInv(p) == PlanIs(plan[p], conf[p], InstanceLease(session[p]))
Books(p)   == BooksOf(p, plan[p], lease, bound)

PortsInv == PortsTypeOK /\ \A p \in Supervisor : PlanInv(p) /\ Books(p)

-----------------------------------------------------------------------------
(* What is wanted *)

\* The items of an acquisition, by kind.
LEMMA WantedItems ==
  ASSUME NEW c, NEW names, NEW item \in Wanted(c, names)
  PROVE  /\ item.do \in {"lease", "proxy", "hold", "allocate"}
         /\ item.do = "lease" =>
              \E r \in Identities(c) : item.label = ResourceLease(r)
         /\ item.do # "lease" => item.label = PortLease(item.port)
         /\ item.do = "proxy" => c.merge.on /\ item.port = c.merge.port
         /\ item.do \in {"hold", "allocate"} =>
              /\ item.process \in names /\ c.procs[item.process].http # Undeclared
              /\ item.port = c.procs[item.process].http
         /\ item.do = "hold" <=> item.do # "lease" /\ item.do # "proxy"
                                /\ item.process \in MergeUpstreamPorts(c)
  BY DEF Wanted

\* A process has at most one item.
LEMMA OneItem ==
  ASSUME NEW c, NEW names, NEW one \in Wanted(c, names), NEW two \in Wanted(c, names),
         one.do \in {"hold", "allocate"}, two.do \in {"hold", "allocate"},
         one.process = two.process
  PROVE  one = two
  BY DEF Wanted

\* Every resource and every named port of the names is wanted.
LEMMA AllWanted ==
  ASSUME NEW c, NEW names
  PROVE  /\ \A r \in Identities(c) : \E item \in Wanted(c, names) :
              item.do = "lease" /\ item.label = ResourceLease(r)
         /\ \A n \in names : c.procs[n].http # Undeclared =>
              \E item \in Wanted(c, names) :
                /\ item.process = n /\ item.port = c.procs[n].http
                /\ item.do = IF n \in MergeUpstreamPorts(c) THEN "hold" ELSE "allocate"
<1> DEFINE item(do, label, n, number) ==
             [do |-> do, label |-> label, process |-> n, port |-> number]
<1>1. ASSUME NEW r \in Identities(c)
      PROVE  item("lease", ResourceLease(r), NoName, 0) \in Wanted(c, names)
  BY Zenon DEF Wanted
<1>2. ASSUME NEW n \in names, c.procs[n].http # Undeclared
      PROVE  LET do == IF n \in MergeUpstreamPorts(c) THEN "hold" ELSE "allocate"
                 h  == c.procs[n].http
             IN  item(do, PortLease(h), n, h) \in Wanted(c, names)
  <2>1. CASE n \in MergeUpstreamPorts(c)
    BY <1>2, <2>1, Zenon DEF Wanted
  <2>2. CASE n \notin MergeUpstreamPorts(c)
    BY <1>2, <2>2, Zenon DEF Wanted
  <2> QED  BY <2>1, <2>2
<1>3. ASSUME NEW r \in Identities(c)
      PROVE  \E i \in Wanted(c, names) : i.do = "lease" /\ i.label = ResourceLease(r)
  BY <1>1
<1>4. ASSUME NEW n \in names, c.procs[n].http # Undeclared
      PROVE  \E i \in Wanted(c, names) :
               /\ i.process = n /\ i.port = c.procs[n].http
               /\ i.do = IF n \in MergeUpstreamPorts(c) THEN "hold" ELSE "allocate"
  <2> DEFINE do == IF n \in MergeUpstreamPorts(c) THEN "hold" ELSE "allocate"
             i  == item(do, PortLease(c.procs[n].http), n, c.procs[n].http)
  <2>1. i \in Wanted(c, names)
    BY <1>2, <1>4
  <2>2. i.process = n /\ i.port = c.procs[n].http /\ i.do = do
    OBVIOUS
  <2> QED  BY <2>1, <2>2
<1> QED  BY <1>3, <1>4

\* The port of an upstream is a port.
LEMMA UpstreamPortIsPort ==
  ASSUME NEW c, NEW n \in MergeUpstreamPorts(c)
  PROVE  c.procs[n].http \in PortNumber
<1> DEFINE served == servedPorts(c.procs)
<1>1. PICK m \in DOMAIN served : n \in served[m].named
  BY DEF MergeUpstreamPorts
<1>2. Known(c.procs, m) /\ served[m] = ServedPort(c.procs, m)
  BY DEF servedPorts
<1> QED  BY <1>1, <1>2 DEF Known, ServedPort, Resolvable

\* The next item is one of them.
LEMMA FirstIsOne ==
  ASSUME NEW c, NEW names, NEW items, items \subseteq Wanted(c, names), items # {}
  PROVE  First(items) \in items
<1>1. Len(NameOrder) \in Nat
  BY ConfigAssumption
<1>2. ASSUME NEW item \in items PROVE Rank(item) \in Nat
  <2> DEFINE place == IF \E i \in DOMAIN NameOrder : NameOrder[i] = item.process
                      THEN CHOOSE i \in DOMAIN NameOrder : NameOrder[i] = item.process ELSE 0
  <2>1. place \in Nat
    BY ConfigAssumption
  <2>2. item.do \in {"lease", "proxy", "hold", "allocate"}
    BY WantedItems
  <2>3. Phase[item.do] \in {0, 1, 2, 3}
    BY <2>2 DEF Phase
  <2>4. Rank(item) = Phase[item.do] * (Len(NameOrder) + 1) + place
    BY DEF Rank
  <2> HIDE DEF place
  <2> QED  BY <1>1, <2>1, <2>3, <2>4
<1>3. PICK k \in {Rank(item) : item \in items} : \A l \in {Rank(item) : item \in items} : k <= l
  <2> DEFINE S == {Rank(item) : item \in items}
  <2>1. S # {} /\ S \subseteq Nat
    BY <1>2
  <2> HIDE DEF S
  <2>2. \E k \in S : \A l \in S : k <= l
    BY <2>1, LeastNumber
  <2> QED  BY <2>2 DEF S
<1>4. PICK item \in items : \A other \in items : Rank(item) <= Rank(other)
  BY <1>3
<1> QED  BY <1>4 DEF First

\* Its lease exists, and its port when it must be that one.
LEMMA ItemIsSound ==
  ASSUME NEW c, Sound(c), NEW names, NEW item \in Wanted(c, names)
  PROVE  /\ item.do = "lease" => item.label \in Label
         /\ item.do \in {"proxy", "hold"} => item.port \in PortNumber
         /\ item.do \in {"proxy", "hold"} => item.label = PortLease(item.port) /\ item.label \in Label
<1>1. CASE item.do = "lease"
  <2>1. PICK r \in Identities(c) : item.label = ResourceLease(r)
    BY <1>1, WantedItems
  <2>2. r \in Resource
    BY SessionAssumption DEF Identities, Sound
  <2> QED  BY <1>1, <2>1, <2>2 DEF Label
<1>2. CASE item.do = "proxy"
  BY <1>2, WantedItems DEF Sound, Label
<1>3. CASE item.do = "hold"
  <2>1. item.process \in MergeUpstreamPorts(c) /\ item.port = c.procs[item.process].http
    BY <1>3, WantedItems
  <2>2. item.port \in PortNumber
    BY <2>1, UpstreamPortIsPort
  <2> QED  BY <1>3, <2>2, WantedItems DEF Label
<1> QED  BY <1>1, <1>2, <1>3

-----------------------------------------------------------------------------
(* A step of one plan *)

\* A step that changes the plan, the configuration, the leases and the
\* listeners of one supervisor only.
LEMMA StepKeeps ==
  ASSUME PortsInv, NEW p \in Supervisor, NEW q,
         plan' = [plan EXCEPT ![p] = q], UNCHANGED session,
         DOMAIN conf' = Supervisor, \A r \in Supervisor \ {p} : conf'[r] = conf[r],
         lease' \in [Label -> Supervisor \cup {Nobody, Inspector}],
         \A x \in Label : lease'[x] # lease[x] => {lease[x], lease'[x]} \subseteq {p, Nobody},
         DOMAIN bound' = PortNumber,
         \A x \in PortNumber : \A r \in Supervisor \ {p} :
           bound'[x] = Listener(r) <=> bound[x] = Listener(r),
         PlanIs(q, conf'[p], InstanceLease(session[p])),
         BooksOf(p, q, lease', bound')
  PROVE  PortsInv'
<1>1. PortsTypeOK'
  BY DEF PortsInv, PortsTypeOK
<1>2. plan'[p] = q /\ \A r \in Supervisor \ {p} : plan'[r] = plan[r]
  BY DEF PortsInv, PortsTypeOK
<1>3. ASSUME NEW r \in Supervisor \ {p} PROVE PlanInv(r)' /\ Books(r)'
  <2>1. PlanInv(r)'
    BY <1>2 DEF PortsInv, PlanInv
  <2>2. \A x \in Label : lease'[x] = r <=> lease[x] = r
    BY SessionAssumption DEF Nobody
  <2>3. BooksOf(r, plan[r], lease, bound)
    BY DEF PortsInv, Books
  <2>4. BooksOf(r, plan[r], lease', bound')
    BY <2>2, <2>3 DEF BooksOf
  <2> QED  BY <1>2, <2>1, <2>4 DEF Books
<1>4. PlanInv(p)' /\ Books(p)'
  BY <1>2 DEF PlanInv, Books
<1> QED  BY <1>1, <1>3, <1>4 DEF PortsInv

\* The same, when neither the leases nor the listeners change.
LEMMA PlanStepKeeps ==
  ASSUME PortsInv, NEW p \in Supervisor, NEW q,
         plan' = [plan EXCEPT ![p] = q], UNCHANGED <<session, lease, bound>>,
         DOMAIN conf' = Supervisor, \A r \in Supervisor \ {p} : conf'[r] = conf[r],
         PlanIs(q, conf'[p], InstanceLease(session[p])),
         q.leases = plan[p].leases, q.held = plan[p].held,
         q.step = "bound" <=> plan[p].step = "bound",
         q.step = "bound" => q.port = plan[p].port
  PROVE  PortsInv'
<1>1. BooksOf(p, plan[p], lease, bound)
  BY DEF PortsInv, Books
<1>2. BooksOf(p, q, lease', bound')
  BY <1>1 DEF BooksOf
<1>3. lease' \in [Label -> Supervisor \cup {Nobody, Inspector}] /\ DOMAIN bound' = PortNumber
  BY DEF PortsInv, PortsTypeOK
<1> QED  BY <1>2, <1>3, StepKeeps

\* An acquisition that fails is closed next.
LEMMA FailsKeeps ==
  ASSUME PortsInv, NEW p \in Supervisor, NEW why, Fails(p, why),
         UNCHANGED <<conf, session, lease, bound>>, plan[p].step # "bound"
  PROVE  PortsInv'
<1> DEFINE q == [plan[p] EXCEPT !.at = "closing", !.why = why]
<1>1. PlanIs(plan[p], conf[p], InstanceLease(session[p]))
  BY DEF PortsInv, PlanInv
<1>2. DOMAIN plan[p] = DOMAIN EmptyPlan
  BY <1>1 DEF PlanIs
<1>3. /\ DOMAIN q = DOMAIN EmptyPlan /\ q.at = "closing" /\ q.leases = plan[p].leases
      /\ q.held = plan[p].held /\ q.step = plan[p].step /\ q.port = plan[p].port
  BY <1>2 DEF EmptyPlan
<1>4. plan' = [plan EXCEPT ![p] = q] /\ DOMAIN conf = Supervisor
  BY DEF Fails, PortsInv, PortsTypeOK
<1> HIDE DEF q
<1>5. PlanIs(q, conf[p], InstanceLease(session[p]))
  BY <1>3 DEF PlanIs, Outline
<1> QED  BY <1>3, <1>4, <1>5, PlanStepKeeps

\* The plan takes a lease that is free.
LEMMA LeaseStepKeeps ==
  ASSUME PortsInv, NEW p \in Supervisor, NEW q, NEW label \in Label, lease[label] = Nobody,
         plan' = [plan EXCEPT ![p] = q], lease' = [lease EXCEPT ![label] = p],
         UNCHANGED <<conf, session, bound>>,
         PlanIs(q, conf[p], InstanceLease(session[p])),
         q.leases = plan[p].leases \cup {label}, q.held = plan[p].held,
         plan[p].step # "bound", q.step # "bound"
  PROVE  PortsInv'
<1>1. BooksOf(p, plan[p], lease, bound)
  BY DEF PortsInv, Books
<1>2. \A x \in Label : lease'[x] = IF x = label THEN p ELSE lease[x]
  BY DEF PortsInv, PortsTypeOK
<1>3. BooksOf(p, q, lease', bound')
  BY <1>1, <1>2 DEF BooksOf
<1>4. /\ lease' \in [Label -> Supervisor \cup {Nobody, Inspector}] /\ DOMAIN bound' = PortNumber
      /\ \A x \in Label : lease'[x] # lease[x] => {lease[x], lease'[x]} \subseteq {p, Nobody}
      /\ DOMAIN conf' = Supervisor
  BY <1>2 DEF PortsInv, PortsTypeOK
<1> QED  BY <1>3, <1>4, StepKeeps

\* Listeners are told apart.
LEMMA ListenersDiffer ==
  ASSUME NEW p
  PROVE  /\ Free # Listener(p) /\ Process(p) # Listener(p) /\ Outsider # Listener(p)
         /\ \A r \in Supervisor \ {p} : Listener(p) # Listener(r) /\ Process(p) # Listener(r)
         /\ \A r : Free # Listener(r) /\ Outsider # Listener(r)
<1>1. \A a, b, c, d : <<a, b>> = <<c, d>> => a = c /\ b = d
  OBVIOUS
<1> QED  BY <1>1 DEF Listener, Free, Process, Outsider

\* The plan and its processes bind ports that are free, and free their own.
LEMMA ListenStepKeeps ==
  ASSUME PortsInv, NEW p \in Supervisor, NEW q,
         plan' = [plan EXCEPT ![p] = q], UNCHANGED <<conf, session, lease>>,
         DOMAIN bound' = PortNumber,
         \A x \in PortNumber :
           bound'[x] # bound[x] => {bound[x], bound'[x]} \subseteq {Free, Process(p), Listener(p)},
         PlanIs(q, conf[p], InstanceLease(session[p])),
         q.leases = plan[p].leases, q.held \subseteq PortNumber,
         \A x \in PortNumber :
           bound'[x] = Listener(p) <=> x \in q.held \/ (q.step = "bound" /\ x = q.port)
  PROVE  PortsInv'
<1>1. BooksOf(p, plan[p], lease, bound)
  BY DEF PortsInv, Books
<1>2. BooksOf(p, q, lease', bound')
  BY <1>1 DEF BooksOf
<1>3. \A x \in PortNumber : \A r \in Supervisor \ {p} :
        bound'[x] = Listener(r) <=> bound[x] = Listener(r)
  BY ListenersDiffer
<1>4. lease' \in [Label -> Supervisor \cup {Nobody, Inspector}] /\ DOMAIN conf' = Supervisor
  BY DEF PortsInv, PortsTypeOK
<1> QED  BY <1>2, <1>3, <1>4, StepKeeps

-----------------------------------------------------------------------------
(* Acquisition *)

\* Acquire writes down what is wanted.
LEMMA AcquireKeeps ==
  ASSUME PortsInv, NEW p \in Supervisor, conf[p].ok, Acquire(p, {})
  PROVE  PortsInv'
<1> DEFINE c == conf[p]
           names == Names(c, {})
           q == [EmptyPlan EXCEPT !.at = "instance", !.base = c, !.names = names,
                                  !.todo = Wanted(c, names)]
<1>1. plan' = [plan EXCEPT ![p] = q] /\ UNCHANGED <<conf, session, lease, bound>>
  BY DEF Acquire
<1>2. /\ DOMAIN q = DOMAIN EmptyPlan /\ q.at = "instance" /\ q.base = c /\ q.names = names
      /\ q.todo = Wanted(c, names) /\ q.step = "start" /\ q.ports = <<>> /\ q.mergePort = 0
      /\ q.leases = {} /\ q.held = {} /\ q.launched = {}
  BY DEF EmptyPlan
<1>3. PlanIs(plan[p], c, InstanceLease(session[p])) /\ plan[p].at = "idle"
  BY DEF PortsInv, PlanInv, Acquire
<1>4. Sound(c) /\ plan[p].leases = {} /\ plan[p].held = {} /\ plan[p].step # "bound"
  BY <1>3 DEF PlanIs, Outline
<1>5. names \subseteq DOMAIN c.procs /\ TeardownNames(c) \subseteq names
  BY Zenon DEF Names, SelectedNames, TeardownNames
<1>6. DOMAIN conf = Supervisor
  BY DEF PortsInv, PortsTypeOK
<1> HIDE DEF q, names
<1>7. NamesOf(q)
  BY <1>2, <1>5 DEF NamesOf
<1>8. Ports(q) = {}
  BY <1>2 DEF Ports
<1>9. Acquisition(q)
  BY <1>2, <1>4, <1>7, <1>8 DEF Acquisition
<1>10. Assignments(q)
  BY <1>2 DEF Assignments, IsInjective
<1>11. PlanIs(q, c, InstanceLease(session[p]))
  BY <1>2, <1>9, <1>10 DEF PlanIs, Outline
<1> QED  BY <1>1, <1>2, <1>4, <1>6, <1>11, PlanStepKeeps

\* The instance is the first lease of the plan.
LEMMA TakeInstanceKeeps ==
  ASSUME PortsInv, NEW p \in Supervisor, TakeInstance(p)
  PROVE  PortsInv'
<1> DEFINE label == InstanceLease(session[p])
           q == [plan[p] EXCEPT !.at = "acquiring", !.leases = {label}]
<1>1. PlanIs(plan[p], conf[p], label) /\ plan[p].at = "instance"
  BY DEF PortsInv, PlanInv, TakeInstance
<1>2. /\ DOMAIN plan[p] = DOMAIN EmptyPlan /\ plan[p].base = conf[p] /\ Acquisition(plan[p])
      /\ Assignments(plan[p]) /\ plan[p].step = "start" /\ plan[p].leases = {} /\ plan[p].held = {}
  BY <1>1 DEF PlanIs, Outline
<1>3. CASE lease[label] # Nobody
  <2>1. Fails(p, "session_occupied") /\ UNCHANGED <<conf, session, lease, bound>>
    BY <1>3 DEF TakeInstance
  <2> QED  BY <1>2, <2>1, FailsKeeps
<1>4. CASE lease[label] = Nobody
  <2>1. /\ lease' = [lease EXCEPT ![label] = p] /\ plan' = [plan EXCEPT ![p] = q]
        /\ UNCHANGED <<conf, session, bound>>
    BY <1>4 DEF TakeInstance
  <2>2. label \in Label
    BY DEF PortsInv, PortsTypeOK, Label
  <2>3. /\ DOMAIN q = DOMAIN EmptyPlan /\ q.at = "acquiring" /\ q.leases = {label}
        /\ q.step = "start" /\ q.held = {} /\ q.base = conf[p] /\ q.names = plan[p].names
        /\ q.todo = plan[p].todo /\ q.ports = plan[p].ports /\ q.mergePort = plan[p].mergePort
        /\ q.launched = plan[p].launched
    BY <1>2 DEF EmptyPlan
  <2> HIDE DEF q
  <2>4. Ports(plan[p]) = {}
    BY <1>2 DEF Acquisition
  <2>5. plan[p].ports = q.ports /\ Ports(q) = Ports(plan[p])
    BY <2>3 DEF Ports
  <2>6. Acquisition(q)
    <3>1. \A item \in Wanted(q.base, q.names) : item \in q.todo \/ Granted(q, item)
      BY <1>2, <2>3 DEF Acquisition, Granted
    <3> QED  BY <1>2, <2>3, <2>5, <3>1 DEF Acquisition, NamesOf
  <2>7. Assignments(q)
    BY <1>2, <2>3, <2>4 DEF Assignments, Ports
  <2>8. PlanIs(q, conf[p], label)
    BY <2>3, <2>6, <2>7 DEF PlanIs, Outline
  <2> QED  BY <1>2, <1>4, <2>1, <2>2, <2>3, <2>8, LeaseStepKeeps
<1> QED  BY <1>3, <1>4

\* A resource is one more lease.
LEMMA TakeLeaseKeeps ==
  ASSUME PortsInv, NEW p \in Supervisor, TakeLease(p)
  PROVE  PortsInv'
<1> DEFINE item == First(plan[p].todo)
           q == [plan[p] EXCEPT !.todo = @ \ {item}, !.leases = @ \cup {item.label}]
<1>1. PlanIs(plan[p], conf[p], InstanceLease(session[p]))
  BY DEF PortsInv, PlanInv
<1>2. plan[p].at = "acquiring" /\ plan[p].todo # {} /\ item.do = "lease" /\ plan[p].step = "start"
  BY DEF TakeLease, Acquiring, Item
<1>3. /\ DOMAIN plan[p] = DOMAIN EmptyPlan /\ plan[p].base = conf[p] /\ Acquisition(plan[p])
      /\ Assignments(plan[p]) /\ InstanceLease(session[p]) \in plan[p].leases
  BY <1>1, <1>2 DEF PlanIs
<1>4. item \in plan[p].todo /\ item \in Wanted(conf[p], plan[p].names) /\ item.label \in Label
  BY <1>2, <1>3, FirstIsOne, ItemIsSound DEF Acquisition
<1>5. CASE lease[item.label] # Nobody
  <2>1. Fails(p, "resource_unavailable") /\ UNCHANGED <<conf, session, lease, bound>>
    BY <1>5 DEF TakeLease, Item
  <2> QED  BY <1>2, <2>1, FailsKeeps
<1>6. CASE lease[item.label] = Nobody
  <2>1. /\ lease' = [lease EXCEPT ![item.label] = p] /\ plan' = [plan EXCEPT ![p] = q]
        /\ UNCHANGED <<conf, session, bound>>
    BY <1>6 DEF TakeLease, Item
  <2>2. /\ DOMAIN q = DOMAIN EmptyPlan /\ q.at = "acquiring"
        /\ q.leases = plan[p].leases \cup {item.label} /\ q.todo = plan[p].todo \ {item}
        /\ q.step = "start" /\ q.held = plan[p].held /\ q.base = conf[p] /\ q.names = plan[p].names
        /\ q.ports = plan[p].ports /\ q.mergePort = plan[p].mergePort
        /\ q.launched = plan[p].launched
    BY <1>2, <1>3 DEF EmptyPlan
  <2> HIDE DEF q, item
  <2>3. Ports(q) = Ports(plan[p])
    BY <2>2 DEF Ports
  <2>4. \A it \in Wanted(q.base, q.names) : it \in q.todo \/ Granted(q, it)
    BY <1>2, <1>3, <2>2 DEF Acquisition, Granted
  <2>5. Acquisition(q)
    BY <1>3, <2>2, <2>3, <2>4 DEF Acquisition, NamesOf
  <2>6. Assignments(q)
    BY <1>3, <2>2 DEF Assignments
  <2>7. Outline(q)
    BY <1>1, <2>2 DEF PlanIs, Outline
  <2>8. PlanIs(q, conf[p], InstanceLease(session[p]))
    BY <1>3, <2>2, <2>5, <2>6, <2>7 DEF PlanIs
  <2> QED  BY <1>2, <1>4, <1>6, <2>1, <2>2, <2>8, LeaseStepKeeps
<1> QED  BY <1>5, <1>6

\* Hold leases the exact port, which none of the assigned ones is.
LEMMA HoldKeeps ==
  ASSUME PortsInv, NEW p \in Supervisor, Hold(p)
  PROVE  PortsInv'
<1> DEFINE item == First(plan[p].todo)
           q == [plan[p] EXCEPT !.step = "leased", !.leases = @ \cup {item.label}]
<1>1. PlanIs(plan[p], conf[p], InstanceLease(session[p]))
  BY DEF PortsInv, PlanInv
<1>2. /\ plan[p].at = "acquiring" /\ plan[p].todo # {} /\ item.do \in {"proxy", "hold"}
      /\ plan[p].step = "start"
  BY DEF Hold, Acquiring, Item
<1>3. /\ DOMAIN plan[p] = DOMAIN EmptyPlan /\ plan[p].base = conf[p] /\ Acquisition(plan[p])
      /\ Assignments(plan[p]) /\ InstanceLease(session[p]) \in plan[p].leases
  BY <1>1, <1>2 DEF PlanIs
<1>4. item \in plan[p].todo /\ item \in Wanted(conf[p], plan[p].names) /\ item.label \in Label
  BY <1>2, <1>3, FirstIsOne, ItemIsSound DEF Acquisition
<1>5. CASE ~(item.port \notin plan[p].held /\ lease[item.label] = Nobody)
  <2>1. PICK why : Fails(p, why)
    BY <1>5 DEF Hold, Item
  <2>2. UNCHANGED <<conf, session, lease, bound>>
    BY <1>5 DEF Hold, Item
  <2> QED  BY <1>2, <2>1, <2>2, FailsKeeps
<1>6. CASE item.port \notin plan[p].held /\ lease[item.label] = Nobody
  <2>1. /\ lease' = [lease EXCEPT ![item.label] = p] /\ plan' = [plan EXCEPT ![p] = q]
        /\ UNCHANGED <<conf, session, bound>>
    BY <1>6 DEF Hold, Item
  <2>2. /\ DOMAIN q = DOMAIN EmptyPlan /\ q.at = "acquiring"
        /\ q.leases = plan[p].leases \cup {item.label} /\ q.todo = plan[p].todo
        /\ q.step = "leased" /\ q.held = plan[p].held /\ q.base = conf[p]
        /\ q.names = plan[p].names
        /\ q.ports = plan[p].ports /\ q.mergePort = plan[p].mergePort
        /\ q.launched = plan[p].launched
    BY <1>2, <1>3 DEF EmptyPlan
  <2>3. First(q.todo) = item
    BY <2>2
  <2> HIDE DEF q, item
  <2>4. Ports(q) = Ports(plan[p])
    BY <2>2 DEF Ports
  <2>5. \A it \in Wanted(q.base, q.names) : it \in q.todo \/ Granted(q, it)
    BY <1>3, <2>2 DEF Acquisition, Granted
  <2>6. Acquisition(q)
    BY <1>2, <1>3, <1>6, <2>2, <2>3, <2>4, <2>5 DEF Acquisition, NamesOf
  <2>7. Assignments(q)
    BY <1>3, <2>2 DEF Assignments
  <2>8. Outline(q)
    BY <1>1, <2>2 DEF PlanIs, Outline
  <2>9. PlanIs(q, conf[p], InstanceLease(session[p]))
    BY <1>3, <2>2, <2>6, <2>7, <2>8 DEF PlanIs
  <2> QED  BY <1>2, <1>4, <1>6, <2>1, <2>2, <2>9, LeaseStepKeeps
<1> QED  BY <1>5, <1>6

\* What assigning a port does to a plan.
Assigns(q, r, item, number) ==
  /\ DOMAIN r = DOMAIN EmptyPlan
  /\ r.at = q.at /\ r.base = q.base /\ r.names = q.names /\ r.launched = q.launched
  /\ r.step = "start" /\ r.todo = q.todo \ {item} /\ r.held = q.held \cup {number}
  /\ item.do = "proxy" => r.ports = q.ports /\ r.mergePort = number
  /\ item.do # "proxy" =>
       /\ r.mergePort = q.mergePort /\ DOMAIN r.ports = DOMAIN q.ports \cup {item.process}
       /\ \A n \in DOMAIN r.ports : r.ports[n] = IF n = item.process THEN number ELSE q.ports[n]

\* Assigned assigns a port, and leaves the leases alone.
LEMMA AssignedAssigns ==
  ASSUME NEW q, DOMAIN q = DOMAIN EmptyPlan, NEW number
  PROVE  /\ Assigns(q, Assigned(q, number), First(q.todo), number)
         /\ Assigned(q, number).leases = q.leases
<1> DEFINE item == First(q.todo)
           ports == [n \in DOMAIN q.ports \cup {item.process} |->
                       IF n = item.process THEN number ELSE q.ports[n]]
           r == Assigned(q, number)
<1>1. r = [q EXCEPT !.todo = @ \ {item}, !.step = "start", !.tries = 0, !.held = @ \cup {number},
                    !.mergePort = IF item.do = "proxy" THEN number ELSE @,
                    !.ports = IF item.do = "proxy" THEN @ ELSE ports]
  BY DEF Assigned
<1> HIDE DEF r, ports, item
<1>2. /\ DOMAIN r = DOMAIN EmptyPlan
      /\ r.at = q.at /\ r.base = q.base /\ r.names = q.names /\ r.launched = q.launched
      /\ r.step = "start" /\ r.todo = q.todo \ {item} /\ r.held = q.held \cup {number}
      /\ r.leases = q.leases
  BY <1>1 DEF EmptyPlan
<1>3. r.mergePort = IF item.do = "proxy" THEN number ELSE q.mergePort
  BY <1>1 DEF EmptyPlan
<1>4. r.ports = IF item.do = "proxy" THEN q.ports ELSE ports
  BY <1>1 DEF EmptyPlan
<1>5. Assigns(q, r, item, number)
  BY <1>2, <1>3, <1>4 DEF Assigns, ports
<1> QED  BY <1>2, <1>5 DEF r, item

\* The plan stays sound when the port that is assigned is leased, and is none
\* of the assigned ones.
LEMMA AssignsKeeps ==
  ASSUME NEW q, Acquisition(q), Assignments(q), q.todo # {},
         NEW number \in PortNumber, number \notin Ports(q),
         NEW item, item = First(q.todo), item.do # "lease",
         item.do # "allocate" => number = item.port,
         NEW r, Assigns(q, r, item, number), q.leases \subseteq r.leases,
         PortLease(number) \in r.leases
  PROVE  Acquisition(r) /\ Assignments(r)
<1> DEFINE wanted == Wanted(q.base, q.names)
<1>1. item \in q.todo /\ item \in wanted
  BY FirstIsOne DEF Acquisition
<1>2. /\ item.do \in {"proxy", "hold", "allocate"}
      /\ item.do \in {"hold", "allocate"} =>
           /\ item.process \in q.names /\ q.base.procs[item.process].http # Undeclared
           /\ item.process \notin DOMAIN q.ports
  BY <1>1, WantedItems DEF Acquisition
<1>3. ASSUME NEW n \in DOMAIN q.ports
      PROVE  n \in DOMAIN r.ports /\ r.ports[n] = q.ports[n]
  BY <1>2, <1>3 DEF Assigns
<1>4. Ports(r) \subseteq Ports(q) \cup {number}
  <2>1. CASE item.do = "proxy"
    BY <2>1 DEF Ports, Assigns
  <2>2. CASE item.do # "proxy"
    <3>1. DOMAIN r.ports = DOMAIN q.ports \cup {item.process} /\ r.ports[item.process] = number
          /\ r.mergePort = q.mergePort
      BY <2>2 DEF Assigns
    <3> QED  BY <1>3, <3>1 DEF Ports
  <2> QED  BY <2>1, <2>2
<1>5. r.base = q.base /\ r.names = q.names /\ r.launched = q.launched /\ r.step = "start"
      /\ r.todo = q.todo \ {item} /\ r.held = q.held \cup {number}
  BY DEF Assigns
<1>6. DOMAIN r.ports \subseteq DOMAIN q.ports \cup {item.process}
      /\ (item.do = "proxy" => DOMAIN r.ports = DOMAIN q.ports)
  BY DEF Assigns
<1>7. NamesOf(r)
  BY <1>2, <1>5, <1>6 DEF NamesOf, Acquisition
<1>8. ASSUME NEW other \in r.todo, other.do \in {"hold", "allocate"}
      PROVE  other.process \notin DOMAIN r.ports
  <2>1. other \in q.todo /\ other \in wanted /\ other # item /\ other.process \notin DOMAIN q.ports
    BY <1>5, <1>8 DEF Acquisition
  <2>2. item.do \in {"hold", "allocate"} => other.process # item.process
    BY <1>1, <1>8, <2>1, OneItem
  <2> QED  BY <1>2, <1>6, <2>1, <2>2
<1>9. Granted(r, item)
  BY <1>2 DEF Granted, Assigns
<1>10. ASSUME NEW other \in wanted PROVE other \in r.todo \/ Granted(r, other)
  <2>1. CASE other \in q.todo
    BY <1>5, <1>9, <2>1
  <2>2. CASE Granted(q, other)
    <3>1. other.do = "lease" => other.label \in r.leases
      BY <2>2 DEF Granted
    <3>2. other.do = "proxy" => r.mergePort = other.port
      <4>1. CASE item.do = "proxy"
        BY <1>1, <4>1, WantedItems DEF Assigns
      <4>2. CASE item.do # "proxy"
        BY <2>2, <4>2 DEF Granted, Assigns
      <4> QED  BY <4>1, <4>2
    <3>3. /\ other.do \in {"hold", "allocate"} => other.process \in DOMAIN r.ports
          /\ other.do = "hold" => r.ports[other.process] = other.port
      BY <1>3, <2>2 DEF Granted
    <3> QED  BY <3>1, <3>2, <3>3 DEF Granted
  <2> QED  BY <2>1, <2>2 DEF Acquisition
<1>11. Acquisition(r)
  BY <1>4, <1>5, <1>7, <1>8, <1>10 DEF Acquisition
<1>12. ASSUME NEW n \in DOMAIN r.ports
       PROVE  \/ n \in DOMAIN q.ports /\ r.ports[n] = q.ports[n]
              \/ n = item.process /\ item.do # "proxy" /\ r.ports[n] = number
  BY <1>3 DEF Assigns
<1>13. r.mergePort = IF item.do = "proxy" THEN number ELSE q.mergePort
  BY DEF Assigns
<1>14. \A n \in DOMAIN q.ports : q.ports[n] # number
  BY DEF Ports
<1>15. q.mergePort # number
  BY ConfigAssumption DEF Ports, PortNumber
<1>16. IsInjective(r.ports)
  BY <1>12, <1>14 DEF IsInjective, Assignments
<1>17. Assignments(r)
  BY <1>12, <1>13, <1>14, <1>15, <1>16 DEF Assignments
<1> QED  BY <1>11, <1>17

\* The exact port is bound, and assigned.
LEMMA HoldBindKeeps ==
  ASSUME PortsInv, NEW p \in Supervisor, HoldBind(p)
  PROVE  PortsInv'
<1> DEFINE item == First(plan[p].todo)
           number == item.port
           r == Assigned(plan[p], number)
<1>1. PlanIs(plan[p], conf[p], InstanceLease(session[p]))
  BY DEF PortsInv, PlanInv
<1>2. /\ plan[p].at = "acquiring" /\ plan[p].todo # {} /\ item.do \in {"proxy", "hold"}
      /\ plan[p].step = "leased"
  BY DEF HoldBind, Acquiring, Item
<1>3. /\ DOMAIN plan[p] = DOMAIN EmptyPlan /\ plan[p].base = conf[p] /\ Acquisition(plan[p])
      /\ Assignments(plan[p]) /\ InstanceLease(session[p]) \in plan[p].leases
  BY <1>1, <1>2 DEF PlanIs
<1>4. /\ number \in PortNumber /\ item.label = PortLease(number)
      /\ PortLease(number) \in plan[p].leases /\ number \notin Ports(plan[p])
  <2>1. item \in Wanted(conf[p], plan[p].names)
    BY <1>2, <1>3, FirstIsOne DEF Acquisition
  <2>2. number \in PortNumber /\ item.label = PortLease(number)
    BY <1>2, <1>3, <2>1, ItemIsSound DEF Acquisition
  <2> QED  BY <1>2, <1>3, <2>2 DEF Acquisition
<1>5. CASE bound[number] # Free
  <2>1. Fails(p, "resource_unavailable") /\ UNCHANGED <<conf, session, lease, bound>>
    BY <1>5 DEF HoldBind, Item
  <2> QED  BY <1>2, <2>1, FailsKeeps
<1>6. CASE bound[number] = Free
  <2>1. /\ bound' = [bound EXCEPT ![number] = Listener(p)] /\ plan' = [plan EXCEPT ![p] = r]
        /\ UNCHANGED <<conf, session, lease>>
    BY <1>6 DEF HoldBind, Item
  <2>2. Assigns(plan[p], r, item, number) /\ r.leases = plan[p].leases
    BY <1>3, AssignedAssigns
  <2> HIDE DEF r, item, number
  <2>3. Acquisition(r) /\ Assignments(r)
    <3>1. item = First(plan[p].todo) /\ item.do # "lease" /\ number = item.port
      BY <1>2 DEF item, number
    <3> QED  BY <1>2, <1>3, <1>4, <2>2, <3>1, AssignsKeeps
  <2>4. /\ DOMAIN r = DOMAIN EmptyPlan /\ r.at = "acquiring" /\ r.base = conf[p]
        /\ r.step = "start" /\ r.held = plan[p].held \cup {number}
    BY <1>2, <1>3, <2>2 DEF Assigns
  <2>5. PlanIs(r, conf[p], InstanceLease(session[p]))
    BY <1>3, <2>2, <2>3, <2>4 DEF PlanIs, Outline
  <2>6. BooksOf(p, plan[p], lease, bound) /\ DOMAIN bound = PortNumber
    BY DEF PortsInv, Books, PortsTypeOK
  <2>7. \A x \in PortNumber : bound'[x] = IF x = number THEN Listener(p) ELSE bound[x]
    BY <2>1, <2>6
  <2>8. /\ r.held \subseteq PortNumber
        /\ \A x \in PortNumber :
             bound'[x] = Listener(p) <=> x \in r.held \/ (r.step = "bound" /\ x = r.port)
    BY <1>2, <1>4, <2>4, <2>6, <2>7 DEF BooksOf
  <2>9. /\ DOMAIN bound' = PortNumber
        /\ \A x \in PortNumber : bound'[x] # bound[x] =>
             {bound[x], bound'[x]} \subseteq {Free, Process(p), Listener(p)}
    BY <1>6, <2>1, <2>6, <2>7
  <2> QED  BY <2>1, <2>2, <2>5, <2>8, <2>9, ListenStepKeeps
<1> QED  BY <1>5, <1>6

\* A candidate is bound, or the next one is tried.
LEMMA AllocateKeeps ==
  ASSUME PortsInv, NEW p \in Supervisor, Allocate(p)
  PROVE  PortsInv'
<1>1. PlanIs(plan[p], conf[p], InstanceLease(session[p]))
  BY DEF PortsInv, PlanInv
<1>2. plan[p].at = "acquiring" /\ plan[p].todo # {} /\ plan[p].step = "start"
  BY DEF Allocate, Acquiring
<1>3. /\ DOMAIN plan[p] = DOMAIN EmptyPlan /\ plan[p].base = conf[p] /\ Acquisition(plan[p])
      /\ Assignments(plan[p]) /\ InstanceLease(session[p]) \in plan[p].leases
  BY <1>1, <1>2 DEF PlanIs
<1>4. BooksOf(p, plan[p], lease, bound)
  BY DEF PortsInv, Books
\* The plan but for the number that is tried or bound.
<1> DEFINE Tries(q) ==
             /\ DOMAIN q = DOMAIN EmptyPlan /\ q.at = "acquiring" /\ q.base = conf[p]
             /\ q.names = plan[p].names /\ q.todo = plan[p].todo /\ q.ports = plan[p].ports
             /\ q.mergePort = plan[p].mergePort /\ q.leases = plan[p].leases
             /\ q.held = plan[p].held /\ q.launched = plan[p].launched
<1>5. ASSUME NEW q, Tries(q), q.step # "leased",
             q.step = "bound" => q.port \in PortNumber \ plan[p].held
      PROVE  PlanIs(q, conf[p], InstanceLease(session[p]))
  <2>1. Ports(q) = Ports(plan[p])
    BY <1>5 DEF Ports
  <2>2. \A it \in Wanted(q.base, q.names) : it \in q.todo \/ Granted(q, it)
    BY <1>3, <1>5 DEF Acquisition, Granted
  <2>3. Acquisition(q)
    BY <1>2, <1>3, <1>5, <2>1, <2>2 DEF Acquisition, NamesOf
  <2>4. Assignments(q)
    BY <1>3, <1>5 DEF Assignments
  <2> QED  BY <1>3, <1>5, <2>3, <2>4 DEF PlanIs, Outline
<1>6. CASE Candidates(p) = {} /\ Fails(p, "invalid_configuration") /\ UNCHANGED bound
  <2>1. UNCHANGED <<conf, session, lease, bound>>
    BY <1>6 DEF Allocate
  <2> QED  BY <1>2, <1>6, <2>1, FailsKeeps
<1>7. ASSUME NEW n \in Candidates(p), bound[n] = Free,
             bound' = [bound EXCEPT ![n] = Listener(p)],
             plan' = [plan EXCEPT ![p].step = "bound", ![p].port = n]
      PROVE  PortsInv'
  <2> DEFINE q == [plan[p] EXCEPT !.step = "bound", !.port = n]
  <2>1. plan' = [plan EXCEPT ![p] = q] /\ UNCHANGED <<conf, session, lease>>
    BY <1>7 DEF Allocate
  <2>2. Tries(q) /\ q.step = "bound" /\ q.port = n
    BY <1>2, <1>3 DEF EmptyPlan
  <2> HIDE DEF q
  <2>3. n \in PortNumber
    BY DEF Candidates
  <2>4. n \notin plan[p].held
    BY <1>4, <1>7, <2>3, ListenersDiffer DEF BooksOf
  <2>5. PlanIs(q, conf[p], InstanceLease(session[p]))
    BY <1>5, <2>2, <2>3, <2>4
  <2>6. DOMAIN bound = PortNumber
    BY DEF PortsInv, PortsTypeOK
  <2>7. \A x \in PortNumber : bound'[x] = IF x = n THEN Listener(p) ELSE bound[x]
    BY <1>7, <2>6
  <2>8. /\ q.held \subseteq PortNumber /\ q.leases = plan[p].leases
        /\ \A x \in PortNumber :
             bound'[x] = Listener(p) <=> x \in q.held \/ (q.step = "bound" /\ x = q.port)
    BY <1>2, <1>4, <2>2, <2>7 DEF BooksOf
  <2>9. /\ DOMAIN bound' = PortNumber
        /\ \A x \in PortNumber : bound'[x] # bound[x] =>
             {bound[x], bound'[x]} \subseteq {Free, Process(p), Listener(p)}
    BY <1>7, <2>6, <2>7
  <2> QED  BY <2>1, <2>5, <2>8, <2>9, ListenStepKeeps
<1>8. ASSUME plan' = [plan EXCEPT ![p].tries = @ + 1], UNCHANGED bound
      PROVE  PortsInv'
  <2> DEFINE q == [plan[p] EXCEPT !.tries = @ + 1]
  <2>1. plan' = [plan EXCEPT ![p] = q] /\ UNCHANGED <<conf, session, lease, bound>>
    BY <1>8 DEF Allocate
  <2>2. Tries(q) /\ q.step = "start"
    BY <1>2, <1>3 DEF EmptyPlan
  <2> HIDE DEF q
  <2>3. PlanIs(q, conf[p], InstanceLease(session[p]))
    BY <1>5, <2>2
  <2>4. DOMAIN conf = Supervisor
    BY DEF PortsInv, PortsTypeOK
  <2> QED  BY <1>2, <2>1, <2>2, <2>3, <2>4, PlanStepKeeps
<1> QED  BY <1>6, <1>7, <1>8 DEF Allocate

\* The port that is bound is leased and assigned, or let go.
LEMMA AllocateLeaseKeeps ==
  ASSUME PortsInv, NEW p \in Supervisor, AllocateLease(p)
  PROVE  PortsInv'
<1> DEFINE item == First(plan[p].todo)
           number == plan[p].port
           label == PortLease(number)
           assigned == Assigned(plan[p], number)
<1>1. PlanIs(plan[p], conf[p], InstanceLease(session[p]))
  BY DEF PortsInv, PlanInv
<1>2. /\ plan[p].at = "acquiring" /\ plan[p].todo # {} /\ item.do = "allocate"
      /\ plan[p].step = "bound"
  BY DEF AllocateLease, Acquiring, Item
<1>3. /\ DOMAIN plan[p] = DOMAIN EmptyPlan /\ plan[p].base = conf[p] /\ Acquisition(plan[p])
      /\ Assignments(plan[p]) /\ InstanceLease(session[p]) \in plan[p].leases
  BY <1>1, <1>2 DEF PlanIs
<1>4. number \in PortNumber \ plan[p].held /\ number \notin Ports(plan[p]) /\ label \in Label
  BY <1>1, <1>2, <1>3 DEF PlanIs, Outline, Acquisition, Label
<1>5. BooksOf(p, plan[p], lease, bound) /\ DOMAIN bound = PortNumber
  BY DEF PortsInv, Books, PortsTypeOK
<1>6. CASE LeaseFree(number)
  <2> DEFINE r == [assigned EXCEPT !.leases = assigned.leases \cup {label}]
  <2>1. /\ lease' = [lease EXCEPT ![label] = p] /\ plan' = [plan EXCEPT ![p] = r]
        /\ UNCHANGED <<conf, session, bound>>
    BY <1>6 DEF AllocateLease
  <2>2. Assigns(plan[p], assigned, item, number) /\ assigned.leases = plan[p].leases
    BY <1>3, AssignedAssigns
  <2>3. lease[label] = Nobody
    BY <1>6 DEF LeaseFree
  <2> HIDE DEF assigned, item, number, label
  <2>4. Assigns(plan[p], r, item, number) /\ r.leases = plan[p].leases \cup {label}
    BY <2>2 DEF Assigns, EmptyPlan
  <2> HIDE DEF r
  <2>5. Acquisition(r) /\ Assignments(r)
    <3>1. item = First(plan[p].todo) /\ item.do = "allocate" /\ label = PortLease(number)
      BY <1>2 DEF item, label
    <3> QED  BY <1>2, <1>3, <1>4, <2>4, <3>1, AssignsKeeps
  <2>6. /\ DOMAIN r = DOMAIN EmptyPlan /\ r.at = "acquiring" /\ r.base = conf[p]
        /\ r.step = "start" /\ r.held = plan[p].held \cup {number}
    BY <1>2, <1>3, <2>4 DEF Assigns
  <2>7. PlanIs(r, conf[p], InstanceLease(session[p]))
    BY <1>3, <2>4, <2>5, <2>6 DEF PlanIs, Outline
  <2>8. \A x \in Label : lease'[x] = IF x = label THEN p ELSE lease[x]
    BY <2>1 DEF PortsInv, PortsTypeOK
  <2>9. BooksOf(p, r, lease', bound')
    <3>1. number = plan[p].port
      BY DEF number
    <3> QED  BY <1>2, <1>4, <1>5, <2>1, <2>4, <2>6, <2>8, <3>1 DEF BooksOf
  <2>10. /\ lease' \in [Label -> Supervisor \cup {Nobody, Inspector}]
         /\ \A x \in Label : lease'[x] # lease[x] => {lease[x], lease'[x]} \subseteq {p, Nobody}
         /\ DOMAIN conf' = Supervisor /\ DOMAIN bound' = PortNumber
    BY <1>5, <2>1, <2>3, <2>8 DEF PortsInv, PortsTypeOK
  <2> QED  BY <2>1, <2>7, <2>9, <2>10, StepKeeps
<1>7. CASE ~LeaseFree(number)
  <2> DEFINE q == [plan[p] EXCEPT !.step = "start", !.tries = @ + 1]
  <2>1. /\ bound' = [bound EXCEPT ![number] = Free] /\ plan' = [plan EXCEPT ![p] = q]
        /\ UNCHANGED <<conf, session, lease>>
    BY <1>7 DEF AllocateLease
  <2>2. /\ DOMAIN q = DOMAIN EmptyPlan /\ q.at = "acquiring" /\ q.base = conf[p]
        /\ q.names = plan[p].names /\ q.todo = plan[p].todo /\ q.ports = plan[p].ports
        /\ q.mergePort = plan[p].mergePort /\ q.leases = plan[p].leases
        /\ q.held = plan[p].held /\ q.launched = plan[p].launched /\ q.step = "start"
    BY <1>2, <1>3 DEF EmptyPlan
  <2> HIDE DEF q
  <2>3. Ports(q) = Ports(plan[p])
    BY <2>2 DEF Ports
  <2>4. \A it \in Wanted(q.base, q.names) : it \in q.todo \/ Granted(q, it)
    BY <1>3, <2>2 DEF Acquisition, Granted
  <2>5. Acquisition(q)
    BY <1>3, <2>2, <2>3, <2>4 DEF Acquisition, NamesOf
  <2>6. Assignments(q)
    BY <1>3, <2>2 DEF Assignments
  <2>7. PlanIs(q, conf[p], InstanceLease(session[p]))
    BY <1>3, <2>2, <2>5, <2>6 DEF PlanIs, Outline
  <2>8. \A x \in PortNumber : bound'[x] = IF x = number THEN Free ELSE bound[x]
    BY <1>5, <2>1
  <2>9. bound[number] = Listener(p)
    BY <1>2, <1>4, <1>5 DEF BooksOf
  <2>10. /\ q.held \subseteq PortNumber
         /\ \A x \in PortNumber :
              bound'[x] = Listener(p) <=> x \in q.held \/ (q.step = "bound" /\ x = q.port)
    BY <1>2, <1>4, <1>5, <2>2, <2>8, ListenersDiffer DEF BooksOf
  <2>11. /\ DOMAIN bound' = PortNumber
         /\ \A x \in PortNumber : bound'[x] # bound[x] =>
              {bound[x], bound'[x]} \subseteq {Free, Process(p), Listener(p)}
    BY <1>5, <2>1, <2>8, <2>9
  <2> QED  BY <2>1, <2>2, <2>7, <2>10, <2>11, ListenStepKeeps
<1> QED  BY <1>6, <1>7

-----------------------------------------------------------------------------
(* The plan in use *)

\* A plan whose references have ports has no unresolved one.
LEMMA ReferencesResolve ==
  ASSUME NEW q, NamesOf(q), Sound(q.base), References(q, q.base)
  PROVE  ~Unresolved(q.base, q.names \ TeardownNames(q.base))
<1> DEFINE selected == q.names \ TeardownNames(q.base)
<1> SUFFICES ASSUME NEW n \in selected \cup TeardownNames(q.base),
                    NEW ref \in q.base.procs[n].refs
             PROVE  referenceResolvable(q.base, ref, selected)
  BY DEF Unresolved
<1>1. n \in q.names \cap DOMAIN q.base.procs
  BY DEF NamesOf
<1>2. ref \in DOMAIN q.ports
  BY <1>1 DEF References
<1>3. ref \in q.names /\ ref \in DOMAIN q.base.procs /\ q.base.procs[ref].http # Undeclared
  BY <1>2 DEF NamesOf
<1>4. ref \notin TeardownNames(q.base)
  BY <1>3 DEF Sound, TeardownNames
<1> QED  BY <1>3, <1>4 DEF referenceResolvable

\* Everything that was wanted is granted.
LEMMA ResolveKeeps ==
  ASSUME PortsInv, NEW p \in Supervisor, Resolve(p)
  PROVE  PortsInv'
<1> DEFINE c == conf[p]
           uses == Grown(plan[p], c)
           q == [plan[p] EXCEPT !.at = "held", !.uses = uses]
<1>1. PlanIs(plan[p], c, InstanceLease(session[p]))
  BY DEF PortsInv, PlanInv
<1>2. plan[p].at = "acquiring" /\ plan[p].todo = {} /\ UNCHANGED <<conf, session, lease, bound>>
  BY DEF Resolve
<1>3. /\ DOMAIN plan[p] = DOMAIN EmptyPlan /\ plan[p].base = c /\ Acquisition(plan[p])
      /\ Assignments(plan[p]) /\ InstanceLease(session[p]) \in plan[p].leases
  BY <1>1, <1>2 DEF PlanIs
<1>4. plan[p].step # "bound"
  BY <1>2, <1>3 DEF Acquisition
<1>5. CASE ~(SameLeases(plan[p], c) /\ References(plan[p], c))
  <2>1. Fails(p, "invalid_configuration")
    BY <1>5 DEF Resolve
  <2> QED  BY <1>2, <1>4, <2>1, FailsKeeps
<1>6. CASE SameLeases(plan[p], c) /\ References(plan[p], c)
  <2>1. plan' = [plan EXCEPT ![p] = q]
    BY <1>6 DEF Resolve
  <2>2. /\ DOMAIN q = DOMAIN EmptyPlan /\ q.at = "held" /\ q.base = c
        /\ q.names = plan[p].names /\ q.ports = plan[p].ports
        /\ q.mergePort = plan[p].mergePort /\ q.leases = plan[p].leases
        /\ q.held = plan[p].held /\ q.launched = plan[p].launched /\ q.step = plan[p].step
        /\ q.uses = uses
    BY <1>3 DEF EmptyPlan
  <2>3. DOMAIN uses = plan[p].names
    BY DEF Grown
  <2> HIDE DEF q, uses, c
  <2>4. NamesOf(q) /\ Ports(q) = Ports(plan[p])
    BY <1>3, <2>2 DEF Acquisition, NamesOf, Ports
  <2>5. \A item \in Wanted(q.base, q.names) : Granted(q, item)
    BY <1>2, <1>3, <2>2 DEF Acquisition, Granted
  <2>6. ~Unresolved(q.base, q.names \ TeardownNames(q.base))
    BY <1>3, <1>6, <2>2, <2>4, ReferencesResolve DEF Acquisition, References
  <2>7. Grant(q, c)
    BY <1>3, <2>2, <2>3, <2>4, <2>5, <2>6 DEF Grant, Acquisition
  <2>8. Assignments(q)
    BY <1>3, <2>2 DEF Assignments
  <2>9. PlanIs(q, c, InstanceLease(session[p]))
    BY <1>3, <1>4, <2>2, <2>7, <2>8 DEF PlanIs, Outline
  <2>10. DOMAIN conf = Supervisor
    BY DEF PortsInv, PortsTypeOK
  <2> QED  BY <1>2, <1>4, <2>1, <2>2, <2>9, <2>10, PlanStepKeeps DEF c
<1> QED  BY <1>5, <1>6

\* A reload changes no lease and no port, and the uses only grow.
LEMMA ResolveReloadKeeps ==
  ASSUME PortsInv, NEW p \in Supervisor, ResolveReload(p)
  PROVE  PortsInv'
<1>1. PlanIs(plan[p], conf[p], InstanceLease(session[p])) /\ plan[p].at = "held"
  BY DEF PortsInv, PlanInv, ResolveReload
<1>2. /\ DOMAIN plan[p] = DOMAIN EmptyPlan /\ Grant(plan[p], conf[p])
      /\ Assignments(plan[p]) /\ InstanceLease(session[p]) \in plan[p].leases
      /\ plan[p].step # "bound"
  BY <1>1 DEF PlanIs, Outline
<1>3. PICK c \in Reloads :
        /\ SameLeases(plan[p], c)
        /\ conf' = [conf EXCEPT ![p] = IF SameStack(@, c) THEN c ELSE @]
        /\ plan' = [plan EXCEPT ![p].uses = Grown(plan[p], c)]
  BY DEF ResolveReload
<1> DEFINE uses == Grown(plan[p], c)
           q == [plan[p] EXCEPT !.uses = uses]
<1>4. plan' = [plan EXCEPT ![p] = q] /\ UNCHANGED <<session, lease, bound>>
  BY <1>3 DEF ResolveReload
<1>5. /\ DOMAIN conf = Supervisor /\ DOMAIN conf' = Supervisor
      /\ \A r \in Supervisor \ {p} : conf'[r] = conf[r]
      /\ conf'[p] = c \/ conf'[p] = conf[p]
  BY <1>3 DEF PortsInv, PortsTypeOK
<1>6. /\ DOMAIN q = DOMAIN EmptyPlan /\ q.at = "held" /\ q.base = plan[p].base
      /\ q.names = plan[p].names /\ q.ports = plan[p].ports
      /\ q.mergePort = plan[p].mergePort /\ q.leases = plan[p].leases
      /\ q.held = plan[p].held /\ q.launched = plan[p].launched /\ q.step = plan[p].step
      /\ q.uses = uses
  BY <1>1, <1>2 DEF EmptyPlan
<1>7. DOMAIN uses = plan[p].names /\ \A n \in plan[p].names : plan[p].uses[n] \subseteq uses[n]
  BY <1>2 DEF Grown, Grant
<1> HIDE DEF q, uses
<1>8. NamesOf(q) /\ Ports(q) = Ports(plan[p])
  BY <1>2, <1>6 DEF Grant, NamesOf, Ports
<1>9. \A item \in Wanted(q.base, q.names) : Granted(q, item)
  BY <1>2, <1>6 DEF Grant, Granted
<1>10. /\ conf'[p].resources = q.base.resources
       /\ \A n \in q.names \cap DOMAIN conf'[p].procs :
            conf'[p].procs[n].http = q.base.procs[n].http
  <2>1. CASE conf'[p] = c
    BY <1>3, <1>6, <2>1 DEF SameLeases
  <2>2. CASE conf'[p] = conf[p]
    BY <1>2, <1>6, <2>2 DEF Grant
  <2> QED  BY <1>5, <2>1, <2>2
<1>11. \A x \in Ports(q) : x \in q.held \/ \E n \in q.launched : x \in q.uses[n]
  BY <1>2, <1>6, <1>7, <1>8 DEF Grant
<1>12. Grant(q, conf'[p])
  BY <1>2, <1>6, <1>7, <1>8, <1>9, <1>10, <1>11 DEF Grant
<1>13. Assignments(q)
  BY <1>2, <1>6 DEF Assignments
<1>14. PlanIs(q, conf'[p], InstanceLease(session[p]))
  BY <1>2, <1>6, <1>12, <1>13 DEF PlanIs, Outline
<1> QED  BY <1>2, <1>4, <1>5, <1>6, <1>14, PlanStepKeeps

\* A port that is released is used by a process that was about to start.
LEMMA ReleasePortsKeeps ==
  ASSUME PortsInv, NEW p \in Supervisor, NEW n, ReleasePorts(p, n)
  PROVE  PortsInv'
<1> DEFINE freed == plan[p].uses[n] \cap plan[p].held
           q == [plan[p] EXCEPT !.held = @ \ freed, !.launched = @ \cup {n}]
<1>1. /\ PlanIs(plan[p], conf[p], InstanceLease(session[p])) /\ plan[p].at = "held"
      /\ n \in plan[p].names
  BY DEF PortsInv, PlanInv, ReleasePorts
<1>2. /\ DOMAIN plan[p] = DOMAIN EmptyPlan /\ Grant(plan[p], conf[p])
      /\ Assignments(plan[p]) /\ InstanceLease(session[p]) \in plan[p].leases
      /\ plan[p].step # "bound"
  BY <1>1 DEF PlanIs, Outline
<1>3. /\ plan' = [plan EXCEPT ![p] = q] /\ UNCHANGED <<conf, session, lease>>
      /\ bound' = [x \in PortNumber |-> IF x \in freed THEN Free ELSE bound[x]]
  BY DEF ReleasePorts
<1>4. /\ DOMAIN q = DOMAIN EmptyPlan /\ q.at = "held" /\ q.base = plan[p].base
      /\ q.names = plan[p].names /\ q.ports = plan[p].ports
      /\ q.mergePort = plan[p].mergePort /\ q.leases = plan[p].leases
      /\ q.held = plan[p].held \ freed /\ q.launched = plan[p].launched \cup {n}
      /\ q.step = plan[p].step /\ q.uses = plan[p].uses
  BY <1>1, <1>2 DEF EmptyPlan
<1>5. freed \subseteq plan[p].held /\ freed \subseteq plan[p].uses[n]
  OBVIOUS
<1> HIDE DEF q, freed
<1>6. NamesOf(q) /\ Ports(q) = Ports(plan[p])
  BY <1>2, <1>4 DEF Grant, NamesOf, Ports
<1>7. \A item \in Wanted(q.base, q.names) : Granted(q, item)
  BY <1>2, <1>4 DEF Grant, Granted
<1>8. \A x \in Ports(q) : x \in q.held \/ \E m \in q.launched : x \in q.uses[m]
  BY <1>2, <1>4, <1>5, <1>6 DEF Grant
<1>9. Grant(q, conf[p])
  BY <1>1, <1>2, <1>4, <1>6, <1>7, <1>8 DEF Grant
<1>10. Assignments(q)
  BY <1>2, <1>4 DEF Assignments
<1>11. PlanIs(q, conf[p], InstanceLease(session[p]))
  BY <1>2, <1>4, <1>9, <1>10 DEF PlanIs, Outline
<1>12. BooksOf(p, plan[p], lease, bound)
  BY DEF PortsInv, Books
<1>13. /\ q.held \subseteq PortNumber
       /\ \A x \in PortNumber :
            bound'[x] = Listener(p) <=> x \in q.held \/ (q.step = "bound" /\ x = q.port)
  BY <1>2, <1>3, <1>4, <1>12, ListenersDiffer DEF BooksOf
<1>14. /\ DOMAIN bound' = PortNumber
       /\ \A x \in PortNumber : bound'[x] # bound[x] =>
            {bound[x], bound'[x]} \subseteq {Free, Process(p), Listener(p)}
  BY <1>3, <1>5, <1>12 DEF BooksOf
<1> QED  BY <1>3, <1>4, <1>11, <1>13, <1>14, ListenStepKeeps

\* The processes of the stack are gone before the plan closes.
LEMMA StackEndsKeeps ==
  ASSUME PortsInv, NEW p \in Supervisor, StackEnds(p)
  PROVE  PortsInv'
<1> DEFINE q == [plan[p] EXCEPT !.at = "closing"]
<1>1. /\ plan[p].at = "held" /\ plan' = [plan EXCEPT ![p] = q] /\ UNCHANGED <<conf, session, lease>>
      /\ bound' = [x \in PortNumber |-> IF bound[x] = Process(p) THEN Free ELSE bound[x]]
  BY DEF StackEnds
<1>2. DOMAIN plan[p] = DOMAIN EmptyPlan /\ plan[p].step # "bound"
  BY <1>1 DEF PortsInv, PlanInv, PlanIs, Outline
<1>3. /\ DOMAIN q = DOMAIN EmptyPlan /\ q.at = "closing" /\ q.leases = plan[p].leases
      /\ q.held = plan[p].held /\ q.step = plan[p].step
  BY <1>2 DEF EmptyPlan
<1> HIDE DEF q
<1>4. PlanIs(q, conf[p], InstanceLease(session[p]))
  BY <1>2, <1>3 DEF PlanIs, Outline
<1>5. BooksOf(p, plan[p], lease, bound)
  BY DEF PortsInv, Books
<1>6. /\ q.held \subseteq PortNumber
      /\ \A x \in PortNumber :
           bound'[x] = Listener(p) <=> x \in q.held \/ (q.step = "bound" /\ x = q.port)
  BY <1>1, <1>2, <1>3, <1>5, ListenersDiffer DEF BooksOf
<1>7. /\ DOMAIN bound' = PortNumber
      /\ \A x \in PortNumber : bound'[x] # bound[x] =>
           {bound[x], bound'[x]} \subseteq {Free, Process(p), Listener(p)}
  BY <1>1
<1> QED  BY <1>1, <1>3, <1>4, <1>6, <1>7, ListenStepKeeps

\* Close lets go of every listener.
LEMMA CloseKeeps ==
  ASSUME PortsInv, NEW p \in Supervisor, Close(p)
  PROVE  PortsInv'
<1> DEFINE q == [plan[p] EXCEPT !.at = "unbound", !.held = {}]
<1>1. /\ plan[p].at = "closing" /\ plan' = [plan EXCEPT ![p] = q]
      /\ UNCHANGED <<conf, session, lease>>
      /\ bound' = [x \in PortNumber |-> IF x \in plan[p].held THEN Free ELSE bound[x]]
  BY DEF Close
<1>2. DOMAIN plan[p] = DOMAIN EmptyPlan /\ plan[p].step # "bound"
  BY <1>1 DEF PortsInv, PlanInv, PlanIs, Outline
<1>3. /\ DOMAIN q = DOMAIN EmptyPlan /\ q.at = "unbound" /\ q.leases = plan[p].leases
      /\ q.held = {} /\ q.step = plan[p].step
  BY <1>2 DEF EmptyPlan
<1> HIDE DEF q
<1>4. PlanIs(q, conf[p], InstanceLease(session[p]))
  BY <1>2, <1>3 DEF PlanIs, Outline
<1>5. BooksOf(p, plan[p], lease, bound)
  BY DEF PortsInv, Books
<1>6. /\ q.held \subseteq PortNumber
      /\ \A x \in PortNumber :
           bound'[x] = Listener(p) <=> x \in q.held \/ (q.step = "bound" /\ x = q.port)
  BY <1>1, <1>2, <1>3, <1>5, ListenersDiffer DEF BooksOf
<1>7. /\ DOMAIN bound' = PortNumber
      /\ \A x \in PortNumber : bound'[x] # bound[x] =>
           {bound[x], bound'[x]} \subseteq {Free, Process(p), Listener(p)}
  BY <1>1, <1>5 DEF BooksOf
<1> QED  BY <1>1, <1>3, <1>4, <1>6, <1>7, ListenStepKeeps

\* The leases go last, when nothing listens any more.
LEMMA CloseLeasesKeeps ==
  ASSUME PortsInv, NEW p \in Supervisor, CloseLeases(p)
  PROVE  PortsInv'
<1> DEFINE q == [plan[p] EXCEPT !.at = "over", !.leases = {}]
<1>1. /\ plan[p].at = "unbound" /\ plan' = [plan EXCEPT ![p] = q]
      /\ UNCHANGED <<conf, session, bound>>
      /\ lease' = [x \in Label |-> IF x \in plan[p].leases THEN Nobody ELSE lease[x]]
  BY DEF CloseLeases
<1>2. DOMAIN plan[p] = DOMAIN EmptyPlan /\ plan[p].step # "bound" /\ plan[p].held = {}
  BY <1>1 DEF PortsInv, PlanInv, PlanIs, Outline
<1>3. /\ DOMAIN q = DOMAIN EmptyPlan /\ q.at = "over" /\ q.leases = {}
      /\ q.held = {} /\ q.step = plan[p].step
  BY <1>2 DEF EmptyPlan
<1> HIDE DEF q
<1>4. PlanIs(q, conf[p], InstanceLease(session[p]))
  BY <1>2, <1>3 DEF PlanIs, Outline
<1>5. BooksOf(p, plan[p], lease, bound)
  BY DEF PortsInv, Books
<1>6. BooksOf(p, q, lease', bound')
  BY <1>1, <1>2, <1>3, <1>5, SessionAssumption DEF BooksOf, Nobody
<1>7. /\ lease' \in [Label -> Supervisor \cup {Nobody, Inspector}] /\ DOMAIN bound' = PortNumber
      /\ \A x \in Label : lease'[x] # lease[x] => {lease[x], lease'[x]} \subseteq {p, Nobody}
      /\ DOMAIN conf' = Supervisor
  BY <1>1, <1>5 DEF PortsInv, PortsTypeOK, BooksOf
<1> QED  BY <1>1, <1>4, <1>6, <1>7, StepKeeps

\* The system closes everything a supervisor had.
LEMMA CrashKeeps ==
  ASSUME PortsInv, NEW p \in Supervisor, Crash(p)
  PROVE  PortsInv'
<1> DEFINE q == [EmptyPlan EXCEPT !.at = "gone"]
<1>1. /\ plan' = [plan EXCEPT ![p] = q] /\ UNCHANGED <<conf, session>>
      /\ bound' = [x \in PortNumber |-> IF bound[x] = Listener(p) THEN Free ELSE bound[x]]
      /\ lease' = [x \in Label |-> IF lease[x] = p THEN Nobody ELSE lease[x]]
  BY DEF Crash, SystemCloses
<1>2. /\ DOMAIN q = DOMAIN EmptyPlan /\ q.at = "gone" /\ q.leases = {} /\ q.held = {}
      /\ q.step = "start"
  BY DEF EmptyPlan
<1> HIDE DEF q
<1>3. PlanIs(q, conf[p], InstanceLease(session[p]))
  BY <1>2 DEF PlanIs, Outline
<1>4. BooksOf(p, q, lease', bound')
  BY <1>1, <1>2, ListenersDiffer, SessionAssumption DEF BooksOf, Nobody
<1>5. \A x \in PortNumber : \A r \in Supervisor \ {p} :
        bound'[x] = Listener(r) <=> bound[x] = Listener(r)
  BY <1>1, ListenersDiffer
<1>6. /\ lease' \in [Label -> Supervisor \cup {Nobody, Inspector}] /\ DOMAIN bound' = PortNumber
      /\ \A x \in Label : lease'[x] # lease[x] => {lease[x], lease'[x]} \subseteq {p, Nobody}
      /\ DOMAIN conf' = Supervisor
  BY <1>1 DEF PortsInv, PortsTypeOK
<1> QED  BY <1>1, <1>3, <1>4, <1>5, <1>6, StepKeeps

-----------------------------------------------------------------------------
(* The others *)

\* A step that changes no plan, and nothing that a plan has.
LEMMA OthersKeep ==
  ASSUME PortsInv, UNCHANGED <<conf, session, plan>>,
         lease' \in [Label -> Supervisor \cup {Nobody, Inspector}], DOMAIN bound' = PortNumber,
         \A p \in Supervisor :
           /\ \A x \in Label : lease'[x] = p <=> lease[x] = p
           /\ \A x \in PortNumber : bound'[x] = Listener(p) <=> bound[x] = Listener(p)
  PROVE  PortsInv'
<1>1. PortsTypeOK'
  BY DEF PortsInv, PortsTypeOK
<1>2. ASSUME NEW p \in Supervisor PROVE PlanInv(p)' /\ Books(p)'
  <2>1. PlanInv(p)'
    BY DEF PortsInv, PlanInv
  <2>2. BooksOf(p, plan[p], lease, bound)
    BY DEF PortsInv, Books
  <2>3. BooksOf(p, plan[p], lease', bound')
    BY <2>2 DEF BooksOf
  <2> QED  BY <2>1, <2>3 DEF Books
<1> QED  BY <1>1, <1>2 DEF PortsInv

\* A started process binds a port that is free.
LEMMA ListensKeeps ==
  ASSUME PortsInv, NEW p \in Supervisor, NEW n, Listens(p, n)
  PROVE  PortsInv'
<1>1. /\ UNCHANGED <<conf, session, plan, lease>>
      /\ bound[plan[p].ports[n]] = Free
      /\ bound' = [bound EXCEPT ![plan[p].ports[n]] = Process(p)]
  BY DEF Listens
<1>2. DOMAIN bound = PortNumber /\ lease \in [Label -> Supervisor \cup {Nobody, Inspector}]
  BY DEF PortsInv, PortsTypeOK
<1>3. \A r \in Supervisor : Process(p) # Listener(r) /\ Free # Listener(r)
  BY ListenersDiffer
<1>4. \A x \in PortNumber : bound'[x] = bound[x] \/ (bound[x] = Free /\ bound'[x] = Process(p))
  BY <1>1, <1>2
<1> QED  BY <1>1, <1>2, <1>3, <1>4, OthersKeep

\* An inspection holds no lease of a supervisor.
LEMMA InspectionKeeps ==
  ASSUME PortsInv, NEW s \in SessionName, InstanceHeld(s) \/ InspectionEnds(s)
  PROVE  PortsInv'
<1> DEFINE label == InstanceLease(s)
<1>1. UNCHANGED <<conf, session, plan, bound>>
  BY DEF InstanceHeld, InspectionEnds
<1>2. DOMAIN bound = PortNumber /\ lease \in [Label -> Supervisor \cup {Nobody, Inspector}]
  BY DEF PortsInv, PortsTypeOK
<1>3. label \in Label
  BY DEF Label
<1>4. \/ lease[label] = Nobody /\ lease' = [lease EXCEPT ![label] = Inspector]
      \/ lease[label] = Inspector /\ lease' = [lease EXCEPT ![label] = Nobody]
  BY DEF InstanceHeld, InspectionEnds
<1> HIDE DEF label
<1>5. lease' \in [Label -> Supervisor \cup {Nobody, Inspector}]
  BY <1>2, <1>3, <1>4
<1>6. \A p \in Supervisor : \A x \in Label : lease'[x] = p <=> lease[x] = p
  BY <1>2, <1>3, <1>4, SessionAssumption DEF Nobody, Inspector
<1> QED  BY <1>1, <1>2, <1>5, <1>6, OthersKeep

\* Nor does a program outside bind or free a port of a listener.
LEMMA OutsideKeeps ==
  ASSUME PortsInv, NEW n \in PortNumber, OutsideBinds(n) \/ OutsideFrees(n)
  PROVE  PortsInv'
<1>1. UNCHANGED <<conf, session, plan, lease>>
  BY DEF OutsideBinds, OutsideFrees
<1>2. DOMAIN bound = PortNumber /\ lease \in [Label -> Supervisor \cup {Nobody, Inspector}]
  BY DEF PortsInv, PortsTypeOK
<1>3. \/ bound[n] = Free /\ bound' = [bound EXCEPT ![n] = Outsider]
      \/ bound[n] = Outsider /\ bound' = [bound EXCEPT ![n] = Free]
  BY DEF OutsideBinds, OutsideFrees
<1>4. \A p \in Supervisor : Free # Listener(p) /\ Outsider # Listener(p)
  BY ListenersDiffer
<1>5. DOMAIN bound' = PortNumber
  BY <1>2, <1>3
<1>6. \A p \in Supervisor : \A x \in PortNumber : bound'[x] = Listener(p) <=> bound[x] = Listener(p)
  BY <1>2, <1>3, <1>4
<1> QED  BY <1>1, <1>2, <1>5, <1>6, OthersKeep

-----------------------------------------------------------------------------
(* The invariant *)

\* Every step keeps the plans and the books.
LEMMA PortsStep ==
  ASSUME PortsInv, [PortsNext \/ \E p \in Supervisor : AcquireStep(p)]_sessionVars
  PROVE  PortsInv'
<1>1. CASE UNCHANGED sessionVars
  <2>1. UNCHANGED <<conf, session, plan, lease, bound>>
    BY <1>1 DEF sessionVars
  <2>2. DOMAIN bound = PortNumber /\ lease \in [Label -> Supervisor \cup {Nobody, Inspector}]
    BY DEF PortsInv, PortsTypeOK
  <2> QED  BY <2>1, <2>2, OthersKeep
<1>2. ASSUME NEW p \in Supervisor, AcquireStep(p) PROVE PortsInv'
  BY <1>2, TakeInstanceKeeps, TakeLeaseKeeps, HoldKeeps, HoldBindKeeps, AllocateKeeps,
     AllocateLeaseKeeps, ResolveKeeps, CloseKeeps, CloseLeasesKeeps DEF AcquireStep
<1>3. ASSUME NEW p \in Supervisor,
             \/ conf[p].ok /\ Acquire(p, {})
             \/ ResolveReload(p) \/ StackEnds(p) \/ Crash(p)
             \/ \E n \in plan[p].names : ReleasePorts(p, n) \/ Listens(p, n)
      PROVE  PortsInv'
  BY <1>3, AcquireKeeps, ResolveReloadKeeps, StackEndsKeeps, CrashKeeps, ReleasePortsKeeps,
     ListensKeeps
<1>4. ASSUME NEW s \in SessionName, InstanceHeld(s) \/ InspectionEnds(s) PROVE PortsInv'
  BY <1>4, InspectionKeeps
<1>5. ASSUME NEW n \in PortNumber, OutsideBinds(n) \/ OutsideFrees(n) PROVE PortsInv'
  BY <1>5, OutsideKeeps
<1> QED  BY <1>1, <1>2, <1>3, <1>4, <1>5 DEF PortsNext

\* At first nobody has anything.
LEMMA PortsStart ==
  ASSUME NEW confs, NEW sessions,
         \A c \in confs : DOMAIN c = Supervisor /\ \A p \in Supervisor : c[p].ok => Sound(c[p]),
         sessions \subseteq [Supervisor -> SessionName],
         SessionInit(confs, sessions)
  PROVE  PortsInv
<1>1. /\ DOMAIN plan = Supervisor /\ \A p \in Supervisor : plan[p] = EmptyPlan
      /\ lease = [x \in Label |-> Nobody] /\ bound = [n \in PortNumber |-> Free]
      /\ DOMAIN conf = Supervisor /\ \A p \in Supervisor : conf[p].ok => Sound(conf[p])
      /\ session \in [Supervisor -> SessionName]
  BY DEF SessionInit
<1>2. PortsTypeOK
  BY <1>1 DEF PortsTypeOK
<1>3. /\ EmptyPlan.at = "idle" /\ EmptyPlan.leases = {} /\ EmptyPlan.held = {}
      /\ EmptyPlan.step = "start"
  BY DEF EmptyPlan
<1>4. ASSUME NEW p \in Supervisor PROVE PlanInv(p) /\ Books(p)
  <2>1. PlanIs(EmptyPlan, conf[p], InstanceLease(session[p]))
    BY <1>1, <1>3 DEF PlanIs, Outline
  <2>2. BooksOf(p, EmptyPlan, lease, bound)
    BY <1>1, <1>3, ListenersDiffer, SessionAssumption DEF BooksOf, Nobody
  <2> QED  BY <1>1, <2>1, <2>2 DEF PlanInv, Books
<1> QED  BY <1>2, <1>4 DEF PortsInv

\* The books of a granted plan, and of one that is over.
LEMMA NobodyTrespasses ==
  ASSUME PortsInv
  PROVE  NoTrespass
<1> SUFFICES ASSUME NEW p \in Supervisor
             PROVE  LET q == plan[p]
                    IN  /\ q.at = "held" =>
                             /\ lease[InstanceLease(session[p])] = p
                             /\ \A r \in Identities(conf[p]) : lease[ResourceLease(r)] = p
                             /\ \A x \in Ports(q) : lease[PortLease(x)] = p
                             /\ IsInjective(q.ports)
                             /\ q.mergePort \notin {q.ports[n] : n \in DOMAIN q.ports}
                             /\ \A n \in q.names \cap DOMAIN conf[p].procs :
                                  conf[p].procs[n].http # Undeclared =>
                                    /\ n \in DOMAIN q.ports
                                    /\ n \in MergeUpstreamPorts(q.base) =>
                                         q.ports[n] = conf[p].procs[n].http
                             /\ \A x \in Ports(q) :
                                  (\A n \in q.launched : x \notin q.uses[n]) => bound[x] = Listener(p)
                             /\ ~Unresolved(q.base, q.names \ TeardownNames(q.base))
                        /\ q.at = "gone" \/ (q.at = "over" /\ q.why # "session_occupied") =>
                             /\ \A x \in Label : lease[x] # p
                             /\ \A x \in PortNumber : bound[x] # Listener(p)
  BY DEF NoTrespass
<1> DEFINE q == plan[p]
           c == conf[p]
<1>1. PlanIs(q, c, InstanceLease(session[p])) /\ BooksOf(p, q, lease, bound)
  BY DEF PortsInv, PlanInv, Books
<1> HIDE DEF q, c
<1>2. ASSUME q.at = "held"
      PROVE  /\ lease[InstanceLease(session[p])] = p
             /\ \A r \in Identities(c) : lease[ResourceLease(r)] = p
             /\ \A x \in Ports(q) : lease[PortLease(x)] = p
             /\ IsInjective(q.ports)
             /\ q.mergePort \notin {q.ports[n] : n \in DOMAIN q.ports}
             /\ \A n \in q.names \cap DOMAIN c.procs :
                  c.procs[n].http # Undeclared =>
                    /\ n \in DOMAIN q.ports
                    /\ n \in MergeUpstreamPorts(q.base) => q.ports[n] = c.procs[n].http
             /\ \A x \in Ports(q) :
                  (\A n \in q.launched : x \notin q.uses[n]) => bound[x] = Listener(p)
             /\ ~Unresolved(q.base, q.names \ TeardownNames(q.base))
  <2>1. Grant(q, c) /\ Assignments(q) /\ InstanceLease(session[p]) \in q.leases
    BY <1>1, <1>2 DEF PlanIs
  <2>2. q.leases \subseteq Label /\ \A x \in q.leases : lease[x] = p
    BY <1>1 DEF BooksOf
  <2>3. ASSUME NEW r \in Identities(c) PROVE lease[ResourceLease(r)] = p
    <3>1. r \in Identities(q.base)
      BY <2>1 DEF Identities, Grant
    <3>2. PICK item \in Wanted(q.base, q.names) : item.do = "lease" /\ item.label = ResourceLease(r)
      BY <3>1, AllWanted
    <3>3. ResourceLease(r) \in q.leases
      BY <2>1, <3>2 DEF Grant, Granted
    <3> QED  BY <2>2, <3>3
  <2>4. \A x \in Ports(q) : PortLease(x) \in q.leases /\ x \in PortNumber
    BY <2>1 DEF Assignments, Ports
  <2>5. q.mergePort \notin {q.ports[n] : n \in DOMAIN q.ports} /\ IsInjective(q.ports)
    BY <2>1 DEF Assignments
  <2>6. ASSUME NEW n \in q.names \cap DOMAIN c.procs, c.procs[n].http # Undeclared
        PROVE  /\ n \in DOMAIN q.ports
               /\ n \in MergeUpstreamPorts(q.base) => q.ports[n] = c.procs[n].http
    <3>1. q.base.procs[n].http = c.procs[n].http
      BY <2>1 DEF Grant
    <3>2. PICK item \in Wanted(q.base, q.names) :
            /\ item.process = n /\ item.port = q.base.procs[n].http
            /\ item.do = IF n \in MergeUpstreamPorts(q.base) THEN "hold" ELSE "allocate"
      BY <2>6, <3>1, AllWanted
    <3>3. Granted(q, item)
      BY <2>1 DEF Grant
    <3> QED  BY <3>1, <3>2, <3>3 DEF Granted
  <2>7. ASSUME NEW x \in Ports(q), \A n \in q.launched : x \notin q.uses[n]
        PROVE  bound[x] = Listener(p)
    <3>1. x \in q.held
      BY <2>1, <2>7 DEF Grant
    <3> QED  BY <1>1, <2>4, <3>1 DEF BooksOf
  <2>8. ~Unresolved(q.base, q.names \ TeardownNames(q.base))
    BY <2>1 DEF Grant
  <2> QED  BY <2>1, <2>2, <2>3, <2>4, <2>5, <2>6, <2>7, <2>8
<1>3. ASSUME q.at = "gone" \/ q.at = "over"
      PROVE  (\A x \in Label : lease[x] # p) /\ (\A x \in PortNumber : bound[x] # Listener(p))
  <2>1. q.leases = {} /\ q.held = {} /\ q.step # "bound"
    BY <1>1, <1>3 DEF PlanIs, Outline
  <2> QED  BY <1>1, <2>1 DEF BooksOf
<1> QED  BY <1>2, <1>3 DEF q, c

\* A configuration that Load accepts has the merge port, the labels and the
\* teardown processes that sessions rely on.
LEMMA LoadIsSound ==
  ASSUME NEW f, IsFile(f), Load(f).ok,
         \A i \in DOMAIN f.resources : f.resources[i].trimmed \in DOMAIN Identity
  PROVE  Sound(Load(f))
<1> DEFINE c == Defaulted(f)
           served == servedPorts(c.procs)
           up == resolveUpstreamProcesses(serviceUpstreams(c.procs), served, c.merge)
           wired == IF c.merge.on THEN Wire(c, up) ELSE c
           L == Load(f)
<1>1. /\ IsFile(c) /\ c.procs = f.procs /\ c.resources = f.resources /\ c.merge.on = f.merge.on
  BY DefaultedIs
<1>2. /\ L = Finish(wired) /\ (c.merge.on => MergeAccepted(c, served))
      /\ \A n \in DOMAIN wired.procs : ValidProcess(wired.procs[n])
  BY LoadedIs
<1>3. /\ DOMAIN c = {"merge", "resources", "procs"}
      /\ \A n \in DOMAIN c.procs : c.procs[n] \in ProcessRecord
  BY <1>1 DEF IsFile
<1>4. CASE ~c.merge.on
  <2>1. L = Finish(c) /\ wired = c
    BY <1>2, <1>4
  <2> HIDE DEF L, c
  <2>2. /\ L.resources = Normalized(c.resources) /\ L.merge = c.merge
        /\ L.procs = [n \in DOMAIN c.procs |-> MergeEnvFile(c.procs[n])]
    BY <2>1 DEF Finish
  <2>3. L.resources \subseteq DOMAIN Identity
    BY <1>1, <2>2 DEF Normalized
  <2>4. ASSUME NEW n \in DOMAIN L.procs, L.procs[n].mode = "teardown"
        PROVE  L.procs[n].http = Undeclared
    <3>1. n \in DOMAIN c.procs /\ L.procs[n] = MergeEnvFile(c.procs[n])
      BY <2>2
    <3>2. L.procs[n].http = c.procs[n].http /\ L.procs[n].mode = c.procs[n].mode
      BY <1>3, <3>1, EnvKept
    <3> QED  BY <1>2, <2>1, <2>4, <3>1, <3>2 DEF ValidProcess, validateTeardown
  <2> QED  BY <1>4, <2>2, <2>3, <2>4 DEF Sound, L
<1>5. CASE c.merge.on
  <2>1. L = Finish(Wire(c, up)) /\ wired = Wire(c, up) /\ buildMergeCmd(c.merge)
    BY <1>2, <1>5 DEF MergeAccepted
  <2>2. Kept(c.procs, L.procs) /\ L.merge = c.merge
    BY <1>1, <1>5, LoadKeeps
  <2>3. \A n \in DOMAIN up : up[n] \in Int
    BY <1>2, <1>5, UpstreamsSound DEF PortNumber
  <2> HIDE DEF L, c, up, wired, served
  <2>4. L.resources = Normalized(c.resources)
    BY <1>3, <2>1 DEF Finish, Wire
  <2>5. L.resources \subseteq DOMAIN Identity
    BY <1>1, <2>4 DEF Normalized
  <2>6. c.merge.port \in PortNumber
    BY <2>1 DEF buildMergeCmd
  <2>7. ASSUME NEW n \in DOMAIN L.procs, L.procs[n].mode = "teardown"
        PROVE  L.procs[n].http = Undeclared
    <3>1. CASE n = MergePortProcessName
      BY <2>2, <3>1 DEF Kept
    <3>2. CASE n # MergePortProcessName
      <4>1. n \in DOMAIN c.procs /\ L.procs[n].http = c.procs[n].http
            /\ L.procs[n].mode = c.procs[n].mode
        BY <2>2, <3>2 DEF Kept
      <4>2. n \in DOMAIN wired.procs
            /\ wired.procs[n] = IF n \in DOMAIN up THEN injectTCPReadyIfMissing(c.procs[n], up[n])
                                                  ELSE c.procs[n]
        BY <1>3, <2>1, <3>2, <4>1 DEF Wire
      <4>3. wired.procs[n].http = c.procs[n].http /\ wired.procs[n].mode = c.procs[n].mode
        BY <1>3, <2>3, <4>1, <4>2, ProbeInjected
      <4>4. ValidProcess(wired.procs[n])
        BY <1>2, <4>2
      <4> QED  BY <2>7, <4>1, <4>3, <4>4 DEF ValidProcess, validateTeardown
    <3> QED  BY <3>1, <3>2
  <2> QED  BY <2>2, <2>5, <2>6, <2>7 DEF Sound, L
<1> QED  BY <1>4, <1>5

\* A plan that was granted has all it wants to itself, and one that was
\* refused, closed or lost has nothing, whatever the files are, however many
\* supervisors run, whatever a reload finds and whatever programs outside bind.
THEOREM SessionsDoNotTrespass ==
  ASSUME NEW files, NEW confs, NEW sessions,
         \A f \in files :
           IsFile(f) /\ \A i \in DOMAIN f.resources : f.resources[i].trimmed \in DOMAIN Identity,
         confs \subseteq [Supervisor -> {Load(f) : f \in files}],
         sessions \subseteq [Supervisor -> SessionName]
  PROVE  PortsSpec(confs, sessions) => []NoTrespass
<1>1. ASSUME NEW c \in confs
      PROVE  DOMAIN c = Supervisor /\ \A p \in Supervisor : c[p].ok => Sound(c[p])
  <2>1. c \in [Supervisor -> {Load(f) : f \in files}]
    OBVIOUS
  <2>2. ASSUME NEW p \in Supervisor, c[p].ok PROVE Sound(c[p])
    <3>1. PICK f \in files : c[p] = Load(f)
      BY <2>1
    <3> QED  BY <2>2, <3>1, LoadIsSound
  <2> QED  BY <2>1, <2>2
<1>2. SessionInit(confs, sessions) => PortsInv
  BY <1>1, PortsStart
<1>3. PortsInv /\ [PortsNext \/ \E p \in Supervisor : AcquireStep(p)]_sessionVars => PortsInv'
  BY PortsStep
<1>4. PortsInv => NoTrespass
  BY NobodyTrespasses
<1> QED  BY <1>2, <1>3, <1>4, PTL DEF PortsSpec

=============================================================================
