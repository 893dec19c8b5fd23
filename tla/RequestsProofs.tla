--------------------------- MODULE RequestsProofs ---------------------------
(***************************************************************************)
(* What Requests promises, for all command lines, templates, gateways and  *)
(* ports.                                                                  *)
(***************************************************************************)
EXTENDS Requests, SequenceTheorems, WellFoundedInduction, TLAPS

-----------------------------------------------------------------------------
(* Sets of indices, and what is computed along a sequence. *)

\* Of natural numbers there is a first.
LEMMA FirstExists ==
  ASSUME NEW T, T \subseteq Nat, T # {}
  PROVE  FirstOf(T) \in T /\ \A j \in T : FirstOf(T) <= j
<1>1. PICK i \in T : \A j \in T : <<j, i>> \notin OpToRel(<, Nat)
  BY NatLessThanWellFounded, WFMin
<1>2. ASSUME NEW j \in T
      PROVE  i <= j
  <2>1. i \in Nat /\ j \in Nat
    OBVIOUS
  <2>2. ~(j < i)
    BY <1>1, <2>1 DEF OpToRel
  <2>. QED
    BY <2>1, <2>2
<1>. QED
  BY <1>2 DEF FirstOf

\* Of the first n natural numbers, a last.
LEMMA LastExists ==
  ASSUME NEW n \in Nat, NEW T, T \subseteq 1..n, T # {}
  PROVE  \E i \in T : \A j \in T : j <= i
<1> DEFINE U == {n - i : i \in T}
<1>1. U \subseteq Nat /\ U # {}
  <2>1. \A i \in T : i \in 1..n
    OBVIOUS
  <2>2. \A i \in 1..n : n - i \in Nat
    OBVIOUS
  <2>3. \A u \in U : u \in Nat
    BY <2>1, <2>2
  <2>. QED
    BY <2>3
<1>2. PICK i \in T : n - i = FirstOf(U)
  BY <1>1, FirstExists
<1>3. \A j \in T : n - i <= n - j
  <2> HIDE DEF U
  <2>1. \A j \in T : n - j \in U
    BY DEF U
  <2>. QED
    BY <1>1, <1>2, <2>1, FirstExists
<1>. QED
  BY <1>3

\* What each number of 0..n is given by the one before it.
Steps(A, base, step, n, h) ==
  /\ h \in [0..n -> A]
  /\ h[0] = base
  /\ \A i \in 1..n : h[i] = step[<<i, h[i - 1]>>]

\* A function is computed along the first n numbers, step by step.
LEMMA StepsExist ==
  ASSUME NEW A, NEW base \in A, NEW n \in Nat, NEW step \in [(1..n) \X A -> A]
  PROVE  \E h : Steps(A, base, step, n, h)
<1> DEFINE T == {m \in 0..n : ~\E h : Steps(A, base, step, m, h)}
<1>1. ASSUME T # {}
      PROVE  FALSE
  <2>1. T \subseteq Nat
    OBVIOUS
  <2>2. PICK m \in T : \A j \in T : m <= j
    <3> HIDE DEF T
    <3>. QED
      BY <1>1, <2>1, FirstExists
  <2>3. m # 0
    <3> DEFINE h == [i \in 0..0 |-> base]
    <3>1. Steps(A, base, step, 0, h)
      BY DEF Steps
    <3>. QED
      BY <3>1, <2>2
  <2>4. m \in 1..n /\ m - 1 \in 0..n /\ m - 1 \notin T
    BY <2>2, <2>3
  <2>5. PICK h : Steps(A, base, step, m - 1, h)
    BY <2>4
  <2> DEFINE g == [i \in 0..m |-> IF i = m THEN step[<<m, h[m - 1]>>] ELSE h[i]]
  <2>6. h[m - 1] \in A /\ step[<<m, h[m - 1]>>] \in A
    BY <2>4, <2>5 DEF Steps
  <2>7. g \in [0..m -> A]
    BY <2>4, <2>5, <2>6 DEF Steps
  <2>8. ASSUME NEW i \in 1..m
        PROVE  g[i] = step[<<i, g[i - 1]>>]
    <3>1. i - 1 \in 0..m /\ i - 1 # m /\ i \in 0..m /\ m \in Nat
      BY <2>4
    <3>2. g[i - 1] = h[i - 1]
      BY <3>1
    <3>3. CASE i = m
      BY <3>1, <3>2, <3>3
    <3>4. CASE i # m
      <4>1. i \in 1..(m - 1)
        BY <3>1, <3>4
      <4>2. h[i] = step[<<i, h[i - 1]>>]
        BY <2>5, <4>1 DEF Steps
      <4>. QED
        BY <3>1, <3>2, <3>4, <4>2
    <3>. QED
      BY <3>3, <3>4
  <2>9. g[0] = base
    BY <2>4, <2>5 DEF Steps
  <2>10. Steps(A, base, step, m, g)
    <3> HIDE DEF g
    <3>. QED
      BY <2>7, <2>8, <2>9 DEF Steps
  <2>. QED
    BY <2>2, <2>10
<1>. QED
  BY <1>1

\* What holds of the first and is handed on holds of all.
LEMMA StepsStay ==
  ASSUME NEW A, NEW m \in Nat, NEW n \in Nat, NEW f, f[m] \in A,
         \A i \in (m + 1)..n : f[i - 1] \in A => f[i] \in A
  PROVE  \A i \in m..n : f[i] \in A
<1> DEFINE T == {i \in m..n : f[i] \notin A}
<1>1. ASSUME T # {}
      PROVE  FALSE
  <2>1. T \subseteq Nat
    OBVIOUS
  <2>2. PICK i \in T : \A j \in T : i <= j
    <3> HIDE DEF T
    <3>. QED
      BY <1>1, <2>1, FirstExists
  <2>3. i # m /\ i \in (m + 1)..n /\ i - 1 \in m..n /\ ~(i <= i - 1)
    BY <2>2
  <2>4. f[i - 1] \in A
    BY <2>2, <2>3
  <2>. QED
    BY <2>2, <2>3, <2>4
<1>. QED
  BY <1>1

\* Sequences that are put one after the other.
LEMMA FlattenType ==
  ASSUME NEW S, NEW s \in Seq(Seq(S))
  PROVE  FlattenSeq(s) \in Seq(S)
<1> DEFINE n    == Len(s)
           F(f) == [i \in 1..n |-> IF i = 1 THEN s[i] ELSE f[i - 1] \o s[i]]
           f0   == CHOOSE f : f = F(f)
<1>1. n \in Nat /\ DOMAIN s = 1..n /\ \A i \in 1..n : s[i] \in Seq(S)
  BY LenProperties, ElementOfSeq
<1> HIDE DEF n
<1>2. CASE n = 0
  <2>1. s = <<>>
    BY <1>2, EmptySeq DEF n
  <2>2. FlattenSeq(s) = s
    BY <1>2 DEF FlattenSeq, n
  <2>. QED
    BY <2>1, <2>2, EmptySeq
<1>3. CASE n # 0
  <2> DEFINE step == [x \in (1..n) \X Seq(S) |-> x[2] \o s[x[1]]]
  <2>1. step \in [(1..n) \X Seq(S) -> Seq(S)]
    <3>1. \A i \in 1..n, a \in Seq(S) : a \o s[i] \in Seq(S)
      BY <1>1, ConcatProperties
    <3>. QED
      BY <3>1
  <2>2. PICK h : Steps(Seq(S), <<>>, step, n, h)
    <3> HIDE DEF step
    <3>. QED
      BY <1>1, <2>1, StepsExist, EmptySeq
  <2>3. \A i \in 1..n : h[i] = h[i - 1] \o s[i]
    <3>1. ASSUME NEW i \in 1..n
          PROVE  h[i] = h[i - 1] \o s[i]
      <4>1. i - 1 \in 0..n
        BY <1>1
      <4>2. <<i, h[i - 1]>> \in (1..n) \X Seq(S)
        BY <2>2, <4>1 DEF Steps
      <4>3. step[<<i, h[i - 1]>>] = h[i - 1] \o s[i]
        BY <4>2
      <4> HIDE DEF step
      <4>. QED
        BY <2>2, <4>3 DEF Steps
    <3>. QED
      BY <3>1
  <2> HIDE DEF step
  <2>4. h[1] = s[1]
    <3>1. 1 \in 1..n /\ h[0] = <<>>
      BY <1>1, <1>3, <2>2 DEF Steps
    <3>2. h[1] = <<>> \o s[1]
      <4>1. h[1] = h[1 - 1] \o s[1]
        BY <2>3, <3>1
      <4>2. 1 - 1 = 0
        OBVIOUS
      <4>. QED
        BY <3>1, <4>1, <4>2
    <3>3. s[1] \in Seq(S)
      BY <1>1, <3>1
    <3>. QED
      BY <3>2, <3>3, ConcatEmptySeq
  <2> DEFINE g == [i \in 1..n |-> h[i]]
  <2>5. g = F(g)
    <3>1. \A i \in 1..n : g[i] = IF i = 1 THEN s[i] ELSE g[i - 1] \o s[i]
      <4>1. \A i \in 1..n : i # 1 => i - 1 \in 1..n
        BY <1>1
      <4>. QED
        BY <2>3, <2>4, <4>1
    <3>. QED
      BY <3>1
  <2>6. f0 = F(f0)
    <3> HIDE DEF F, g
    <3>. QED
      BY <2>5
  <2>7. FlattenSeq(s) = f0[n]
    BY <1>3 DEF FlattenSeq, n
  <2>8. 1 \in 1..n /\ f0[1] = s[1] /\ \A i \in 2..n : f0[i] = f0[i - 1] \o s[i]
    <3>1. 1 \in 1..n /\ \A i \in 2..n : i \in 1..n /\ i # 1
      BY <1>1, <1>3
    <3>2. \A i \in 1..n : f0[i] = IF i = 1 THEN s[i] ELSE f0[i - 1] \o s[i]
      <4> HIDE DEF f0
      <4>. QED
        BY <2>6
    <3> HIDE DEF f0
    <3>. QED
      BY <3>1, <3>2
  <2>9. \A i \in 2..n : f0[i - 1] \in Seq(S) => f0[i] \in Seq(S)
    <3> HIDE DEF f0
    <3>. QED
      <4>1. \A i \in 2..n : s[i] \in Seq(S)
        <5>1. \A i \in 2..n : i \in 1..n
          BY <1>1
        <5>. QED
          BY <1>1, <5>1
      <4>2. \A t, u \in Seq(S) : t \o u \in Seq(S)
        BY ConcatProperties
      <4>. QED
        BY <2>8, <4>1, <4>2, Zenon
  <2>10. \A i \in 1..n : f0[i] \in Seq(S)
    <3> HIDE DEF f0
    <3>1. f0[1] \in Seq(S) /\ \A i \in (1 + 1)..n : f0[i - 1] \in Seq(S) => f0[i] \in Seq(S)
      BY <1>1, <2>8, <2>9
    <3>. QED
      BY <1>1, <3>1, StepsStay
  <2> HIDE DEF f0
  <2>11. n \in 1..n
    BY <1>1, <1>3
  <2>. QED
    BY <2>7, <2>10, <2>11
<1>. QED
  BY <1>2, <1>3

-----------------------------------------------------------------------------
(* Ports. *)

\* What the program falls back on may be given, too.
LEMMA DefaultsAreGiven ==
  /\ {AnyAddress, DefaultImage, DesktopImage, DefaultMount, DefaultKey, DefaultPort, Local,
      "lab", "contaigen-lab", "workspace", "bridge", "vpn", "segment", None} \subseteq Given
  /\ DefaultImage # None /\ DesktopImage # None /\ DefaultMount # None /\ DefaultKey # None
  /\ DefaultPort # None /\ Local # None /\ "bridge" # None /\ "vpn" # None
  /\ \A x \in Text : x # None
  /\ \A x \in Given : x # Generated
BY TextType DEF Given, Networks

\* The first of two that is given is given, if one is.
LEMMA OrType ==
  ASSUME NEW A, NEW a, NEW b \in A, a \in A \/ a = None
  PROVE  Or(a, b) \in A
BY DEF Or

\* A port is a record of its four parts.
LEMMA PortType ==
  ASSUME NEW ip \in Given, NEW host \in Given, NEW cont \in Given,
         NEW proto \in {None, "tcp", "udp"}
  PROVE  /\ Port(ip, host, cont, proto) \in Ports
         /\ Port(ip, host, cont, proto).ip = ip /\ Port(ip, host, cont, proto).host = host
         /\ Port(ip, host, cont, proto).cont = cont
         /\ Port(ip, host, cont, proto).proto = proto
BY DEF Port, Ports

\* What stands for a --vnc option is a port.
LEMMA NoVNCPortType ==
  ASSUME NEW v \in [ip : Given, host : Given, cont : Given]
  PROVE  NoVNCPort(v) \in Ports
<1>1. v.ip \in Given /\ v.host \in Given /\ v.cont \in Given
  OBVIOUS
<1>2. Local \in Given
  BY DefaultsAreGiven
<1>3. Or(v.ip, Local) \in Given
  BY <1>1, <1>2, OrType
<1>. QED
  BY <1>1, <1>2, <1>3, PortType DEF NoVNCPort

\* Among the ports that --vnc adds one, or none.
Extended(r, i, ports) ==
  LET p == NoVNCPort(r.vnc[i])
  IN IF HasPublishedPort(ports, p.ip, p.host, p.cont) THEN ports ELSE Append(ports, p)

\* What vpn create publishes are ports.
LEMMA GatewayPortsType ==
  ASSUME NEW r \in GatewayRequests
  PROVE  GatewayPorts(r) \in Seq(Ports)
<1> DEFINE n    == Len(r.vnc)
           F(f) == [i \in 0..n |-> IF i = 0 THEN r.ports ELSE Extended(r, i, f[i - 1])]
           f0   == CHOOSE f : f = F(f)
           step == [x \in (1..n) \X Seq(Ports) |-> Extended(r, x[1], x[2])]
<1>0. r.ports \in Seq(Ports) /\ r.vnc \in Seq([ip : Given, host : Given, cont : Given])
  BY GatewayType
<1>1. n \in Nat /\ \A i \in 1..n : r.vnc[i] \in [ip : Given, host : Given, cont : Given]
  BY <1>0, LenProperties, ElementOfSeq
<1>2. GatewayPorts(r) = f0[n]
  BY DEF GatewayPorts, Extended
<1> HIDE DEF n
<1>3. ASSUME NEW i \in 1..n, NEW a \in Seq(Ports)
      PROVE  Extended(r, i, a) \in Seq(Ports)
  <2>1. NoVNCPort(r.vnc[i]) \in Ports
    BY <1>1, NoVNCPortType
  <2>2. Append(a, NoVNCPort(r.vnc[i])) \in Seq(Ports)
    BY <2>1, AppendProperties
  <2>. QED
    BY <2>2 DEF Extended
<1>4. step \in [(1..n) \X Seq(Ports) -> Seq(Ports)]
  BY <1>3
<1>5. PICK h : Steps(Seq(Ports), r.ports, step, n, h)
  <2> HIDE DEF step
  <2>. QED
    BY <1>0, <1>1, <1>4, StepsExist
<1>6. ASSUME NEW i \in 1..n
      PROVE  h[i] = Extended(r, i, h[i - 1])
  <2>1. i - 1 \in 0..n
    BY <1>1
  <2>2. <<i, h[i - 1]>> \in (1..n) \X Seq(Ports)
    BY <1>5, <2>1 DEF Steps
  <2>3. step[<<i, h[i - 1]>>] = Extended(r, i, h[i - 1])
    BY <2>2
  <2> HIDE DEF step
  <2>. QED
    BY <1>5, <2>3 DEF Steps
<1> HIDE DEF step
<1>7. h = F(h)
  <2>1. h = [i \in 0..n |-> h[i]] /\ h[0] = r.ports
    BY <1>5 DEF Steps
  <2>2. \A i \in 0..n : h[i] = IF i = 0 THEN r.ports ELSE Extended(r, i, h[i - 1])
    <3>1. \A i \in 0..n : i # 0 => i \in 1..n
      BY <1>1
    <3>. QED
      BY <1>6, <2>1, <3>1
  <2>. QED
    BY <2>1, <2>2
<1>8. f0 = F(f0)
  <2> HIDE DEF F
  <2>. QED
    BY <1>7
<1> HIDE DEF f0
<1>9. f0[0] = r.ports /\ \A i \in 1..n : f0[i] = Extended(r, i, f0[i - 1])
  <2>1. 0 \in 0..n /\ \A i \in 1..n : i \in 0..n /\ i # 0
    BY <1>1
  <2>2. \A i \in 0..n : f0[i] = IF i = 0 THEN r.ports ELSE Extended(r, i, f0[i - 1])
    BY <1>8
  <2>. QED
    BY <2>1, <2>2
<1>10. \A i \in 0..n : f0[i] \in Seq(Ports)
  <2>1. \A i \in 1..n : f0[i - 1] \in Seq(Ports) => f0[i] \in Seq(Ports)
    BY <1>3, <1>9
  <2>2. f0[0] \in Seq(Ports) /\ 0 + 1 = 1
    BY <1>0, <1>9
  <2>3. \A i \in (0 + 1)..n : f0[i - 1] \in Seq(Ports) => f0[i] \in Seq(Ports)
    BY <2>1, <2>2
  <2>. QED
    BY <1>1, <2>2, <2>3, StepsStay
<1>11. n \in 0..n
  BY <1>1
<1>. QED
  BY <1>2, <1>10, <1>11

\* Docker's ports are those of the request, each with a protocol.
LEMMA DockerPortsAre ==
  ASSUME NEW ports \in Seq(Ports)
  PROVE  /\ DockerPorts(ports) \in Seq(Ports)
         /\ DOMAIN DockerPorts(ports) = DOMAIN ports
         /\ \A i \in DOMAIN ports :
              /\ DockerPorts(ports)[i].ip = ports[i].ip
              /\ DockerPorts(ports)[i].host = ports[i].host
              /\ DockerPorts(ports)[i].cont = ports[i].cont
              /\ DockerPorts(ports)[i].proto \in {"tcp", "udp"}
              /\ DockerPorts(ports)[i].proto = "tcp" <=> IsTCP(ports[i])
<1>1. DOMAIN ports = 1..Len(ports) /\ Len(ports) \in Nat
  BY LenProperties
<1>2. ASSUME NEW i \in DOMAIN ports
      PROVE  /\ ports[i] \in Ports
             /\ Or(ports[i].proto, "tcp") \in {"tcp", "udp"}
             /\ Or(ports[i].proto, "tcp") = "tcp" <=> IsTCP(ports[i])
  <2>1. ports[i] \in Ports
    BY <1>1, ElementOfSeq
  <2>. QED
    BY <2>1 DEF Ports, Or, IsTCP
<1>3. ASSUME NEW i \in DOMAIN ports
      PROVE  /\ DockerPorts(ports)[i] \in Ports
             /\ DockerPorts(ports)[i].ip = ports[i].ip
             /\ DockerPorts(ports)[i].host = ports[i].host
             /\ DockerPorts(ports)[i].cont = ports[i].cont
             /\ DockerPorts(ports)[i].proto = Or(ports[i].proto, "tcp")
  BY <1>2 DEF DockerPorts, Ports
<1>4. DockerPorts(ports) = [i \in 1..Len(ports) |-> DockerPorts(ports)[i]]
  BY <1>1 DEF DockerPorts
<1>5. DockerPorts(ports) \in [1..Len(ports) -> Ports]
  BY <1>1, <1>3, <1>4
<1>6. DockerPorts(ports) \in Seq(Ports)
  BY <1>1, <1>5, SeqDef
<1>. QED
  BY <1>1, <1>2, <1>3, <1>4, <1>6

-----------------------------------------------------------------------------
(* Variables. *)

\* Lists of variables.
IsEnv(env) == env \in Seq(Variables({Generated}))

\* What is known of such a list.
LEMMA EnvIs ==
  ASSUME NEW env, IsEnv(env)
  PROVE  /\ Len(env) \in Nat /\ DOMAIN env = 1..Len(env)
         /\ \A i \in DOMAIN env : env[i] \in Variables({Generated})
         /\ \A k : Entries(env, k) \subseteq DOMAIN env /\ Entries(env, k) \subseteq Nat
BY LenProperties, ElementOfSeq DEF IsEnv, Entries

\* The last entry of a key is the one that counts.
LEMMA InEffectIs ==
  ASSUME NEW env, IsEnv(env), NEW k, NEW i \in Entries(env, k),
         \A j \in Entries(env, k) : j <= i
  PROVE  InEffect(env, k) = env[i].value
<1>1. Entries(env, k) \subseteq Nat
  BY EnvIs
<1>2. \A l \in Entries(env, k) : (\A j \in Entries(env, k) : j <= l) => l = i
  BY <1>1
<1>3. (CHOOSE l \in Entries(env, k) : \A j \in Entries(env, k) : j <= l) = i
  <2> DEFINE c == CHOOSE l \in Entries(env, k) : \A j \in Entries(env, k) : j <= l
  <2>1. c \in Entries(env, k) /\ \A j \in Entries(env, k) : j <= c
    OBVIOUS
  <2> HIDE DEF c
  <2>. QED
    BY <1>2, <2>1
<1>. QED
  BY <1>3 DEF InEffect

\* There is a last entry, if there is any.
LEMMA LastEntry ==
  ASSUME NEW env, IsEnv(env), NEW k, Entries(env, k) # {}
  PROVE  \E i \in Entries(env, k) : \A j \in Entries(env, k) : j <= i
<1>1. Len(env) \in Nat /\ Entries(env, k) \subseteq 1..Len(env)
  BY EnvIs
<1>. QED
  BY <1>1, LastExists

\* What two lists say one after the other.
LEMMA Concatenated ==
  ASSUME NEW e, NEW g, IsEnv(e), IsEnv(g)
  PROVE  /\ IsEnv(e \o g)
         /\ Len(e \o g) = Len(e) + Len(g)
         /\ \A i \in DOMAIN g : Len(e) + i \in DOMAIN (e \o g) /\ (e \o g)[Len(e) + i] = g[i]
         /\ \A i \in DOMAIN (e \o g) : i > Len(e) => i - Len(e) \in DOMAIN g
<1>1. /\ e \o g \in Seq(Variables({Generated}))
      /\ Len(e \o g) = Len(e) + Len(g)
      /\ \A i \in 1..(Len(e) + Len(g)) :
           (e \o g)[i] = IF i <= Len(e) THEN e[i] ELSE g[i - Len(e)]
  BY ConcatProperties DEF IsEnv
<1>2. /\ Len(e) \in Nat /\ Len(g) \in Nat
      /\ DOMAIN g = 1..Len(g) /\ DOMAIN (e \o g) = 1..(Len(e) + Len(g))
  BY <1>1, EnvIs, LenProperties
<1>3. ASSUME NEW i \in DOMAIN g
      PROVE  Len(e) + i \in DOMAIN (e \o g) /\ (e \o g)[Len(e) + i] = g[i]
  <2>1. /\ Len(e) + i \in 1..(Len(e) + Len(g)) /\ ~(Len(e) + i <= Len(e))
        /\ (Len(e) + i) - Len(e) = i
    BY <1>2
  <2>. QED
    BY <1>1, <1>2, <2>1
<1>4. ASSUME NEW i \in DOMAIN (e \o g), i > Len(e)
      PROVE  i - Len(e) \in DOMAIN g
  BY <1>2, <1>4
<1>. QED
  BY <1>1, <1>3, <1>4 DEF IsEnv

\* Entries of the second list come later.
LEMMA LaterEntries ==
  ASSUME NEW e, NEW g, IsEnv(e), IsEnv(g), NEW k
  PROVE  /\ \A i \in Entries(g, k) : Len(e) + i \in Entries(e \o g, k)
         /\ \A i \in Entries(e \o g, k) : i > Len(e) => i - Len(e) \in Entries(g, k)
<1>1. /\ \A i \in DOMAIN g : Len(e) + i \in DOMAIN (e \o g) /\ (e \o g)[Len(e) + i] = g[i]
      /\ \A i \in DOMAIN (e \o g) : i > Len(e) => i - Len(e) \in DOMAIN g
  BY Concatenated
<1>2. ASSUME NEW i \in Entries(g, k)
      PROVE  Len(e) + i \in Entries(e \o g, k)
  BY <1>1 DEF Entries
<1>3. ASSUME NEW i \in Entries(e \o g, k), i > Len(e)
      PROVE  i - Len(e) \in Entries(g, k)
  <2>1. i \in DOMAIN (e \o g) /\ (e \o g)[i].key = k
    BY DEF Entries
  <2>2. i - Len(e) \in DOMAIN g /\ i \in Nat /\ Len(e) \in Nat
    BY <1>1, <1>3, <2>1, Concatenated, EnvIs
  <2>3. Len(e) + (i - Len(e)) = i
    BY <2>2
  <2>4. (e \o g)[i] = g[i - Len(e)]
    BY <1>1, <2>2, <2>3
  <2>. QED
    BY <2>1, <2>2, <2>4 DEF Entries
<1>. QED
  BY <1>2, <1>3

\* Of two lists one after the other the second counts, if it has the key.
LEMMA LaterWins ==
  ASSUME NEW e, NEW g, IsEnv(e), IsEnv(g), NEW k, Entries(g, k) # {}
  PROVE  InEffect(e \o g, k) = InEffect(g, k)
<1>1. PICK i \in Entries(g, k) : \A j \in Entries(g, k) : j <= i
  BY LastEntry
<1>2. InEffect(g, k) = g[i].value
  BY <1>1, InEffectIs
<1>3. IsEnv(e \o g) /\ Len(e) + i \in Entries(e \o g, k)
  BY Concatenated, LaterEntries
<1>4. ASSUME NEW j \in Entries(e \o g, k)
      PROVE  j <= Len(e) + i
  <2>1. j \in Nat /\ Len(e) \in Nat /\ i \in Nat
    BY <1>3, EnvIs
  <2>2. CASE j > Len(e)
    <3>1. j - Len(e) \in Entries(g, k)
      BY <2>2, LaterEntries
    <3>2. j - Len(e) <= i
      BY <1>1, <3>1
    <3>. QED
      BY <2>1, <3>2
  <2>. QED
    BY <2>1, <2>2
<1>5. (e \o g)[Len(e) + i] = g[i]
  <2>1. i \in DOMAIN g
    BY DEF Entries
  <2>2. \A l \in DOMAIN g : (e \o g)[Len(e) + l] = g[l]
    BY Concatenated
  <2>. QED
    BY <2>1, <2>2
<1>. QED
  BY <1>2, <1>3, <1>4, <1>5, InEffectIs

\* An entry is what a request may say of a variable.
LEMMA Variable ==
  ASSUME NEW made, NEW key \in Given, NEW value \in Given \cup made
  PROVE  /\ [key |-> key, value |-> value] \in Variables(made)
         /\ [key |-> key, value |-> value].key = key
         /\ [key |-> key, value |-> value].value = value
BY DEF Variables

\* upsertEnv sets the first entry of the key and no entry of another.
LEMMA UpsertSets ==
  ASSUME NEW env, IsEnv(env), NEW key \in Given, NEW value \in Given \cup {Generated}
  PROVE  LET new == UpsertEnv(env, key, value)
         IN /\ IsEnv(new)
            /\ DOMAIN env \subseteq DOMAIN new
            /\ Entries(env, key) \subseteq Entries(new, key) /\ Entries(new, key) # {}
            /\ EnvValue(new, key) = value
            /\ \A k : k # key => Entries(new, k) = Entries(env, k)
            /\ \A i \in DOMAIN env : env[i].key # key => new[i] = env[i]
<1> DEFINE new == UpsertEnv(env, key, value)
           es  == Entries(env, key)
           f   == FirstOf(es)
           v   == [key |-> key, value |-> value]
<1>1. /\ Len(env) \in Nat /\ DOMAIN env = 1..Len(env) /\ es \subseteq Nat
      /\ es \subseteq DOMAIN env /\ \A i \in DOMAIN env : env[i] \in Variables({Generated})
  BY EnvIs
<1>2. v \in Variables({Generated}) /\ v.key = key /\ v.value = value
  BY Variable
<1>3. CASE es = {}
  <2>1. new = Append(env, v)
    BY <1>3 DEF UpsertEnv
  <2>2. /\ new \in Seq(Variables({Generated})) /\ Len(new) = Len(env) + 1
        /\ \A i \in 1..Len(env) : new[i] = env[i]
        /\ new[Len(env) + 1] = v
    BY <1>2, <2>1, AppendProperties DEF IsEnv
  <2> HIDE DEF new, v
  <2>3. DOMAIN new = 1..(Len(env) + 1)
    BY <2>2, LenProperties
  <2>4. Entries(new, key) = {Len(env) + 1}
    <3>1. \A i \in 1..Len(env) : env[i].key # key
      BY <1>1, <1>3 DEF Entries
    <3>. QED
      BY <1>1, <1>2, <2>2, <2>3, <3>1 DEF Entries
  <2>5. \A k : k # key => Entries(new, k) = Entries(env, k)
    BY <1>1, <1>2, <2>2, <2>3 DEF Entries
  <2>6. EnvValue(new, key) = value
    <3>1. FirstOf({Len(env) + 1}) = Len(env) + 1
      BY <1>1 DEF FirstOf
    <3>2. EnvValue(new, key) = new[Len(env) + 1].value
      BY <2>4, <3>1 DEF EnvValue
    <3>. QED
      BY <1>2, <2>2, <3>2
  <2>. QED
    BY <1>1, <1>3, <2>2, <2>3, <2>4, <2>5, <2>6 DEF IsEnv, new
<1>4. CASE es # {}
  <2>1. f \in es /\ \A j \in es : f <= j
    BY <1>1, <1>4, FirstExists
  <2> DEFINE w == [env[f] EXCEPT !.value = value]
  <2>2. new = [env EXCEPT ![f] = w]
    BY <1>4 DEF UpsertEnv
  <2>3. w \in Variables({Generated}) /\ w.key = key /\ w.value = value
    <3>1. env[f] \in Variables({Generated}) /\ env[f].key = key
      BY <1>1, <2>1 DEF Entries
    <3>. QED
      BY <3>1 DEF Variables
  <2> HIDE DEF new, v, w, f
  <2>4. f \in 1..Len(env)
    BY <1>1, <2>1
  <2>5. /\ new \in Seq(Variables({Generated})) /\ Len(new) = Len(env)
        /\ \A i \in 1..Len(env) : new[i] = IF i = f THEN w ELSE env[i]
    BY <2>2, <2>3, <2>4, ExceptSeq DEF IsEnv
  <2>6. DOMAIN new = 1..Len(env)
    BY <2>5, LenProperties
  <2>7. \A i \in DOMAIN env : new[i].key = env[i].key
    BY <1>1, <2>1, <2>3, <2>5 DEF Entries
  <2>8. \A k : Entries(new, k) = Entries(env, k)
    BY <1>1, <2>6, <2>7 DEF Entries
  <2>9. EnvValue(new, key) = value
    <3>1. EnvValue(new, key) = new[f].value
      BY <1>4, <2>8 DEF EnvValue, f
    <3>. QED
      BY <2>3, <2>4, <2>5, <3>1
  <2>10. \A i \in DOMAIN env : env[i].key # key => new[i] = env[i]
    BY <1>1, <2>1, <2>5 DEF Entries
  <2>. QED
    BY <1>1, <1>4, <2>5, <2>6, <2>8, <2>9, <2>10 DEF IsEnv, new
<1>. QED
  BY <1>3, <1>4

\* What counts of another key is what counted before.
LEMMA UpsertKeeps ==
  ASSUME NEW env, IsEnv(env), NEW key \in Given, NEW value \in Given \cup {Generated},
         NEW k, k # key, Entries(env, k) # {}
  PROVE  InEffect(UpsertEnv(env, key, value), k) = InEffect(env, k)
<1> DEFINE new == UpsertEnv(env, key, value)
<1>1. /\ IsEnv(new)
      /\ Entries(new, k) = Entries(env, k)
      /\ \A i \in DOMAIN env : env[i].key # key => new[i] = env[i]
  BY UpsertSets
<1>2. PICK i \in Entries(env, k) : \A j \in Entries(env, k) : j <= i
  BY LastEntry
<1>3. new[i] = env[i]
  BY <1>1, <1>2 DEF Entries
<1>4. InEffect(env, k) = env[i].value
  BY <1>2, InEffectIs
<1>5. InEffect(new, k) = new[i].value
  <2> HIDE DEF new
  <2>. QED
    BY <1>1, <1>2, InEffectIs
<1>. QED
  BY <1>3, <1>4, <1>5

-----------------------------------------------------------------------------
(* Requests as records. *)

\* The fields of a request for an environment, each of its kind.
IsEnvSpec(r, starts, made) ==
  /\ r.image \in Given /\ r.hostname \in Given /\ r.network \in Given
  /\ r.networkName \in Given /\ r.vpn \in Given /\ r.wsName \in Given
  /\ r.wsMount \in Given /\ r.noWs \in BOOLEAN /\ r.start \in starts
  /\ r.deskOn \in BOOLEAN /\ r.deskIP \in Given /\ r.deskPort \in Given
  /\ r.deskCPort \in Given /\ r.password \in Given \cup made
  /\ r.passwordEnv \in Given /\ r.env \in Seq(Variables(made))
  /\ r.ports \in Seq(Ports) /\ r.volumes \in Seq(Volumes)

\* The fields of an environment's request, one by one.
LEMMA FieldsAre ==
  Fields = {"image", "hostname", "network", "networkName", "vpn", "wsName", "wsMount", "noWs",
            "start", "deskOn", "deskIP", "deskPort", "deskCPort", "password", "passwordEnv",
            "env", "ports", "volumes"}
BY DEF Fields, Straight, Desktop, Lists

\* A request for an environment is a record of its fields.
LEMMA EnvSpecIs ==
  ASSUME NEW starts, NEW made, NEW r
  PROVE  r \in EnvSpec(starts, made)
           <=> r = [x \in Fields |-> r[x]] /\ IsEnvSpec(r, starts, made)
<1>1. ASSUME r \in EnvSpec(starts, made)
      PROVE  r = [x \in Fields |-> r[x]] /\ IsEnvSpec(r, starts, made)
  BY <1>1, FieldsAre DEF EnvSpec, IsEnvSpec
<1>2. ASSUME r = [x \in Fields |-> r[x]], IsEnvSpec(r, starts, made)
      PROVE  r \in EnvSpec(starts, made)
  BY <1>2, FieldsAre DEF EnvSpec, IsEnvSpec
<1>. QED
  BY <1>1, <1>2

\* The fields of a request for a service, each of its kind.
IsServiceSpec(r, starts) ==
  /\ r.name \in Given /\ r.alias \in Given /\ r.image \in Given /\ r.start \in starts
  /\ r.command \in Seq(Text) /\ r.env \in Seq(Variables({}))
  /\ r.ports \in Seq(Ports) /\ r.volumes \in Seq(Volumes)

\* The fields of a service's request, one by one.
LEMMA ServiceFieldsAre ==
  ServiceFields = {"name", "alias", "image", "start", "command", "env", "ports", "volumes"}
BY DEF ServiceFields, Lists

\* A request for a service is a record of its fields.
LEMMA ServiceSpecIs ==
  ASSUME NEW starts, NEW r
  PROVE  r \in ServiceSpec(starts)
           <=> r = [x \in ServiceFields |-> r[x]] /\ IsServiceSpec(r, starts)
<1>1. ASSUME r \in ServiceSpec(starts)
      PROVE  r = [x \in ServiceFields |-> r[x]] /\ IsServiceSpec(r, starts)
  BY <1>1, ServiceFieldsAre DEF ServiceSpec, IsServiceSpec
<1>2. ASSUME r = [x \in ServiceFields |-> r[x]], IsServiceSpec(r, starts)
      PROVE  r \in ServiceSpec(starts)
  BY <1>2, ServiceFieldsAre DEF ServiceSpec, IsServiceSpec
<1>. QED
  BY <1>1, <1>2

\* What may be said of starting in a template.
Starts == BOOLEAN \cup {None}

\* The defaults are requests.
LEMMA DefaultsType ==
  DefaultRequest \in EnvSpec(BOOLEAN, {}) /\ DefaultService \in ServiceSpec(BOOLEAN)
<1>1. DefaultRequest \in EnvSpec(BOOLEAN, {})
  <2>1. DefaultRequest = [x \in Fields |-> DefaultRequest[x]]
    BY FieldsAre DEF DefaultRequest
  <2>2. IsEnvSpec(DefaultRequest, BOOLEAN, {})
    BY DefaultsAreGiven, EmptySeq DEF DefaultRequest, IsEnvSpec
  <2>. QED
    BY <2>1, <2>2, EnvSpecIs
<1>2. DefaultService \in ServiceSpec(BOOLEAN)
  <2>1. DefaultService = [x \in ServiceFields |-> DefaultService[x]]
    BY ServiceFieldsAre DEF DefaultService
  <2>2. IsServiceSpec(DefaultService, BOOLEAN)
    BY DefaultsAreGiven, EmptySeq DEF DefaultService, IsServiceSpec
  <2>. QED
    BY <2>1, <2>2, ServiceSpecIs
<1>. QED
  BY <1>1, <1>2

\* A profile that is read says what a profile may say.
LEMMA ParsedType ==
  ASSUME NEW spec \in EnvSpec(Starts, {})
  PROVE  Parsed(spec) \in EnvSpec(Starts, {})
<1>1. spec = [x \in Fields |-> spec[x]] /\ IsEnvSpec(spec, Starts, {})
  BY EnvSpecIs
<1>2. /\ Or(spec.network, "bridge") \in Given /\ Or(spec.wsMount, DefaultMount) \in Given
      /\ Or(spec.deskIP, Local) \in Given /\ Or(spec.deskPort, DefaultPort) \in Given
      /\ Or(spec.deskCPort, DefaultPort) \in Given
      /\ Or(spec.passwordEnv, DefaultKey) \in Given
  BY <1>1, DefaultsAreGiven, OrType DEF IsEnvSpec
<1>3. Parsed(spec) = [x \in Fields |-> Parsed(spec)[x]]
  BY <1>1 DEF Parsed
<1>4. IsEnvSpec(Parsed(spec), Starts, {})
  BY <1>1, <1>2, FieldsAre DEF IsEnvSpec, Parsed
<1>. QED
  BY <1>3, <1>4, EnvSpecIs

\* A profile laid over a request is a request.
LEMMA AppliedType ==
  ASSUME NEW p \in EnvSpec(Starts, {}), NEW r \in EnvSpec(BOOLEAN, {})
  PROVE  Applied(p, r) \in EnvSpec(BOOLEAN, {})
<1> DEFINE a == Applied(p, r)
<1>1. IsEnvSpec(p, Starts, {}) /\ IsEnvSpec(r, BOOLEAN, {})
  BY EnvSpecIs
<1>2. a = [x \in Fields |-> a[x]]
  <2> DEFINE E(x) ==
               CASE x \in Straight -> Or(p[x], r[x])
                 [] x \in Desktop  -> IF p.deskOn THEN p[x] ELSE r[x]
                 [] x \in Lists    -> r[x] \o p[x]
                 [] x = "vpn"      -> IF p.network = "vpn" THEN Or(p.networkName, r.vpn) ELSE r.vpn
                 [] x = "networkName" -> IF p.network = "vpn" THEN r[x] ELSE Or(p[x], r[x])
                 [] x = "noWs"     -> p.noWs \/ r.noWs
  <2>1. a = [x \in Fields |-> E(x)]
    BY Zenon DEF Applied
  <2> HIDE DEF a, E
  <2>. QED
    BY <2>1
<1>a. \A x \in Straight : a[x] = Or(p[x], r[x])
  BY DEF Applied, Fields, Straight, Desktop, Lists
<1>b. \A x \in Desktop : a[x] \in {p[x], r[x]}
  BY DEF Applied, Fields, Straight, Desktop, Lists
<1>3. /\ a.image = Or(p.image, r.image) /\ a.hostname = Or(p.hostname, r.hostname)
      /\ a.network = Or(p.network, r.network) /\ a.wsName = Or(p.wsName, r.wsName)
      /\ a.wsMount = Or(p.wsMount, r.wsMount) /\ a.start = Or(p.start, r.start)
  BY <1>a DEF Straight
<1>4. /\ a.deskOn \in {p.deskOn, r.deskOn} /\ a.deskIP \in {p.deskIP, r.deskIP}
      /\ a.deskPort \in {p.deskPort, r.deskPort} /\ a.deskCPort \in {p.deskCPort, r.deskCPort}
      /\ a.password \in {p.password, r.password}
      /\ a.passwordEnv \in {p.passwordEnv, r.passwordEnv}
  BY <1>b DEF Desktop
<1>5. /\ a.env = r.env \o p.env /\ a.ports = r.ports \o p.ports
      /\ a.volumes = r.volumes \o p.volumes
  BY FieldsAre DEF Applied, Straight, Desktop, Lists
<1>6. /\ a.vpn \in {Or(p.networkName, r.vpn), r.vpn}
      /\ a.networkName \in {Or(p.networkName, r.networkName), r.networkName}
      /\ a.noWs = (p.noWs \/ r.noWs)
  BY FieldsAre DEF Applied, Straight, Desktop, Lists
<1>7. /\ a.image \in Given /\ a.hostname \in Given /\ a.network \in Given
      /\ a.wsName \in Given /\ a.wsMount \in Given
  BY <1>1, <1>3, OrType DEF IsEnvSpec
<1>8. a.start \in BOOLEAN
  BY <1>1, <1>3 DEF IsEnvSpec, Starts, Or
<1>9. a.vpn \in Given /\ a.networkName \in Given /\ a.noWs \in BOOLEAN
  BY <1>1, <1>6, OrType DEF IsEnvSpec
<1>10. /\ a.env \in Seq(Variables({})) /\ a.ports \in Seq(Ports) /\ a.volumes \in Seq(Volumes)
  <2>1. r.env \o p.env \in Seq(Variables({}))
    BY <1>1, ConcatProperties DEF IsEnvSpec
  <2>2. r.ports \o p.ports \in Seq(Ports)
    BY <1>1, ConcatProperties DEF IsEnvSpec
  <2>3. r.volumes \o p.volumes \in Seq(Volumes)
    BY <1>1, ConcatProperties DEF IsEnvSpec
  <2> HIDE DEF a
  <2>. QED
    BY <1>5, <2>1, <2>2, <2>3
<1>11. IsEnvSpec(a, BOOLEAN, {})
  <2> HIDE DEF a
  <2>. QED
    BY <1>1, <1>4, <1>7, <1>8, <1>9, <1>10 DEF IsEnvSpec
<1>. QED
  BY <1>2, <1>11, EnvSpecIs

\* So is a service template, with the name it falls back on.
LEMMA ServiceTemplateType ==
  ASSUME NEW d, IsTemplate(d), d.ok, d.spec \in ServiceSpec(Starts),
         NEW r \in ServiceSpec(BOOLEAN)
  PROVE  AppliedService(ParsedService(d), r) \in ServiceSpec(BOOLEAN)
<1> DEFINE p == ParsedService(d)
           a == AppliedService(p, r)
<1>1. /\ d.spec = [x \in ServiceFields |-> d.spec[x]] /\ IsServiceSpec(d.spec, Starts)
      /\ IsServiceSpec(r, BOOLEAN)
  BY ServiceSpecIs
<1>2. d.name \in Given
  BY DEF IsTemplate, Given
<1>3. Or(d.spec.name, d.name) \in Given /\ Or(d.spec.alias, d.name) \in Given
  BY <1>1, <1>2, OrType DEF IsServiceSpec
<1>4. IsServiceSpec(p, Starts)
  BY <1>1, <1>3, ServiceFieldsAre DEF IsServiceSpec, ParsedService
<1>5. a = [x \in ServiceFields |-> a[x]]
  BY DEF AppliedService
<1> HIDE DEF p
<1>6. /\ a.name = Or(p.name, r.name) /\ a.alias = Or(p.alias, r.alias)
      /\ a.image = Or(p.image, r.image) /\ a.start = Or(p.start, r.start)
      /\ a.command = r.command \o p.command /\ a.env = r.env \o p.env
      /\ a.ports = r.ports \o p.ports /\ a.volumes = r.volumes \o p.volumes
  BY ServiceFieldsAre DEF AppliedService, Lists
<1> HIDE DEF a
<1>7. a.name \in Given /\ a.alias \in Given /\ a.image \in Given
  BY <1>1, <1>4, <1>6, OrType DEF IsServiceSpec
<1>8. a.start \in BOOLEAN
  BY <1>1, <1>4, <1>6 DEF IsServiceSpec, Starts, Or
<1>9. a.command \in Seq(Text)
  BY <1>1, <1>4, <1>6, ConcatProperties DEF IsServiceSpec
<1>10. a.env \in Seq(Variables({}))
  BY <1>1, <1>4, <1>6, ConcatProperties DEF IsServiceSpec
<1>11. a.ports \in Seq(Ports)
  BY <1>1, <1>4, <1>6, ConcatProperties DEF IsServiceSpec
<1>12. a.volumes \in Seq(Volumes)
  BY <1>1, <1>4, <1>6, ConcatProperties DEF IsServiceSpec
<1>13. IsServiceSpec(a, BOOLEAN)
  BY <1>7, <1>8, <1>9, <1>10, <1>11, <1>12 DEF IsServiceSpec
<1>. QED
  BY <1>5, <1>13, ServiceSpecIs DEF a, p

-----------------------------------------------------------------------------
(* The flags. *)

\* Variables that nobody has made are variables.
LEMMA GivenIsEnv ==
  ASSUME NEW env \in Seq(Variables({}))
  PROVE  IsEnv(env)
<1>1. Variables({}) \subseteq Variables({Generated})
  BY DEF Variables
<1>. QED
  BY <1>1, SeqMonotonic DEF IsEnv

\* What files and flags say of variables.
LEMMA GivenEnvType ==
  ASSUME flags \in Flags
  PROVE  /\ FilesEnv \in Seq(Variables({})) /\ flags.values.env \in Seq(Variables({}))
         /\ GivenEnv \in Seq(Variables({}))
<1> DEFINE V == Variables({})
           s == [i \in DOMAIN flags.envFiles |-> flags.envFiles[i].env]
<1>1. FilesEnv \in Seq(V)
  <2>1. flags.envFiles \in Seq([ok : BOOLEAN, env : Seq(V)])
    BY FlagsType
  <2> HIDE DEF V
  <2>2. DOMAIN flags.envFiles = 1..Len(flags.envFiles) /\ Len(flags.envFiles) \in Nat
    BY <2>1, LenProperties
  <2>3. \A i \in DOMAIN flags.envFiles : flags.envFiles[i].env \in Seq(V)
    <3>1. \A i \in DOMAIN flags.envFiles : flags.envFiles[i] \in [ok : BOOLEAN, env : Seq(V)]
      BY <2>1, <2>2, ElementOfSeq
    <3>. QED
      BY <3>1
  <2>4. s \in [1..Len(flags.envFiles) -> Seq(V)]
    BY <2>2, <2>3
  <2>5. s \in Seq(Seq(V))
    BY <2>2, <2>4, SeqDef
  <2>6. FilesEnv = FlattenSeq(s)
    BY DEF FilesEnv, EnvOf
  <2>. QED
    BY <2>5, <2>6, FlattenType
<1>2. flags.values.env \in Seq(V)
  <2>1. flags.command \in {"env", "service"}
    BY FlagsType
  <2>2. CASE flags.command = "env"
    <3>1. flags.values \in EnvSpec(BOOLEAN, {})
      BY <2>2, FlagsType
    <3>. QED
      BY <3>1, EnvSpecIs DEF IsEnvSpec
  <2>3. CASE flags.command = "service"
    <3>1. flags.values \in ServiceSpec(BOOLEAN)
      BY <2>3, FlagsType
    <3>. QED
      BY <3>1, ServiceSpecIs DEF IsServiceSpec
  <2>. QED
    BY <2>1, <2>2, <2>3
<1>3. GivenEnv \in Seq(V)
  <2> HIDE DEF V
  <2>. QED
    BY <1>1, <1>2, ConcatProperties DEF GivenEnv
<1>. QED
  BY <1>1, <1>2, <1>3

VPNAlone == "vpn" \in flags.given /\ "network" \notin flags.given

\* The first profile that is laid over a request without ports brings its own.
LEMMA AppliedPorts ==
  ASSUME NEW spec \in EnvSpec(Starts, {})
  PROVE  Applied(Parsed(spec), DefaultRequest).ports = spec.ports
<1>1. spec = [x \in Fields |-> spec[x]] /\ spec.ports \in Seq(Ports)
  BY EnvSpecIs DEF IsEnvSpec
<1>2. Parsed(spec).ports = spec.ports
  BY <1>1, FieldsAre DEF Parsed
<1>3. Applied(Parsed(spec), DefaultRequest).ports = DefaultRequest.ports \o Parsed(spec).ports
  BY FieldsAre DEF Applied, Straight, Desktop, Lists
<1>4. DefaultRequest.ports = <<>>
  BY DEF DefaultRequest
<1>. QED
  BY <1>1, <1>2, <1>3, <1>4, ConcatEmptySeq

\* What flags make of a request, field by field.
LEMMA OverriddenIs ==
  ASSUME NEW r
  PROVE  LET o == Overridden(r)
             v == flags.values
         IN /\ o = [x \in Fields |-> o[x]]
            /\ o.env = r.env \o GivenEnv
            /\ o.ports = r.ports \o v.ports /\ o.volumes = r.volumes \o v.volumes
            /\ o.network = IF VPNAlone THEN "vpn"
                           ELSE IF "network" \in flags.given THEN v.network ELSE r.network
            /\ o.networkName = IF VPNAlone THEN None
                               ELSE IF "networkName" \in flags.given THEN v.networkName
                                    ELSE r.networkName
            /\ o.deskOn = IF "deskOn" \in flags.given THEN v.deskOn
                          ELSE \/ r.deskOn
                               \/ flags.given \cap {"deskIP", "deskPort", "password"} # {}
            /\ \A x \in Fields \ (Lists \cup {"network", "networkName", "deskOn"}) :
                 o[x] = IF x \in flags.given THEN v[x] ELSE r[x]
<1> DEFINE o == Overridden(r)
           v == flags.values
           E(x) == CASE x = "env"   -> r.env \o GivenEnv
                     [] x \in Lists \ {"env"} -> r[x] \o v[x]
                     [] x = "network" /\ VPNAlone -> "vpn"
                     [] x = "networkName" /\ VPNAlone -> None
                     [] x = "deskOn" /\ x \notin flags.given ->
                          r.deskOn \/ flags.given \cap {"deskIP", "deskPort", "password"} # {}
                     [] OTHER -> IF x \in flags.given THEN v[x] ELSE r[x]
<1>1. o = [x \in Fields |-> E(x)]
  BY DEF Overridden, VPNAlone
<1> HIDE DEF o
<1>2. \A x \in Fields : o[x] = E(x)
  <2> HIDE DEF E
  <2>. QED
    BY <1>1
<1>3. o = [x \in Fields |-> o[x]]
  <2> HIDE DEF E
  <2>. QED
    BY <1>1
<1>4. o.env = r.env \o GivenEnv
  BY <1>2, FieldsAre DEF Lists
<1>5. o.ports = r.ports \o v.ports /\ o.volumes = r.volumes \o v.volumes
  BY <1>2, FieldsAre DEF Lists
<1>6. o.network = IF VPNAlone THEN "vpn"
                  ELSE IF "network" \in flags.given THEN v.network ELSE r.network
  BY <1>2, FieldsAre DEF Lists
<1>7. o.networkName = IF VPNAlone THEN None
                      ELSE IF "networkName" \in flags.given THEN v.networkName
                           ELSE r.networkName
  BY <1>2, FieldsAre DEF Lists
<1>8. o.deskOn = IF "deskOn" \in flags.given THEN v.deskOn
                 ELSE r.deskOn \/ flags.given \cap {"deskIP", "deskPort", "password"} # {}
  <2>1. "deskOn" \in Fields \ Lists
    BY FieldsAre DEF Lists
  <2>2. E("deskOn") = IF "deskOn" \in flags.given THEN v["deskOn"]
                      ELSE \/ r.deskOn
                           \/ flags.given \cap {"deskIP", "deskPort", "password"} # {}
    BY <2>1 DEF Lists
  <2> HIDE DEF E
  <2>. QED
    BY <1>2, <2>1, <2>2
<1>9. ASSUME NEW x \in Fields \ (Lists \cup {"network", "networkName", "deskOn"})
      PROVE  o[x] = IF x \in flags.given THEN v[x] ELSE r[x]
  BY <1>2, FieldsAre DEF Lists
<1>. QED
  BY <1>3, <1>4, <1>5, <1>6, <1>7, <1>8, <1>9 DEF o

\* What flags make of a request is one.
LEMMA OverriddenType ==
  ASSUME flags \in Flags, flags.command = "env", NEW r \in EnvSpec(BOOLEAN, {})
  PROVE  Overridden(r) \in EnvSpec(BOOLEAN, {})
<1> DEFINE o == Overridden(r)
           v == flags.values
<1>1. IsEnvSpec(r, BOOLEAN, {}) /\ IsEnvSpec(v, BOOLEAN, {}) /\ flags.given \subseteq Fields
  BY FlagsType, EnvSpecIs
<1>2. /\ o = [x \in Fields |-> o[x]]
      /\ o.env = r.env \o GivenEnv
      /\ o.ports = r.ports \o v.ports /\ o.volumes = r.volumes \o v.volumes
      /\ o.network \in {"vpn", v.network, r.network}
      /\ o.networkName \in {None, v.networkName, r.networkName}
      /\ o.deskOn \in BOOLEAN
      /\ \A x \in Fields \ (Lists \cup {"network", "networkName", "deskOn"}) :
           o[x] \in {v[x], r[x]}
  BY <1>1, OverriddenIs DEF IsEnvSpec
<1> HIDE DEF o
<1>3. /\ o.image \in {v.image, r.image} /\ o.hostname \in {v.hostname, r.hostname}
      /\ o.vpn \in {v.vpn, r.vpn} /\ o.wsName \in {v.wsName, r.wsName}
      /\ o.wsMount \in {v.wsMount, r.wsMount} /\ o.noWs \in {v.noWs, r.noWs}
      /\ o.start \in {v.start, r.start} /\ o.deskIP \in {v.deskIP, r.deskIP}
      /\ o.deskPort \in {v.deskPort, r.deskPort} /\ o.deskCPort \in {v.deskCPort, r.deskCPort}
      /\ o.password \in {v.password, r.password}
      /\ o.passwordEnv \in {v.passwordEnv, r.passwordEnv}
  BY <1>2, FieldsAre DEF Lists
<1>4. /\ o.image \in Given /\ o.hostname \in Given /\ o.vpn \in Given /\ o.wsName \in Given
      /\ o.wsMount \in Given /\ o.noWs \in BOOLEAN /\ o.start \in BOOLEAN
      /\ o.deskIP \in Given /\ o.deskPort \in Given /\ o.deskCPort \in Given
      /\ o.password \in Given /\ o.passwordEnv \in Given
  BY <1>1, <1>3 DEF IsEnvSpec
<1>5. o.network \in Given /\ o.networkName \in Given /\ o.deskOn \in BOOLEAN
  BY <1>1, <1>2, DefaultsAreGiven DEF IsEnvSpec
<1>6. o.env \in Seq(Variables({}))
  <2>1. r.env \in Seq(Variables({})) /\ GivenEnv \in Seq(Variables({}))
    BY <1>1, GivenEnvType DEF IsEnvSpec
  <2>2. r.env \o GivenEnv \in Seq(Variables({}))
    BY <2>1, ConcatProperties
  <2>. QED
    BY <1>2, <2>2
<1>7. o.ports \in Seq(Ports)
  BY <1>1, <1>2, ConcatProperties DEF IsEnvSpec
<1>8. o.volumes \in Seq(Volumes)
  BY <1>1, <1>2, ConcatProperties DEF IsEnvSpec
<1>9. IsEnvSpec(o, BOOLEAN, {})
  BY <1>4, <1>5, <1>6, <1>7, <1>8 DEF IsEnvSpec
<1>. QED
  BY <1>2, <1>9, EnvSpecIs DEF o

-----------------------------------------------------------------------------
(* The engine. *)

\* The engine leaves out nothing that it falls back on.
LEMMA NormalizedIs ==
  ASSUME NEW r \in EnvSpec(BOOLEAN, {})
  PROVE  /\ Normalized(r) \in EnvSpec(BOOLEAN, {})
         /\ Normalized(r).image = Or(r.image, DefaultImage)
         /\ Normalized(r).network = Or(r.network, "bridge")
         /\ Normalized(r).wsMount = Or(r.wsMount, DefaultMount)
         /\ Normalized(r).hostname = Or(r.hostname, "lab")
         /\ \A x \in Fields \ {"image", "hostname", "network", "wsMount"} :
              Normalized(r)[x] = r[x]
<1> DEFINE n == Normalized(r)
<1>1. r = [x \in Fields |-> r[x]] /\ IsEnvSpec(r, BOOLEAN, {})
  BY EnvSpecIs
<1>2. /\ Or(r.image, DefaultImage) \in Given /\ Or(r.hostname, "lab") \in Given
      /\ Or(r.network, "bridge") \in Given /\ Or(r.wsMount, DefaultMount) \in Given
  BY <1>1, DefaultsAreGiven, OrType DEF IsEnvSpec
<1>3. n = [x \in Fields |-> n[x]]
  BY <1>1 DEF Normalized
<1>4. /\ n.image = Or(r.image, DefaultImage) /\ n.hostname = Or(r.hostname, "lab")
      /\ n.network = Or(r.network, "bridge") /\ n.wsMount = Or(r.wsMount, DefaultMount)
      /\ \A x \in Fields \ {"image", "hostname", "network", "wsMount"} : n[x] = r[x]
  BY <1>1, FieldsAre DEF Normalized
<1> HIDE DEF n
<1>5. IsEnvSpec(n, BOOLEAN, {})
  BY <1>1, <1>2, <1>4, FieldsAre DEF IsEnvSpec
<1>. QED
  BY <1>3, <1>4, <1>5, EnvSpecIs DEF n

\* A request that nobody has made a password for is a request.
LEMMA EnvSpecMonotonic ==
  ASSUME NEW r \in EnvSpec(BOOLEAN, {})
  PROVE  r \in EnvSpec(BOOLEAN, {Generated})
<1>1. r = [x \in Fields |-> r[x]] /\ IsEnvSpec(r, BOOLEAN, {})
  BY EnvSpecIs
<1>2. r.env \in Seq(Variables({Generated}))
  BY <1>1, GivenIsEnv DEF IsEnvSpec, IsEnv
<1>3. IsEnvSpec(r, BOOLEAN, {Generated})
  BY <1>1, <1>2 DEF IsEnvSpec
<1>. QED
  BY <1>1, <1>3, EnvSpecIs

\* What a variable is set to may be said.
LEMMA EnvValueType ==
  ASSUME NEW env \in Seq(Variables({})), NEW k
  PROVE  EnvValue(env, k) \in Given
<1>1. IsEnv(env)
  BY GivenIsEnv
<1>2. CASE Entries(env, k) = {}
  BY <1>2 DEF EnvValue, Given
<1>3. CASE Entries(env, k) # {}
  <2>1. FirstOf(Entries(env, k)) \in DOMAIN env
    BY <1>1, <1>3, EnvIs, FirstExists
  <2>2. env[FirstOf(Entries(env, k))] \in Variables({})
    BY <2>1, LenProperties, ElementOfSeq
  <2>. QED
    BY <1>3, <2>2 DEF EnvValue, Variables
<1>. QED
  BY <1>2, <1>3

\* Every port is published on a port of the host.
HostsNamed(ports) == \A i \in DOMAIN ports : ports[i].host # None

\* A port lets the desktop through.
Reaches(ports, cont) == \E i \in DOMAIN ports : ports[i].cont = cont /\ IsTCP(ports[i])

Endpoint(r) == r.deskIP # None /\ r.deskPort # None /\ r.deskCPort # None

\* The endpoint of r is the address and the port, but for what one of the ports says.
MovedOnlyTo(ports, ip, port, r) ==
  /\ r.deskIP \in {ip} \cup {p.ip : p \in ports}
  /\ r.deskPort \in {port} \cup {p.host : p \in ports}

\* applyDesktopPort changes ports and endpoint, and then a port reaches the desktop; only
\* one that did before moves the endpoint.
LEMMA WithDesktopPortIs ==
  ASSUME NEW r \in EnvSpec(BOOLEAN, {Generated}), HostsNamed(r.ports), Endpoint(r)
  PROVE  LET d == WithDesktopPort(r)
         IN /\ d \in EnvSpec(BOOLEAN, {Generated})
            /\ HostsNamed(d.ports) /\ Endpoint(d) /\ Reaches(d.ports, d.deskCPort)
            /\ MovedOnlyTo(ReachingPorts(r.ports, r.deskCPort), r.deskIP, r.deskPort, d)
            /\ \A x \in Fields \ {"ports", "deskIP", "deskPort"} : d[x] = r[x]
<1> DEFINE d  == WithDesktopPort(r)
           is == {i \in DOMAIN r.ports : r.ports[i].cont = r.deskCPort /\ IsTCP(r.ports[i])}
           p  == r.ports[FirstOf(is)]
           q  == Port(r.deskIP, r.deskPort, r.deskCPort, "tcp")
<1>1. r = [x \in Fields |-> r[x]] /\ IsEnvSpec(r, BOOLEAN, {Generated})
  BY EnvSpecIs
<1>2. /\ r.ports \in Seq(Ports) /\ Len(r.ports) \in Nat /\ DOMAIN r.ports = 1..Len(r.ports)
      /\ \A i \in DOMAIN r.ports : r.ports[i] \in Ports
  BY <1>1, LenProperties, ElementOfSeq DEF IsEnvSpec
<1>3. CASE is = {}
  <2>1. d = [r EXCEPT !.ports = Append(r.ports, q)]
    BY <1>3 DEF WithDesktopPort
  <2>2. q \in Ports /\ q.host = r.deskPort /\ q.cont = r.deskCPort /\ q.proto = "tcp"
    <3>1. r.deskIP \in Given /\ r.deskPort \in Given /\ r.deskCPort \in Given
      BY <1>1 DEF IsEnvSpec
    <3>. QED
      BY <3>1, PortType
  <2> HIDE DEF d, q
  <2>3. /\ d = [x \in Fields |-> d[x]] /\ d.ports = Append(r.ports, q)
        /\ \A x \in Fields \ {"ports"} : d[x] = r[x]
    BY <1>1, <2>1, FieldsAre
  <2>4. /\ d.ports \in Seq(Ports) /\ DOMAIN d.ports = 1..(Len(r.ports) + 1)
        /\ \A i \in 1..Len(r.ports) : d.ports[i] = r.ports[i]
        /\ d.ports[Len(r.ports) + 1] = q
    <3>1. /\ Append(r.ports, q) \in Seq(Ports)
          /\ Len(Append(r.ports, q)) = Len(r.ports) + 1
          /\ \A i \in 1..Len(r.ports) : Append(r.ports, q)[i] = r.ports[i]
          /\ Append(r.ports, q)[Len(r.ports) + 1] = q
      BY <1>2, <2>2, AppendProperties
    <3>2. d.ports \in Seq(Ports) /\ Len(d.ports) = Len(r.ports) + 1
      BY <2>3, <3>1
    <3>3. DOMAIN d.ports = 1..(Len(r.ports) + 1)
      BY <3>2, LenProperties
    <3>. QED
      BY <2>3, <3>1, <3>2, <3>3
  <2>5. IsEnvSpec(d, BOOLEAN, {Generated})
    BY <1>1, <2>3, <2>4, FieldsAre DEF IsEnvSpec
  <2>6. Endpoint(d) /\ d.deskCPort = r.deskCPort
    BY <2>3, FieldsAre DEF Endpoint
  <2>7. MovedOnlyTo(ReachingPorts(r.ports, r.deskCPort), r.deskIP, r.deskPort, d)
    BY <2>3, FieldsAre DEF MovedOnlyTo
  <2>8. Reaches(d.ports, d.deskCPort)
    BY <1>2, <2>2, <2>4, <2>6 DEF Reaches, IsTCP
  <2>9. HostsNamed(d.ports)
    BY <1>2, <2>2, <2>4 DEF HostsNamed, Endpoint
  <2>. QED
    BY <2>3, <2>5, <2>6, <2>7, <2>8, <2>9, EnvSpecIs DEF d
<1>4. CASE is # {}
  <2>1. FirstOf(is) \in is
    <3>1. is \subseteq Nat
      BY <1>2
    <3> HIDE DEF is
    <3>. QED
      BY <1>4, <3>1, FirstExists
  <2>2. p \in Ports /\ p.host # None /\ p.cont = r.deskCPort /\ IsTCP(p)
    BY <1>2, <2>1 DEF HostsNamed
  <2>3. d = [r EXCEPT !.deskIP = Or(p.ip, @), !.deskPort = Or(p.host, @)]
    BY <1>4 DEF WithDesktopPort
  <2>4. Reaches(r.ports, r.deskCPort) /\ p \in ReachingPorts(r.ports, r.deskCPort)
    BY <2>1 DEF Reaches, ReachingPorts
  <2> HIDE DEF d, p, is
  <2>5. /\ d = [x \in Fields |-> d[x]]
        /\ d.deskIP = Or(p.ip, r.deskIP) /\ d.deskPort = Or(p.host, r.deskPort)
        /\ \A x \in Fields \ {"deskIP", "deskPort"} : d[x] = r[x]
    BY <1>1, <2>3, FieldsAre
  <2>6. p.ip \in Given /\ p.host \in Given
    BY <2>2 DEF Ports
  <2>7. d.deskIP \in Given /\ d.deskPort \in Given /\ d.deskIP # None /\ d.deskPort # None
    BY <1>1, <2>5, <2>6 DEF Or, IsEnvSpec, Endpoint
  <2>8. d.ports = r.ports /\ d.deskCPort = r.deskCPort
    BY <2>5, FieldsAre
  <2>9. IsEnvSpec(d, BOOLEAN, {Generated})
    BY <1>1, <2>5, <2>7, FieldsAre DEF IsEnvSpec
  <2>10. MovedOnlyTo(ReachingPorts(r.ports, r.deskCPort), r.deskIP, r.deskPort, d)
    BY <2>4, <2>5 DEF MovedOnlyTo, Or
  <2>. QED
    BY <2>4, <2>5, <2>7, <2>8, <2>9, <2>10, EnvSpecIs DEF d, Endpoint
<1>. QED
  BY <1>3, <1>4

PasswordKey(r) == Or(r.passwordEnv, DefaultKey)
PasswordOf(r)  == Or(r.password, Or(EnvValue(r.env, PasswordKey(r)), Generated))

\* The password that is decided on is set and remembered.
LEMMA WithPasswordIs ==
  ASSUME NEW r \in EnvSpec(BOOLEAN, {})
  PROVE  LET d == WithPassword(r)
         IN /\ d \in EnvSpec(BOOLEAN, {Generated})
            /\ PasswordKey(r) # None /\ PasswordKey(r) \in Given
            /\ PasswordOf(r) \in Given \cup {Generated}
            /\ d.passwordEnv = PasswordKey(r) /\ d.password = PasswordOf(r)
            /\ d.env = UpsertEnv(r.env, PasswordKey(r), PasswordOf(r))
            /\ \A x \in Fields \ {"passwordEnv", "password", "env"} : d[x] = r[x]
<1> DEFINE d == WithPassword(r)
<1>1. r = [x \in Fields |-> r[x]] /\ IsEnvSpec(r, BOOLEAN, {})
  BY EnvSpecIs
<1>2. PasswordKey(r) \in Given /\ PasswordKey(r) # None
  BY <1>1, DefaultsAreGiven DEF PasswordKey, Or, IsEnvSpec
<1>3. PasswordOf(r) \in Given \cup {Generated}
  <2>1. EnvValue(r.env, PasswordKey(r)) \in Given /\ r.password \in Given
    BY <1>1, EnvValueType DEF IsEnvSpec
  <2>. QED
    BY <2>1 DEF PasswordOf, Or
<1>4. d = [r EXCEPT !.passwordEnv = PasswordKey(r), !.password = PasswordOf(r),
                    !.env = UpsertEnv(r.env, PasswordKey(r), PasswordOf(r))]
  BY DEF WithPassword, PasswordKey, PasswordOf
<1> HIDE DEF d
<1>5. /\ d = [x \in Fields |-> d[x]]
      /\ d.passwordEnv = PasswordKey(r) /\ d.password = PasswordOf(r)
      /\ d.env = UpsertEnv(r.env, PasswordKey(r), PasswordOf(r))
      /\ \A x \in Fields \ {"passwordEnv", "password", "env"} : d[x] = r[x]
  BY <1>1, <1>4, FieldsAre
<1>6. d.env \in Seq(Variables({Generated}))
  <2>1. IsEnv(r.env)
    BY <1>1, GivenIsEnv DEF IsEnvSpec
  <2>2. IsEnv(UpsertEnv(r.env, PasswordKey(r), PasswordOf(r)))
    BY <1>2, <1>3, <2>1, UpsertSets
  <2>. QED
    BY <1>5, <2>2 DEF IsEnv
<1>7. IsEnvSpec(d, BOOLEAN, {Generated})
  BY <1>1, <1>2, <1>3, <1>5, <1>6, FieldsAre DEF IsEnvSpec
<1>. QED
  BY <1>2, <1>3, <1>5, <1>7, EnvSpecIs DEF d

\* applyDesktop decides image, endpoint and password, and off the gateway's network the
\* port that reaches the desktop; it keeps the rest.
LEMMA DesktopOfIs ==
  ASSUME NEW r \in EnvSpec(BOOLEAN, {}), HostsNamed(r.ports)
  PROVE  LET d == DesktopOf(r)
         IN /\ d \in EnvSpec(BOOLEAN, {Generated})
            /\ HostsNamed(d.ports) /\ Endpoint(d)
            /\ r.network # "vpn" => Reaches(d.ports, d.deskCPort)
            /\ MovedOnlyTo(ReachingPorts(r.ports, d.deskCPort), Or(r.deskIP, Local),
                           Or(r.deskPort, DefaultPort), d)
            /\ d.image = IF r.image = DefaultImage THEN DesktopImage ELSE r.image
            /\ d.passwordEnv = PasswordKey(r) /\ d.password = PasswordOf(r)
            /\ d.env = UpsertEnv(r.env, PasswordKey(r), PasswordOf(r))
            /\ \A x \in {"hostname", "network", "networkName", "vpn", "wsName", "wsMount",
                         "noWs", "start", "deskOn", "volumes"} : d[x] = r[x]
<1> DEFINE e == [r EXCEPT !.deskIP = Or(@, Local), !.deskPort = Or(@, DefaultPort),
                          !.deskCPort = Or(@, DefaultPort),
                          !.image = IF @ = DefaultImage THEN DesktopImage ELSE @]
           d == WithPassword(e)
           Kept == {"hostname", "network", "networkName", "vpn", "wsName", "wsMount",
                    "noWs", "start", "deskOn", "volumes"}
<1>1. r = [x \in Fields |-> r[x]] /\ IsEnvSpec(r, BOOLEAN, {})
  BY EnvSpecIs
<1>2. DesktopOf(r) = IF r.network = "vpn" THEN d ELSE WithDesktopPort(d)
  BY DEF DesktopOf
<1>3. /\ e = [x \in Fields |-> e[x]]
      /\ e.deskIP = Or(r.deskIP, Local) /\ e.deskPort = Or(r.deskPort, DefaultPort)
      /\ e.deskCPort = Or(r.deskCPort, DefaultPort)
      /\ e.image = IF r.image = DefaultImage THEN DesktopImage ELSE r.image
      /\ \A x \in Fields \ {"deskIP", "deskPort", "deskCPort", "image"} : e[x] = r[x]
  BY <1>1, FieldsAre
<1> HIDE DEF e
<1>4. /\ e.deskIP \in Given \ {None} /\ e.deskPort \in Given \ {None}
      /\ e.deskCPort \in Given \ {None} /\ e.image \in Given
  BY <1>1, <1>3, DefaultsAreGiven DEF Or, IsEnvSpec
<1>5. e \in EnvSpec(BOOLEAN, {})
  <2>1. IsEnvSpec(e, BOOLEAN, {})
    BY <1>1, <1>3, <1>4, FieldsAre DEF IsEnvSpec
  <2>. QED
    BY <1>3, <2>1, EnvSpecIs
<1>6. PasswordKey(e) = PasswordKey(r) /\ PasswordOf(e) = PasswordOf(r) /\ e.env = r.env
  <2>1. e.passwordEnv = r.passwordEnv /\ e.password = r.password /\ e.env = r.env
    BY <1>3, FieldsAre
  <2>. QED
    BY <2>1 DEF PasswordKey, PasswordOf
<1>7. /\ d \in EnvSpec(BOOLEAN, {Generated})
      /\ d.passwordEnv = PasswordKey(r) /\ d.password = PasswordOf(r)
      /\ d.env = UpsertEnv(r.env, PasswordKey(r), PasswordOf(r))
      /\ \A x \in Fields \ {"passwordEnv", "password", "env"} : d[x] = e[x]
  BY <1>5, <1>6, WithPasswordIs
<1> HIDE DEF d
<1>8. /\ d.ports = r.ports /\ d.image = e.image /\ Endpoint(d)
      /\ d.deskIP = Or(r.deskIP, Local) /\ d.deskPort = Or(r.deskPort, DefaultPort)
      /\ \A x \in Kept : d[x] = r[x]
  BY <1>3, <1>4, <1>7, FieldsAre DEF Endpoint
<1>9. CASE r.network = "vpn"
  <2>1. MovedOnlyTo(ReachingPorts(r.ports, d.deskCPort), Or(r.deskIP, Local),
                    Or(r.deskPort, DefaultPort), d)
    BY <1>8 DEF MovedOnlyTo
  <2>. QED
    BY <1>2, <1>3, <1>7, <1>8, <1>9, <2>1
<1>10. CASE r.network # "vpn"
  <2> DEFINE w == WithDesktopPort(d)
  <2>1. /\ w \in EnvSpec(BOOLEAN, {Generated})
        /\ HostsNamed(w.ports) /\ Endpoint(w) /\ Reaches(w.ports, w.deskCPort)
        /\ MovedOnlyTo(ReachingPorts(d.ports, d.deskCPort), d.deskIP, d.deskPort, w)
        /\ \A x \in Fields \ {"ports", "deskIP", "deskPort"} : w[x] = d[x]
    BY <1>7, <1>8, WithDesktopPortIs
  <2>2. DesktopOf(r) = w
    BY <1>2, <1>10
  <2> HIDE DEF w
  <2>3. /\ w.image = d.image /\ w.passwordEnv = d.passwordEnv /\ w.password = d.password
        /\ w.env = d.env /\ w.deskCPort = d.deskCPort /\ \A x \in Kept : w[x] = d[x]
    BY <2>1, FieldsAre
  <2>. QED
    BY <1>3, <1>7, <1>8, <2>1, <2>2, <2>3
<1>. QED
  BY <1>9, <1>10

-----------------------------------------------------------------------------
(* What flags say counts. *)

\* The variables that files and flags of a command line f give.
GivenOf(f) == EnvOf(f.envFiles) \o f.values.env

\* Each variable that is given counts in env, but for one key.
Wins(f, env, but) ==
  \A given \in {GivenOf(f), f.values.env} : \A i \in DOMAIN given :
    \/ given[i].key = but
    \/ InEffect(env, given[i].key) = InEffect(given, given[i].key)

\* What is given comes last.
EndsWithGiven(f, env) == \E e \in Seq(Variables({})) : env = e \o GivenOf(f)

\* For the command line as it is.
LEMMA GivenIs ==
  ASSUME flags \in Flags
  PROVE  /\ GivenOf(flags) = GivenEnv /\ GivenEnv = FilesEnv \o flags.values.env
         /\ IsEnv(FilesEnv) /\ IsEnv(flags.values.env) /\ IsEnv(GivenOf(flags))
BY GivenEnvType, GivenIsEnv DEF GivenOf, GivenEnv, FilesEnv

\* What comes last counts.
LEMMA LastOnesWin ==
  ASSUME flags \in Flags, NEW env, EndsWithGiven(flags, env), NEW but
  PROVE  /\ IsEnv(env) /\ Wins(flags, env, but)
         /\ \A i \in DOMAIN GivenOf(flags) : Entries(env, GivenOf(flags)[i].key) # {}
         /\ \A i \in DOMAIN flags.values.env : Entries(env, flags.values.env[i].key) # {}
<1> DEFINE g == GivenOf(flags)
           v == flags.values.env
<1>1. PICK e \in Seq(Variables({})) : env = e \o g
  BY DEF EndsWithGiven
<1>2. IsEnv(e) /\ IsEnv(g) /\ IsEnv(v) /\ IsEnv(FilesEnv) /\ g = FilesEnv \o v
  BY GivenIs, GivenIsEnv
<1> HIDE DEF g, v
<1>3. IsEnv(env)
  BY <1>1, <1>2, Concatenated
<1>4. ASSUME NEW k, Entries(g, k) # {}
      PROVE  Entries(env, k) # {} /\ InEffect(env, k) = InEffect(g, k)
  BY <1>1, <1>2, <1>4, LaterEntries, LaterWins
<1>5. ASSUME NEW k, Entries(v, k) # {}
      PROVE  Entries(g, k) # {} /\ InEffect(g, k) = InEffect(v, k)
  BY <1>2, <1>5, LaterEntries, LaterWins
<1>6. ASSUME NEW i \in DOMAIN g
      PROVE  Entries(env, g[i].key) # {} /\ InEffect(env, g[i].key) = InEffect(g, g[i].key)
  <2>1. Entries(g, g[i].key) # {}
    BY DEF Entries
  <2>. QED
    BY <1>4, <2>1
<1>7. ASSUME NEW i \in DOMAIN v
      PROVE  Entries(env, v[i].key) # {} /\ InEffect(env, v[i].key) = InEffect(v, v[i].key)
  <2>1. Entries(v, v[i].key) # {}
    BY DEF Entries
  <2>. QED
    BY <1>4, <1>5, <2>1
<1>. QED
  BY <1>3, <1>6, <1>7 DEF Wins, g, v

\* It still counts when the password is set.
LEMMA OthersWin ==
  ASSUME flags \in Flags, NEW env, EndsWithGiven(flags, env),
         NEW key \in Given, NEW value \in Given \cup {Generated}
  PROVE  Wins(flags, UpsertEnv(env, key, value), key)
<1>1. /\ IsEnv(env) /\ Wins(flags, env, key)
      /\ \A i \in DOMAIN GivenOf(flags) : Entries(env, GivenOf(flags)[i].key) # {}
      /\ \A i \in DOMAIN flags.values.env : Entries(env, flags.values.env[i].key) # {}
  BY LastOnesWin
<1>2. \A k : k # key /\ Entries(env, k) # {} =>
         InEffect(UpsertEnv(env, key, value), k) = InEffect(env, k)
  BY <1>1, UpsertKeeps
<1>. QED
  BY <1>1, <1>2 DEF Wins

\* A password is made only if no variable gives one, or more than one do.
MadeOnlyIfNone(f, env, key, password) ==
  password = Generated /\ (\E i \in DOMAIN env : Entries(env, key) = {i}) =>
    \A j \in Entries(GivenOf(f), key) : GivenOf(f)[j].value = None

\* So it is when the password is decided on.
LEMMA PasswordMade ==
  ASSUME flags \in Flags, NEW r \in EnvSpec(BOOLEAN, {}), EndsWithGiven(flags, r.env)
  PROVE  MadeOnlyIfNone(flags, UpsertEnv(r.env, PasswordKey(r), PasswordOf(r)),
                        PasswordKey(r), PasswordOf(r))
<1> DEFINE key == PasswordKey(r)
           new == UpsertEnv(r.env, key, PasswordOf(r))
           g   == GivenOf(flags)
<1> SUFFICES ASSUME PasswordOf(r) = Generated,
                    NEW i \in DOMAIN new, Entries(new, key) = {i},
                    NEW j \in Entries(g, key)
             PROVE  g[j].value = None
  BY DEF MadeOnlyIfNone
<1>1. PICK e \in Seq(Variables({})) : r.env = e \o g
  BY DEF EndsWithGiven
<1>2. IsEnv(e) /\ IsEnv(g)
  BY GivenIs, GivenIsEnv
<1>3. r.password \in Given /\ r.env \in Seq(Variables({})) /\ IsEnv(r.env)
  BY EnvSpecIs, GivenIsEnv DEF IsEnvSpec
<1>4. EnvValue(r.env, key) = None
  <2>1. EnvValue(r.env, key) \in Given
    BY <1>3, EnvValueType
  <2>. QED
    BY <1>3, <2>1, DefaultsAreGiven DEF PasswordOf, Or
<1>5. Entries(r.env, key) \subseteq {i}
  <2>1. key \in Given /\ PasswordOf(r) \in Given \cup {Generated}
    BY WithPasswordIs
  <2> HIDE DEF key
  <2>2. Entries(r.env, key) \subseteq Entries(new, key)
    BY <1>3, <2>1, UpsertSets
  <2>. QED
    BY <2>2
<1> HIDE DEF g, key
<1>6. Len(e) + j \in Entries(r.env, key) /\ r.env[Len(e) + j] = g[j]
  <2>1. Len(e) + j \in Entries(r.env, key)
    BY <1>1, <1>2, LaterEntries
  <2>2. j \in DOMAIN g
    BY DEF Entries
  <2>3. \A l \in DOMAIN g : (e \o g)[Len(e) + l] = g[l]
    BY <1>2, Concatenated DEF g
  <2>. QED
    BY <1>1, <2>1, <2>2, <2>3
<1>7. FirstOf(Entries(r.env, key)) = Len(e) + j
  <2>1. Entries(r.env, key) = {Len(e) + j} /\ Entries(r.env, key) \subseteq Nat
    BY <1>3, <1>5, <1>6, EnvIs
  <2>. QED
    BY <2>1, FirstExists
<1>8. EnvValue(r.env, key) = g[j].value
  BY <1>6, <1>7 DEF EnvValue
<1>. QED
  BY <1>4, <1>8

\* What the flags f ask of an environment is in the request r.
Asked(f, r) ==
  LET v == f.values
      Set(x) == x \in f.given /\ v[x] # None
  IN /\ Set("network") => r.network = v.network
     /\ Set("vpn") => r.vpn = v.vpn
     /\ Set("networkName") => r.networkName = v.networkName \/ r.network = "vpn"
     /\ Set("image") => r.image = v.image \/ (r.deskOn /\ v.image = DefaultImage)
     /\ Set("hostname") => r.hostname = v.hostname \/ r.network = "vpn"
     /\ \A x \in {"deskOn", "noWs", "start", "wsName", "wsMount", "password"} :
          Set(x) => r[x] = v[x]

\* What they ask of the desktop's endpoint is there as it was given.
EndpointGiven(f, r) ==
  \A x \in {"deskIP", "deskPort"} : x \in f.given /\ f.values[x] # None => r[x] = f.values[x]

\* It still is, but for what one of the ports says that reaches the desktop.
EndpointAsked(f, ports, r) ==
  LET v == f.values
      Set(x) == x \in f.given /\ v[x] # None
      moving == ReachingPorts(ports, r.deskCPort)
  IN /\ Set("deskIP") => r.deskIP \in {v.deskIP} \cup {p.ip : p \in moving}
     /\ Set("deskPort") => r.deskPort \in {v.deskPort} \cup {p.host : p \in moving}

\* The flags are taken over.
LEMMA OverriddenAsked ==
  ASSUME flags \in Flags, NEW r \in EnvSpec(BOOLEAN, {})
  PROVE  /\ Asked(flags, Overridden(r)) /\ EndsWithGiven(flags, Overridden(r).env)
         /\ EndpointGiven(flags, Overridden(r))
<1> DEFINE o == Overridden(r)
           v == flags.values
<1>1. /\ o.network = IF VPNAlone THEN "vpn"
                     ELSE IF "network" \in flags.given THEN v.network ELSE r.network
      /\ o.networkName = IF VPNAlone THEN None
                         ELSE IF "networkName" \in flags.given THEN v.networkName
                              ELSE r.networkName
      /\ o.deskOn = IF "deskOn" \in flags.given THEN v.deskOn
                    ELSE r.deskOn \/ flags.given \cap {"deskIP", "deskPort", "password"} # {}
      /\ o.env = r.env \o GivenEnv
      /\ \A x \in Fields \ (Lists \cup {"network", "networkName", "deskOn"}) :
           o[x] = IF x \in flags.given THEN v[x] ELSE r[x]
  BY OverriddenIs
<1> HIDE DEF o
<1> DEFINE Replaced == {"vpn", "image", "hostname", "noWs", "start", "wsName", "wsMount",
                        "password", "deskIP", "deskPort"}
<1>2. \A x \in Replaced : x \in Fields \ (Lists \cup {"network", "networkName", "deskOn"})
  BY FieldsAre DEF Lists
<1>3. \A x \in Replaced : x \in flags.given => o[x] = v[x]
  BY <1>1, <1>2
<1>4. Asked(flags, o)
  BY <1>1, <1>3 DEF Asked, VPNAlone
<1>5. EndsWithGiven(flags, o.env)
  <2>1. r.env \in Seq(Variables({})) /\ GivenEnv = GivenOf(flags)
    BY EnvSpecIs, GivenIs DEF IsEnvSpec
  <2>. QED
    BY <1>1, <2>1 DEF EndsWithGiven
<1>6. EndpointGiven(flags, o)
  BY <1>3 DEF EndpointGiven
<1>. QED
  BY <1>4, <1>5, <1>6 DEF o

\* The engine's defaults take nothing from them.
LEMMA NormalizedAsked ==
  ASSUME NEW f, NEW r \in EnvSpec(BOOLEAN, {}), Asked(f, r), EndsWithGiven(f, r.env),
         EndpointGiven(f, r)
  PROVE  /\ Asked(f, Normalized(r)) /\ EndsWithGiven(f, Normalized(r).env)
         /\ EndpointGiven(f, Normalized(r)) /\ Normalized(r).ports = r.ports
<1> DEFINE n == Normalized(r)
<1>1. /\ n.image = Or(r.image, DefaultImage) /\ n.network = Or(r.network, "bridge")
      /\ n.wsMount = Or(r.wsMount, DefaultMount) /\ n.hostname = Or(r.hostname, "lab")
      /\ \A x \in Fields \ {"image", "hostname", "network", "wsMount"} : n[x] = r[x]
  BY NormalizedIs
<1> HIDE DEF n
<1>2. /\ n.vpn = r.vpn /\ n.networkName = r.networkName /\ n.deskOn = r.deskOn
      /\ n.password = r.password /\ n.env = r.env /\ n.noWs = r.noWs /\ n.start = r.start
      /\ n.wsName = r.wsName /\ n.deskIP = r.deskIP /\ n.deskPort = r.deskPort
      /\ n.ports = r.ports
  BY <1>1, FieldsAre
<1>3. r.network = "vpn" => n.network = "vpn"
  BY <1>1, DefaultsAreGiven DEF Or
<1>4. Asked(f, n)
  BY <1>1, <1>2, <1>3 DEF Asked, Or
<1>5. EndpointGiven(f, n)
  BY <1>2 DEF EndpointGiven
<1>. QED
  BY <1>2, <1>4, <1>5 DEF n

\* The desktop takes nothing but a default image, and the endpoint if a port has it.
LEMMA DesktopAsked ==
  ASSUME NEW f, NEW r \in EnvSpec(BOOLEAN, {}), HostsNamed(r.ports), r.deskOn, Asked(f, r),
         EndpointGiven(f, r)
  PROVE  Asked(f, DesktopOf(r)) /\ EndpointAsked(f, r.ports, DesktopOf(r))
<1> DEFINE d == DesktopOf(r)
<1>1. /\ d.image = IF r.image = DefaultImage THEN DesktopImage ELSE r.image
      /\ d.password = PasswordOf(r)
      /\ MovedOnlyTo(ReachingPorts(r.ports, d.deskCPort), Or(r.deskIP, Local),
                     Or(r.deskPort, DefaultPort), d)
      /\ \A x \in {"hostname", "network", "networkName", "vpn", "wsName", "wsMount",
                   "noWs", "start", "deskOn", "volumes"} : d[x] = r[x]
  BY DesktopOfIs
<1> HIDE DEF d
<1>2. /\ d.network = r.network /\ d.networkName = r.networkName /\ d.vpn = r.vpn
      /\ d.deskOn = r.deskOn /\ d.wsMount = r.wsMount /\ d.hostname = r.hostname
      /\ d.noWs = r.noWs /\ d.start = r.start /\ d.wsName = r.wsName
  BY <1>1
<1>3. r.password # None => d.password = r.password
  BY <1>1 DEF PasswordOf, Or
<1>4. Asked(f, d)
  BY <1>1, <1>2, <1>3 DEF Asked
<1>5. EndpointAsked(f, r.ports, d)
  <2> DEFINE moving == ReachingPorts(r.ports, d.deskCPort)
  <2>1. /\ d.deskIP \in {Or(r.deskIP, Local)} \cup {p.ip : p \in moving}
        /\ d.deskPort \in {Or(r.deskPort, DefaultPort)} \cup {p.host : p \in moving}
    BY <1>1 DEF MovedOnlyTo
  <2> HIDE DEF moving
  <2>2. ASSUME "deskIP" \in f.given, f.values.deskIP # None
        PROVE  d.deskIP \in {f.values.deskIP} \cup {p.ip : p \in moving}
    BY <2>1, <2>2 DEF EndpointGiven, Or
  <2>3. ASSUME "deskPort" \in f.given, f.values.deskPort # None
        PROVE  d.deskPort \in {f.values.deskPort} \cup {p.host : p \in moving}
    BY <2>1, <2>3 DEF EndpointGiven, Or
  <2>. QED
    BY <2>2, <2>3 DEF EndpointAsked, moving
<1>. QED
  BY <1>4, <1>5 DEF d

\* What the flags f ask of a service is in the request r.
ServiceAsked(f, r) ==
  LET v == f.values
  IN /\ \A x \in {"name", "alias"} : x \in f.given /\ v[x] # None => r[x] = v[x]
     /\ "start" \in f.given => r.start = v.start
     /\ v.command # <<>> => r.command = v.command
     /\ Wins(f, r.env, None)

\* The flags of a service are taken over, and what they make of a request is one.
LEMMA ServiceOverridden ==
  ASSUME flags \in Flags, flags.command = "service", NEW r \in ServiceSpec(BOOLEAN)
  PROVE  /\ OverriddenService(r) \in ServiceSpec(BOOLEAN)
         /\ ServiceAsked(flags, OverriddenService(r))
<1> DEFINE f    == flags.values
           v    == [x \in ServiceFields |->
                      CASE x = "env"   -> r.env \o GivenEnv
                        [] x \in Lists \ {"env"} -> r[x] \o f[x]
                        [] OTHER -> IF x \in flags.given THEN f[x] ELSE r[x]]
           name == IF v.name # None THEN v.name ELSE DerivedName[v.image]
           c    == ServiceCommand(v)
           o    == OverriddenService(r)
<1>1. /\ r = [x \in ServiceFields |-> r[x]] /\ IsServiceSpec(r, BOOLEAN)
      /\ IsServiceSpec(f, BOOLEAN)
  BY FlagsType, ServiceSpecIs
<1>2. /\ v = [x \in ServiceFields |-> v[x]]
      /\ v.env = r.env \o GivenEnv /\ v.ports = r.ports \o f.ports
      /\ v.volumes = r.volumes \o f.volumes
      /\ \A x \in {"name", "alias", "image", "start", "command"} :
           v[x] = IF x \in flags.given THEN f[x] ELSE r[x]
  BY ServiceFieldsAre DEF Lists
<1>3. o = [c EXCEPT !.name = name, !.alias = Or(@, name)]
  BY DEF OverriddenService
<1> HIDE DEF v
<1>4. /\ v.name \in Given /\ v.alias \in Given /\ v.image \in Given /\ v.start \in BOOLEAN
      /\ v.command \in Seq(Text)
  BY <1>1, <1>2 DEF IsServiceSpec
<1>5. name \in Given /\ name # None
  <2>1. DerivedName[v.image] \in Text
    BY <1>4, DerivedType
  <2>. QED
    BY <1>4, <2>1, DefaultsAreGiven DEF Given
<1> HIDE DEF name
<1>6. /\ c = [x \in ServiceFields |-> c[x]]
      /\ c.command = IF f.command # <<>> THEN f.command ELSE v.command
      /\ \A x \in ServiceFields \ {"command"} : c[x] = v[x]
  BY <1>2, ServiceFieldsAre DEF ServiceCommand
<1> HIDE DEF c, o
<1>7. /\ o = [x \in ServiceFields |-> o[x]]
      /\ o.name = name /\ o.alias = Or(v.alias, name) /\ o.image = v.image
      /\ o.start = v.start /\ o.env = v.env /\ o.ports = v.ports /\ o.volumes = v.volumes
      /\ o.command = IF f.command # <<>> THEN f.command ELSE v.command
  BY <1>3, <1>6, ServiceFieldsAre
<1>8. o.env \in Seq(Variables({})) /\ EndsWithGiven(flags, o.env)
  <2>1. /\ r.env \in Seq(Variables({})) /\ GivenEnv \in Seq(Variables({}))
        /\ GivenEnv = GivenOf(flags)
    BY <1>1, GivenEnvType, GivenIs DEF IsServiceSpec
  <2>2. r.env \o GivenEnv \in Seq(Variables({}))
    BY <2>1, ConcatProperties
  <2>. QED
    BY <1>2, <1>7, <2>1, <2>2 DEF EndsWithGiven
<1>9. o.ports \in Seq(Ports)
  BY <1>1, <1>2, <1>7, ConcatProperties DEF IsServiceSpec
<1>10. o.volumes \in Seq(Volumes)
  BY <1>1, <1>2, <1>7, ConcatProperties DEF IsServiceSpec
<1>11. /\ o.name \in Given /\ o.alias \in Given /\ o.image \in Given /\ o.start \in BOOLEAN
       /\ o.command \in Seq(Text)
  BY <1>1, <1>4, <1>5, <1>7, OrType DEF IsServiceSpec
<1>12. o \in ServiceSpec(BOOLEAN)
  <2>1. IsServiceSpec(o, BOOLEAN)
    BY <1>8, <1>9, <1>10, <1>11 DEF IsServiceSpec
  <2>. QED
    BY <1>7, <2>1, ServiceSpecIs
<1>13. Wins(flags, o.env, None)
  BY <1>8, LastOnesWin
<1>14. /\ "name" \in flags.given /\ f.name # None => o.name = f.name
       /\ "alias" \in flags.given /\ f.alias # None => o.alias = f.alias
       /\ "start" \in flags.given => o.start = f.start
  BY <1>2, <1>7 DEF Or, name
<1>15. ServiceAsked(flags, o)
  BY <1>7, <1>13, <1>14 DEF ServiceAsked
<1>. QED
  BY <1>12, <1>15 DEF o

-----------------------------------------------------------------------------
(* Templates. *)

KindOf(f) == IF f.command = "env" THEN "profile" ELSE "service"

\* No file of the user, in the library l, may be meant by the command line f.
NoneMine(f, l) ==
  \A i \in DOMAIN l.user[KindOf(f)] :
    l.user[KindOf(f)][i].kind \in {KindOf(f), None} =>
      l.user[KindOf(f)][i].name # f.profile /\ l.user[KindOf(f)][i].ok

\* Nor may anything that is built in.
NoBuiltin(f, l) == \A d \in l.builtin : d.kind = KindOf(f) => d.name # f.profile

\* Where lookup finds nothing of the user's, the user has nothing.
LEMMA NothingFound ==
  ASSUME LooksUp(flags.profile), OfUser(flags.profile) = {}
  PROVE  NoneMine(flags, library)
BY DEF LooksUp, OfUser, UserFilesParse, UserFiles, Templates, Kind, KindOf, NoneMine

\* What is found is a template that parses, of the right kind; and if it is built in the
\* user has nothing.
LEMMA FoundIs ==
  ASSUME flags \in Flags, library \in Libraries, flags.profile # None,
         NEW d \in Found(flags.profile)
  PROVE  /\ d # None /\ IsTemplate(d) /\ d.ok /\ d.kind = KindOf(flags)
         /\ d \in library.builtin => NoneMine(flags, library)
<1> DEFINE ref == flags.profile
<1>1. ref \in Text /\ KindOf(flags) \in {"profile", "service"} /\ KindOf(flags) = Kind
  BY FlagsType DEF Given, KindOf, Kind
<1>2. CASE FileAt(ref) # None
  <2>1. d = library.files[ref] /\ d # None /\ d.ok /\ d.kind = Kind
    BY <1>2 DEF Found, FileAt
  <2>. QED
    BY <1>1, <2>1, LibrariesType
<1>3. CASE FileAt(ref) = None
  <2>1. LooksUp(ref) /\ d \in Named(ref)
    BY <1>3 DEF Found
  <2>2. CASE OfUser(ref) = {}
    <3>1. d \in library.builtin /\ d.kind = Kind
      BY <2>1, <2>2 DEF Named, OfBuiltin
    <3>2. IsTemplate(d) /\ d.ok
      BY <3>1, LibrariesType
    <3>. QED
      BY <1>1, <2>1, <2>2, <3>1, <3>2, NothingFound DEF IsTemplate
  <2>3. CASE OfUser(ref) # {}
    <3> DEFINE i == FirstOf(OfUser(ref))
    <3>1. OfUser(ref) \subseteq Nat
      BY <1>1, LibrariesType DEF OfUser, UserFiles, Templates
    <3>2. i \in OfUser(ref)
      BY <2>3, <3>1, FirstExists
    <3>3. d = Templates[i]
      BY <2>1, <2>3 DEF Named
    <3> HIDE DEF i
    <3>4. i \in UserFiles /\ i \in DOMAIN Templates /\ d.kind \in {Kind, None}
      BY <3>2, <3>3 DEF OfUser, UserFiles
    <3>5. d.ok
      BY <2>1, <3>3, <3>4 DEF LooksUp, UserFilesParse
    <3>6. IsTemplate(d) /\ d \notin library.builtin
      BY <1>1, <3>3, <3>4, LibrariesType DEF Templates
    <3>7. None \notin {"profile", "service"}
      BY TextType
    <3>8. d # None /\ d.kind = Kind
      BY <3>4, <3>5, <3>6, <3>7 DEF IsTemplate
    <3>. QED
      BY <1>1, <3>5, <3>6, <3>8
  <2>. QED
    BY <2>2, <2>3
<1>. QED
  BY <1>2, <1>3

\* What is found says what its kind can say.
LEMMA FoundSpec ==
  ASSUME flags \in Flags, library \in Libraries, flags.profile # None,
         NEW d \in Found(flags.profile)
  PROVE  /\ flags.command = "env" => d.spec \in EnvSpec(Starts, {})
         /\ flags.command = "service" => d.spec \in ServiceSpec(Starts)
BY FoundIs DEF IsTemplate, KindOf, Starts

-----------------------------------------------------------------------------
(* The inductive invariant. *)

EnvStages == {"profile", "override", "engine", "desktop", "network", "workspace", "docker",
              "created", "refused"}

ServiceStages == {"template", "serviceoverride", "serviceengine", "servicedocker", "served",
                  "refused"}

\* The command line and the files are what they may be; the request is one, and nobody has
\* made a password before the engine decides on the desktop.
Typed ==
  /\ flags \in Flags /\ library \in Libraries
  /\ flags.command = "env" =>
       /\ stage \in EnvStages /\ req \in EnvSpec(BOOLEAN, {Generated})
       /\ stage = "profile" => req = DefaultRequest
       /\ stage \in {"profile", "override", "engine", "desktop"} => req \in EnvSpec(BOOLEAN, {})
  /\ flags.command = "service" => stage \in ServiceStages /\ req \in ServiceSpec(BOOLEAN)
  /\ replaced \in 0..MaxReplaced

IsGateway(g) ==
  g # None => g \in Seq(Ports) /\ \A i \in DOMAIN g : g[i].proto \in {"tcp", "udp"}

Gateways == IsGateway(gateway) /\ IsGateway(checked)

\* What is built in is used only if the user has nothing, and an image only if nothing is
\* built in.
Shadowed ==
  /\ profile # None /\ profile \in library.builtin => NoneMine(flags, library)
  /\ /\ profile = None
     /\ stage \in {"serviceoverride", "serviceengine", "servicedocker", "served"}
     => NoneMine(flags, library) /\ NoBuiltin(flags, library)

\* The flags count from when they are laid over the rest.
FlagsCount ==
  /\ stage \in {"engine", "desktop", "network", "workspace", "docker", "created"} =>
       Asked(flags, req)
  /\ stage \in {"engine", "desktop"} => EndsWithGiven(flags, req.env)
  /\ stage \in {"serviceengine", "servicedocker", "served"} => ServiceAsked(flags, req)

\* The ports of the request are those of the profile and then of the flags, until the
\* desktop is decided on; from then on its endpoint is the flags' or that of such a port.
EndpointCounts ==
  /\ stage = "profile" => profile = None
  /\ stage = "override" => req.ports = IF profile = None THEN <<>> ELSE profile.spec.ports
  /\ stage \in {"engine", "desktop"} =>
       req.ports = PortsAsked(flags, profile) /\ EndpointGiven(flags, req)
  /\ stage \in {"network", "workspace", "docker", "created"} /\ req.deskOn =>
       EndpointAsked(flags, PortsAsked(flags, profile), req)

\* A request that passed validation: a network that is one, a gateway with the vpn network
\* and with no other, and ports of the host.
IsValid(r) ==
  /\ r.network \in Networks
  /\ (r.network = "vpn") <=> (r.vpn # None)
  /\ HostsNamed(r.ports)

Validated ==
  stage \in {"desktop", "network", "workspace", "docker", "created"} => IsValid(req)

\* The desktop of the request r, of the command line f: it has an endpoint and, off the
\* gateway's network, a port that reaches it; and a password that is set.
HasDesktop(f, r) ==
  /\ Endpoint(r)
  /\ r.network # "vpn" => Reaches(r.ports, r.deskCPort)
  /\ r.password = EnvValue(r.env, r.passwordEnv)
  /\ Wins(f, r.env, r.passwordEnv)
  /\ MadeOnlyIfNone(f, r.env, r.passwordEnv, r.password)

DesktopDecided ==
  stage \in {"network", "workspace", "docker", "created"} =>
    IF req.deskOn THEN HasDesktop(flags, req) ELSE Wins(flags, req.env, None)

\* Who shares the network of the gateway g leaves ports and hostname to it, and the
\* gateway has a port for the desktop.
FitsGateway(r, g) ==
  r.network = "vpn" =>
    /\ r.ports = <<>> /\ r.hostname = None /\ g # None
    /\ r.deskOn => HasPublishedPort(g, r.deskIP, r.deskPort, r.deskCPort)

NetworkDecided ==
  stage \in {"workspace", "docker", "created"} => FitsGateway(req, checked)

\* The workspace is mounted first, where nothing else is.
HasWorkspace(r) ==
  ~r.noWs =>
    /\ 1 \in DOMAIN r.volumes
    /\ r.volumes[1] = [source |-> "workspace", target |-> r.wsMount]
    /\ \A i \in DOMAIN r.volumes : i # 1 => r.volumes[i].target # r.wsMount

WorkspaceAttached == stage \in {"docker", "created"} => HasWorkspace(req)

\* The container is what was asked for, and what is shown was read from it.
Created ==
  /\ stage \in {"created", "served"} => container = [req EXCEPT !.ports = DockerPorts(@)]
  /\ shown # None =>
       /\ stage = "created"
       /\ shown.deskOn = container.deskOn
       /\ container.deskOn =>
            /\ \E e \in EndpointsRead : shown.ip = e[1] /\ shown.port = e[2]
            /\ shown.password = EnvValue(container.env, container.passwordEnv)

IRequests ==
  /\ Typed /\ Gateways /\ Shadowed /\ FlagsCount /\ Validated /\ DesktopDecided
  /\ NetworkDecided /\ WorkspaceAttached /\ EndpointCounts /\ Created

\* Gateways publish ports with a protocol.
LEMMA GatewaysAre ==
  ASSUME NEW r \in GatewayRequests
  PROVE  IsGateway(DockerPorts(GatewayPorts(r)))
<1>1. GatewayPorts(r) \in Seq(Ports)
  BY GatewayPortsType
<1>. QED
  BY <1>1, DockerPortsAre DEF IsGateway

\* It holds of a command that starts.
LEMMA InitIsFine == Init => IRequests
<1> SUFFICES ASSUME Init
             PROVE  IRequests
  OBVIOUS
<1>1. flags \in Flags /\ flags.command \in {"env", "service"} /\ library \in Libraries
  BY FlagsType DEF Init
<1>2. DefaultRequest \in EnvSpec(BOOLEAN, {Generated})
  BY DefaultsType, EnvSpecMonotonic
<1>3. Typed
  BY <1>1, <1>2, DefaultsType, MaxReplacedType DEF Init, Typed, EnvStages, ServiceStages
<1>4. Gateways
  <2>1. IsGateway(None)
    BY DEF IsGateway
  <2>2. \A g \in {DockerPorts(GatewayPorts(r)) : r \in GatewayRequests} : IsGateway(g)
    BY GatewaysAre
  <2>. QED
    BY <2>1, <2>2 DEF Init, Gateways
<1>5. stage \in {"profile", "template"} /\ profile = None /\ shown = None
  BY DEF Init
<1>. QED
  BY <1>3, <1>4, <1>5 DEF IRequests, Shadowed, FlagsCount, Validated, DesktopDecided,
                         NetworkDecided, WorkspaceAttached, EndpointCounts, Created

-----------------------------------------------------------------------------
(* Every step keeps it. *)

\* Before the container is there nothing is shown, and a step that leads nowhere near it
\* has no more to show.
LEMMA NothingShown ==
  ASSUME Created, stage # "created", UNCHANGED <<container, shown>>,
         stage' \notin {"created", "served"}
  PROVE  Created'
BY DEF Created

\* A command that is refused is at its end.
LEMMA RefuseKeeps ==
  ASSUME IRequests, Refuse, stage # "created"
  PROVE  IRequests'
<1>1. /\ stage' = "refused"
      /\ UNCHANGED <<profile, req, flags, library, gateway, checked, replaced, container, shown>>
  BY DEF Refuse, outside
<1>2. Typed' /\ Gateways'
  BY <1>1 DEF IRequests, Typed, Gateways, EnvStages, ServiceStages
<1>3. Shadowed'
  BY <1>1 DEF IRequests, Shadowed
<1>4. Created'
  BY <1>1, NothingShown DEF IRequests
<1>. QED
  BY <1>1, <1>2, <1>3, <1>4 DEF IRequests, FlagsCount, Validated, DesktopDecided,
                               NetworkDecided, WorkspaceAttached, EndpointCounts

\* Without a profile the request stays as it is.
LEMMA SkipProfileKeeps ==
  ASSUME IRequests, SkipProfile
  PROVE  IRequests'
<1>1. /\ stage = "profile" /\ stage' = "override"
      /\ UNCHANGED <<profile, req, flags, library, gateway, checked, replaced, container, shown>>
  BY DEF SkipProfile, At, outside
<1>2. Typed' /\ Gateways'
  BY <1>1 DEF IRequests, Typed, Gateways, EnvStages, ServiceStages
<1>3. Shadowed'
  BY <1>1 DEF IRequests, Shadowed
<1>4. Created'
  BY <1>1, NothingShown DEF IRequests
<1>5. EndpointCounts'
  <2>1. flags.command = "env"
    BY <1>1, FlagsType DEF IRequests, Typed, ServiceStages
  <2>2. profile = None /\ req.ports = <<>>
    BY <1>1, <2>1 DEF IRequests, Typed, EndpointCounts, DefaultRequest
  <2>. QED
    BY <1>1, <2>2 DEF EndpointCounts
<1>. QED
  BY <1>1, <1>2, <1>3, <1>4, <1>5 DEF IRequests, FlagsCount, Validated, DesktopDecided,
                               NetworkDecided, WorkspaceAttached

\* With a profile it is still one; a built-in profile is not one of the user's.
LEMMA LoadProfileKeeps ==
  ASSUME IRequests, LoadProfile
  PROVE  IRequests'
<1>1. /\ stage = "profile" /\ stage' = "override" /\ flags.profile # None
      /\ UNCHANGED <<flags, library, gateway, checked, replaced, container, shown>>
  BY DEF LoadProfile, At, outside
<1>2. PICK d \in Found(flags.profile) : profile' = d /\ req' = Applied(Parsed(d.spec), req)
  BY DEF LoadProfile
<1>3. flags \in Flags /\ library \in Libraries /\ flags.command \in {"env", "service"}
  BY FlagsType DEF IRequests, Typed
<1>4. flags.command = "env" /\ req \in EnvSpec(BOOLEAN, {})
  BY <1>1, <1>3 DEF IRequests, Typed, ServiceStages
<1>5. d # None /\ (d \in library.builtin => NoneMine(flags, library))
  BY <1>1, <1>3, FoundIs
<1>6. d.spec \in EnvSpec(Starts, {})
  BY <1>1, <1>3, <1>4, FoundSpec
<1>7. req' \in EnvSpec(BOOLEAN, {})
  BY <1>2, <1>4, <1>6, ParsedType, AppliedType
<1>8. req' \in EnvSpec(BOOLEAN, {Generated})
  BY <1>7, EnvSpecMonotonic
<1>9. Typed'
  BY <1>1, <1>3, <1>4, <1>7, <1>8 DEF IRequests, Typed, EnvStages
<1>10. Gateways'
  BY <1>1 DEF IRequests, Gateways
<1>11. Shadowed'
  BY <1>1, <1>2, <1>5 DEF Shadowed
<1>12. Created'
  BY <1>1, NothingShown DEF IRequests
<1>13. EndpointCounts'
  <2>1. req = DefaultRequest
    BY <1>1, <1>4 DEF IRequests, Typed
  <2>2. req'.ports = d.spec.ports
    BY <1>2, <1>6, <2>1, AppliedPorts
  <2>. QED
    BY <1>1, <1>2, <1>5, <2>2 DEF EndpointCounts
<1>. QED
  BY <1>1, <1>9, <1>10, <1>11, <1>12, <1>13 DEF IRequests, FlagsCount, Validated, DesktopDecided,
                                        NetworkDecided, WorkspaceAttached

\* So it is with a service template.
LEMMA LoadServiceKeeps ==
  ASSUME IRequests, LoadService
  PROVE  IRequests'
<1>1. /\ stage = "template" /\ stage' = "serviceoverride" /\ flags.profile # None
      /\ UNCHANGED <<flags, library, gateway, checked, replaced, container, shown>>
  BY DEF LoadService, At, outside
<1>2. PICK d \in Found(flags.profile) :
        profile' = d /\ req' = AppliedService(ParsedService(d), req)
  BY DEF LoadService
<1>3. flags \in Flags /\ library \in Libraries /\ flags.command \in {"env", "service"}
  BY FlagsType DEF IRequests, Typed
<1>4. flags.command = "service" /\ req \in ServiceSpec(BOOLEAN) /\ flags.profile # None
  BY <1>1, <1>3 DEF IRequests, Typed, EnvStages
<1>5. d # None /\ IsTemplate(d) /\ d.ok /\ (d \in library.builtin => NoneMine(flags, library))
  BY <1>3, <1>4, FoundIs
<1>6. d.spec \in ServiceSpec(Starts)
  BY <1>3, <1>4, FoundSpec
<1>7. req' \in ServiceSpec(BOOLEAN)
  BY <1>2, <1>4, <1>5, <1>6, ServiceTemplateType
<1>8. Typed'
  BY <1>1, <1>3, <1>4, <1>7 DEF IRequests, Typed, ServiceStages
<1>9. Gateways'
  BY <1>1 DEF IRequests, Gateways
<1>10. Shadowed'
  BY <1>1, <1>2, <1>5 DEF Shadowed
<1>11. Created'
  BY <1>1, NothingShown DEF IRequests
<1>. QED
  BY <1>1, <1>8, <1>9, <1>10, <1>11 DEF IRequests, FlagsCount, Validated, DesktopDecided,
                                       NetworkDecided, WorkspaceAttached, EndpointCounts

\* A name that is no template's is an image.
LEMMA ServiceFromImageKeeps ==
  ASSUME IRequests, ServiceFromImage
  PROVE  IRequests'
<1>1. /\ stage = "template" /\ stage' = "serviceoverride"
      /\ req' = [req EXCEPT !.image = flags.profile]
      /\ LooksUp(flags.profile) /\ Named(flags.profile) = {}
      /\ UNCHANGED <<profile, flags, library, gateway, checked, replaced, container, shown>>
  BY DEF ServiceFromImage, At, outside
<1>2. flags \in Flags /\ library \in Libraries /\ flags.command \in {"env", "service"}
  BY FlagsType DEF IRequests, Typed
<1>3. flags.command = "service" /\ req \in ServiceSpec(BOOLEAN) /\ flags.profile \in Given
  BY <1>1, <1>2, FlagsType DEF IRequests, Typed, EnvStages
<1>4. req' \in ServiceSpec(BOOLEAN)
  <2>1. req = [x \in ServiceFields |-> req[x]] /\ IsServiceSpec(req, BOOLEAN)
    BY <1>3, ServiceSpecIs
  <2>2. /\ req' = [x \in ServiceFields |-> req'[x]] /\ req'.image = flags.profile
        /\ \A x \in ServiceFields \ {"image"} : req'[x] = req[x]
    BY <1>1, <2>1, ServiceFieldsAre
  <2>3. IsServiceSpec(req', BOOLEAN)
    BY <1>3, <2>1, <2>2, ServiceFieldsAre DEF IsServiceSpec
  <2>. QED
    BY <2>2, <2>3 DEF ServiceSpec, IsServiceSpec, ServiceFields, Lists
<1>5. NoneMine(flags, library) /\ NoBuiltin(flags, library)
  <2>1. OfUser(flags.profile) = {} /\ OfBuiltin(flags.profile) = {}
    BY <1>1 DEF Named
  <2>2. NoBuiltin(flags, library)
    BY <2>1 DEF OfBuiltin, NoBuiltin, Kind, KindOf
  <2>. QED
    BY <1>1, <2>1, <2>2, NothingFound
<1>6. Typed'
  BY <1>1, <1>2, <1>3, <1>4 DEF IRequests, Typed, ServiceStages
<1>7. Gateways'
  BY <1>1 DEF IRequests, Gateways
<1>8. Shadowed'
  BY <1>1, <1>5 DEF IRequests, Shadowed
<1>9. Created'
  BY <1>1, NothingShown DEF IRequests
<1>. QED
  BY <1>1, <1>6, <1>7, <1>8, <1>9 DEF IRequests, FlagsCount, Validated, DesktopDecided,
                                     NetworkDecided, WorkspaceAttached, EndpointCounts

\* From now on the flags are in the request.
LEMMA OverrideKeeps ==
  ASSUME IRequests, Override
  PROVE  IRequests'
<1>1. /\ stage = "override" /\ stage' = "engine" /\ req' = Overridden(req)
      /\ UNCHANGED <<profile, flags, library, gateway, checked, replaced, container, shown>>
  BY DEF Override, At, outside
<1>2. flags \in Flags /\ library \in Libraries /\ flags.command \in {"env", "service"}
  BY FlagsType DEF IRequests, Typed
<1>3. flags.command = "env" /\ req \in EnvSpec(BOOLEAN, {})
  BY <1>1, <1>2 DEF IRequests, Typed, ServiceStages
<1>4. Overridden(req) \in EnvSpec(BOOLEAN, {})
  BY <1>2, <1>3, OverriddenType
<1>5. Overridden(req) \in EnvSpec(BOOLEAN, {Generated})
  BY <1>4, EnvSpecMonotonic
<1>6. Typed'
  BY <1>1, <1>2, <1>3, <1>4, <1>5 DEF IRequests, Typed, EnvStages
<1>7. Gateways' /\ Shadowed'
  BY <1>1 DEF IRequests, Gateways, Shadowed
<1>8. /\ Asked(flags, Overridden(req)) /\ EndsWithGiven(flags, Overridden(req).env)
      /\ EndpointGiven(flags, Overridden(req))
  BY <1>2, <1>3, OverriddenAsked
<1>9. FlagsCount'
  BY <1>1, <1>8 DEF FlagsCount
<1>10. Created'
  BY <1>1, NothingShown DEF IRequests
<1>11. EndpointCounts'
  <2>1. Overridden(req).ports = req.ports \o flags.values.ports
    BY OverriddenIs
  <2>2. req.ports = IF profile = None THEN <<>> ELSE profile.spec.ports
    BY <1>1 DEF IRequests, EndpointCounts
  <2>3. Overridden(req).ports = PortsAsked(flags, profile)
    BY <2>1, <2>2 DEF PortsAsked
  <2>. QED
    BY <1>1, <1>8, <2>3 DEF EndpointCounts
<1>. QED
  BY <1>1, <1>6, <1>7, <1>9, <1>10, <1>11 DEF IRequests, Validated, DesktopDecided,
                                             NetworkDecided, WorkspaceAttached

\* So they are in a service's.
LEMMA OverrideServiceKeeps ==
  ASSUME IRequests, OverrideService
  PROVE  IRequests'
<1>1. /\ stage = "serviceoverride" /\ stage' = "serviceengine" /\ req' = OverriddenService(req)
      /\ UNCHANGED <<profile, flags, library, gateway, checked, replaced, container, shown>>
  BY DEF OverrideService, At, outside
<1>2. flags \in Flags /\ library \in Libraries /\ flags.command \in {"env", "service"}
  BY FlagsType DEF IRequests, Typed
<1>3. flags.command = "service" /\ req \in ServiceSpec(BOOLEAN)
  BY <1>1, <1>2 DEF IRequests, Typed, EnvStages
<1>4. /\ OverriddenService(req) \in ServiceSpec(BOOLEAN)
      /\ ServiceAsked(flags, OverriddenService(req))
  BY <1>2, <1>3, ServiceOverridden
<1>5. Typed'
  BY <1>1, <1>2, <1>3, <1>4 DEF IRequests, Typed, ServiceStages
<1>6. Gateways' /\ Shadowed'
  BY <1>1 DEF IRequests, Gateways, Shadowed
<1>7. FlagsCount'
  BY <1>1, <1>4 DEF FlagsCount
<1>8. Created'
  BY <1>1, NothingShown DEF IRequests
<1>. QED
  BY <1>1, <1>5, <1>6, <1>7, <1>8 DEF IRequests, Validated, DesktopDecided, NetworkDecided,
                                     WorkspaceAttached, EndpointCounts

\* What passes is valid, and still has the flags.
LEMMA ValidateKeeps ==
  ASSUME IRequests, Validate
  PROVE  IRequests'
<1>1. stage = "engine"
  BY DEF Validate, At
<1>2. CASE Valid(Normalized(req))
  <2> DEFINE n == Normalized(req)
  <2>1. /\ stage' = "desktop" /\ req' = n
        /\ UNCHANGED <<profile, flags, library, gateway, checked, replaced, container, shown>>
    BY <1>2 DEF Validate, outside
  <2>2. flags \in Flags /\ library \in Libraries /\ flags.command \in {"env", "service"}
    BY FlagsType DEF IRequests, Typed
  <2>3. flags.command = "env" /\ req \in EnvSpec(BOOLEAN, {})
    BY <1>1, <2>2 DEF IRequests, Typed, ServiceStages
  <2>4. n \in EnvSpec(BOOLEAN, {})
    BY <2>3, NormalizedIs
  <2>5. n \in EnvSpec(BOOLEAN, {Generated})
    BY <2>4, EnvSpecMonotonic
  <2>6. Typed'
    BY <2>1, <2>2, <2>3, <2>4, <2>5 DEF IRequests, Typed, EnvStages
  <2>7. Gateways' /\ Shadowed'
    BY <1>1, <2>1 DEF IRequests, Gateways, Shadowed
  <2>8. /\ Asked(flags, n) /\ EndsWithGiven(flags, n.env)
        /\ EndpointGiven(flags, n) /\ n.ports = req.ports
    BY <1>1, <2>3, NormalizedAsked DEF IRequests, FlagsCount, EndpointCounts
  <2>9. FlagsCount'
    BY <2>1, <2>8 DEF FlagsCount
  <2>10. Validated'
    BY <1>2, <2>1 DEF Validated, IsValid, Valid, ListsValid, HostsNamed
  <2>11. Created'
    BY <1>1, <2>1, NothingShown DEF IRequests
  <2>12. EndpointCounts'
    BY <1>1, <2>1, <2>8 DEF IRequests, EndpointCounts
  <2>. QED
    BY <2>1, <2>6, <2>7, <2>9, <2>10, <2>11, <2>12 DEF IRequests, DesktopDecided,
                                                      NetworkDecided, WorkspaceAttached
<1>3. CASE ~Valid(Normalized(req))
  BY <1>1, <1>3, RefuseKeeps DEF Validate
<1>. QED
  BY <1>2, <1>3

\* A service's request is passed on as it is.
LEMMA ValidateServiceKeeps ==
  ASSUME IRequests, ValidateService
  PROVE  IRequests'
<1>1. stage = "serviceengine"
  BY DEF ValidateService, At
<1>2. CASE Refuse
  BY <1>1, <1>2, RefuseKeeps
<1>3. CASE /\ stage' = "servicedocker"
           /\ UNCHANGED <<profile, req, flags, library, gateway, checked, replaced, container,
                          shown>>
  <2>1. flags.command # "env"
    BY <1>1 DEF IRequests, Typed, EnvStages
  <2>2. Typed' /\ Gateways'
    BY <1>3, <2>1 DEF IRequests, Typed, ServiceStages, Gateways
  <2>3. Shadowed' /\ FlagsCount'
    BY <1>1, <1>3 DEF IRequests, Shadowed, FlagsCount
  <2>4. Created'
    BY <1>1, <1>3, NothingShown DEF IRequests
  <2>. QED
    BY <1>3, <2>2, <2>3, <2>4 DEF IRequests, Validated, DesktopDecided, NetworkDecided,
                                 WorkspaceAttached, EndpointCounts
<1>. QED
  BY <1>2, <1>3 DEF ValidateService, outside

\* When the desktop is decided on, it has all that it needs.
LEMMA DesktopMade ==
  ASSUME flags \in Flags, NEW r \in EnvSpec(BOOLEAN, {}), HostsNamed(r.ports),
         EndsWithGiven(flags, r.env)
  PROVE  HasDesktop(flags, DesktopOf(r))
<1> DEFINE d   == DesktopOf(r)
           key == PasswordKey(r)
<1>1. /\ Endpoint(d) /\ (r.network # "vpn" => Reaches(d.ports, d.deskCPort))
      /\ d.passwordEnv = key /\ d.password = PasswordOf(r)
      /\ d.env = UpsertEnv(r.env, key, PasswordOf(r)) /\ d.network = r.network
  BY DesktopOfIs
<1>2. key \in Given /\ PasswordOf(r) \in Given \cup {Generated}
  BY WithPasswordIs
<1>3. IsEnv(r.env)
  BY EnvSpecIs, GivenIsEnv DEF IsEnvSpec
<1>4. EnvValue(UpsertEnv(r.env, key, PasswordOf(r)), key) = PasswordOf(r)
  BY <1>2, <1>3, UpsertSets
<1>5. Wins(flags, UpsertEnv(r.env, key, PasswordOf(r)), key)
  BY <1>2, OthersWin
<1>6. MadeOnlyIfNone(flags, UpsertEnv(r.env, key, PasswordOf(r)), key, PasswordOf(r))
  BY PasswordMade
<1> HIDE DEF d, key
<1>7. HasDesktop(flags, d)
  BY <1>1, <1>4, <1>5, <1>6 DEF HasDesktop
<1>. QED
  BY <1>7 DEF d

\* From now on the desktop has its endpoint and password.
LEMMA ApplyDesktopKeeps ==
  ASSUME IRequests, ApplyDesktop
  PROVE  IRequests'
<1> DEFINE r == IF req.deskOn THEN DesktopOf(req) ELSE req
<1>1. /\ stage = "desktop" /\ stage' = "network" /\ req' = r
      /\ UNCHANGED <<profile, flags, library, gateway, checked, replaced, container, shown>>
  BY DEF ApplyDesktop, At, outside
<1>2. flags \in Flags /\ library \in Libraries /\ flags.command \in {"env", "service"}
  BY FlagsType DEF IRequests, Typed
<1>3. flags.command = "env" /\ req \in EnvSpec(BOOLEAN, {})
  BY <1>1, <1>2 DEF IRequests, Typed, ServiceStages
<1>4. IsValid(req) /\ Asked(flags, req) /\ EndsWithGiven(flags, req.env) /\ HostsNamed(req.ports)
  BY <1>1 DEF IRequests, Validated, FlagsCount, IsValid
<1>5. EndpointGiven(flags, req) /\ req.ports = PortsAsked(flags, profile)
  BY <1>1 DEF IRequests, EndpointCounts
<1>6. CASE req.deskOn
  <2>1. r \in EnvSpec(BOOLEAN, {Generated}) /\ r.deskOn
    BY <1>3, <1>4, <1>6, DesktopOfIs
  <2>2. IsValid(r)
    <3>1. r.network = req.network /\ r.vpn = req.vpn /\ HostsNamed(r.ports)
      BY <1>3, <1>4, <1>6, DesktopOfIs
    <3>. QED
      BY <1>4, <3>1 DEF IsValid
  <2>3. Asked(flags, r) /\ EndpointAsked(flags, PortsAsked(flags, profile), r)
    BY <1>3, <1>4, <1>5, <1>6, DesktopAsked
  <2>4. HasDesktop(flags, r)
    BY <1>2, <1>3, <1>4, <1>6, DesktopMade
  <2>. QED
    <3> HIDE DEF r
    <3>1. Typed'
      BY <1>1, <1>2, <1>3, <2>1 DEF IRequests, Typed, EnvStages
    <3>2. Gateways' /\ Shadowed'
      BY <1>1 DEF IRequests, Gateways, Shadowed
    <3>3. FlagsCount' /\ Validated' /\ DesktopDecided'
      BY <1>1, <2>1, <2>2, <2>3, <2>4 DEF FlagsCount, Validated, DesktopDecided
    <3>4. Created'
      BY <1>1, NothingShown DEF IRequests
    <3>5. EndpointCounts'
      BY <1>1, <2>3 DEF EndpointCounts
    <3>. QED
      BY <1>1, <3>1, <3>2, <3>3, <3>4, <3>5 DEF IRequests, NetworkDecided, WorkspaceAttached
<1>7. CASE ~req.deskOn
  <2>1. req' = req
    BY <1>1, <1>7
  <2>2. req \in EnvSpec(BOOLEAN, {Generated})
    BY <1>3, EnvSpecMonotonic
  <2>3. Wins(flags, req.env, None)
    BY <1>2, <1>4, LastOnesWin
  <2> HIDE DEF r
  <2>4. Typed'
    BY <1>1, <1>2, <1>3, <2>1, <2>2 DEF IRequests, Typed, EnvStages
  <2>5. Gateways' /\ Shadowed'
    BY <1>1 DEF IRequests, Gateways, Shadowed
  <2>6. FlagsCount' /\ Validated' /\ DesktopDecided'
    BY <1>1, <1>4, <1>7, <2>1, <2>3 DEF FlagsCount, Validated, DesktopDecided
  <2>7. Created'
    BY <1>1, NothingShown DEF IRequests
  <2>8. EndpointCounts'
    BY <1>1, <1>7, <2>1 DEF EndpointCounts
  <2>. QED
    BY <1>1, <2>4, <2>5, <2>6, <2>7, <2>8 DEF IRequests, NetworkDecided, WorkspaceAttached
<1>. QED
  BY <1>6, <1>7

\* A request s that differs from r in no more than hostname, network name, workspace name and
\* volumes.
SameButMounts(r, s) ==
  \A x \in Fields \ {"hostname", "networkName", "wsName", "volumes"} : s[x] = r[x]

\* Names that were given are kept, hostname and network name but for the gateway's network.
KeepsNames(r, s) ==
  /\ r.wsName # None => s.wsName = r.wsName
  /\ r.network # "vpn" =>
       /\ s.hostname = r.hostname
       /\ r.networkName # None => s.networkName = r.networkName

\* What a request says of desktop, network and variables is what it said before.
LEMMA SameRequest ==
  ASSUME NEW f, NEW r, NEW s, SameButMounts(r, s)
  PROVE  /\ IsValid(r) => IsValid(s)
         /\ HasDesktop(f, r) => HasDesktop(f, s)
         /\ s.deskOn = r.deskOn /\ s.env = r.env /\ s.network = r.network
         /\ s.ports = r.ports /\ s.noWs = r.noWs /\ s.wsMount = r.wsMount
         /\ Asked(f, r) /\ KeepsNames(r, s) => Asked(f, s)
         /\ \A ports : EndpointAsked(f, ports, r) => EndpointAsked(f, ports, s)
<1>1. /\ s.deskOn = r.deskOn /\ s.env = r.env /\ s.network = r.network /\ s.vpn = r.vpn
      /\ s.ports = r.ports /\ s.noWs = r.noWs /\ s.wsMount = r.wsMount /\ s.image = r.image
      /\ s.start = r.start /\ s.password = r.password /\ s.passwordEnv = r.passwordEnv
      /\ s.deskIP = r.deskIP /\ s.deskPort = r.deskPort /\ s.deskCPort = r.deskCPort
  BY FieldsAre DEF SameButMounts
<1>2. IsValid(r) => IsValid(s)
  BY <1>1 DEF IsValid
<1>3. HasDesktop(f, r) => HasDesktop(f, s)
  BY <1>1 DEF HasDesktop, Endpoint
<1>4. Asked(f, r) /\ KeepsNames(r, s) => Asked(f, s)
  BY <1>1 DEF Asked, KeepsNames
<1>5. \A ports : EndpointAsked(f, ports, r) => EndpointAsked(f, ports, s)
  BY <1>1 DEF EndpointAsked
<1>. QED
  BY <1>1, <1>2, <1>3, <1>4, <1>5

\* A name for the network is all that changes.
LEMMA NamedNetwork ==
  ASSUME NEW r \in EnvSpec(BOOLEAN, {Generated}), NEW n \in Given
  PROVE  LET s == [r EXCEPT !.networkName = n]
         IN /\ s \in EnvSpec(BOOLEAN, {Generated}) /\ SameButMounts(r, s)
            /\ s.networkName = n /\ s.hostname = r.hostname /\ s.wsName = r.wsName
<1> DEFINE s == [r EXCEPT !.networkName = n]
<1>1. r = [x \in Fields |-> r[x]] /\ IsEnvSpec(r, BOOLEAN, {Generated})
  BY EnvSpecIs
<1>2. /\ s = [x \in Fields |-> s[x]] /\ s.networkName = n
      /\ \A x \in Fields \ {"networkName"} : s[x] = r[x]
  BY <1>1, FieldsAre
<1> HIDE DEF s
<1>3. IsEnvSpec(s, BOOLEAN, {Generated})
  BY <1>1, <1>2, FieldsAre DEF IsEnvSpec
<1>. QED
  BY <1>2, <1>3, EnvSpecIs, FieldsAre DEF SameButMounts, s

\* A network without a gateway changes a name at most.
LEMMA PlainNetworkKeeps ==
  ASSUME IRequests, PlainNetwork
  PROVE  IRequests'
<1> DEFINE n == IF req.network = "segment" THEN Or(req.networkName, "contaigen-lab")
                ELSE req.networkName
           s == [req EXCEPT !.networkName = n]
<1>1. /\ stage = "network" /\ stage' = "workspace" /\ req.network # "vpn" /\ req' = s
      /\ UNCHANGED <<profile, flags, library, gateway, checked, replaced, container, shown>>
  BY DEF PlainNetwork, At, outside
<1>2. flags \in Flags /\ library \in Libraries /\ flags.command \in {"env", "service"}
  BY FlagsType DEF IRequests, Typed
<1>3. flags.command = "env" /\ req \in EnvSpec(BOOLEAN, {Generated})
  BY <1>1, <1>2 DEF IRequests, Typed, ServiceStages
<1>4. n \in Given
  BY <1>3, EnvSpecIs, DefaultsAreGiven DEF IsEnvSpec, Or
<1>5. /\ s \in EnvSpec(BOOLEAN, {Generated}) /\ SameButMounts(req, s) /\ s.networkName = n
      /\ s.hostname = req.hostname /\ s.wsName = req.wsName
  BY <1>3, <1>4, NamedNetwork
<1>6. IsValid(req) /\ Asked(flags, req)
  BY <1>1 DEF IRequests, Validated, FlagsCount
<1>7. IF req.deskOn THEN HasDesktop(flags, req) ELSE Wins(flags, req.env, None)
  BY <1>1 DEF IRequests, DesktopDecided
<1>8. /\ s.deskOn = req.deskOn /\ s.env = req.env /\ s.network = req.network
  BY <1>5, FieldsAre DEF SameButMounts
<1>9. Asked(flags, s)
  <2>1. KeepsNames(req, s)
    BY <1>5 DEF KeepsNames, Or
  <2>. QED
    BY <1>5, <1>6, <2>1, SameRequest
<1>10. IsValid(s) /\ (HasDesktop(flags, req) => HasDesktop(flags, s))
  BY <1>5, <1>6, SameRequest
<1> HIDE DEF s
<1>11. Typed'
  BY <1>1, <1>2, <1>3, <1>5 DEF IRequests, Typed, EnvStages
<1>12. Gateways' /\ Shadowed'
  BY <1>1 DEF IRequests, Gateways, Shadowed
<1>13. FlagsCount' /\ Validated' /\ DesktopDecided'
  BY <1>1, <1>7, <1>8, <1>9, <1>10 DEF FlagsCount, Validated, DesktopDecided
<1>14. NetworkDecided'
  BY <1>1, <1>8 DEF NetworkDecided, FitsGateway
<1>15. Created'
  BY <1>1, NothingShown DEF IRequests
<1>16. EndpointCounts'
  <2>1. req.deskOn => EndpointAsked(flags, PortsAsked(flags, profile), req)
    BY <1>1 DEF IRequests, EndpointCounts
  <2>2. s.deskOn => EndpointAsked(flags, PortsAsked(flags, profile), s)
    BY <1>5, <1>8, <2>1, SameRequest
  <2>. QED
    BY <1>1, <2>2 DEF EndpointCounts
<1>. QED
  BY <1>1, <1>11, <1>12, <1>13, <1>14, <1>15, <1>16 DEF IRequests, WorkspaceAttached

\* Network and hostname are the gateway's.
LEMMA VPNNetworkIs ==
  ASSUME NEW r \in EnvSpec(BOOLEAN, {Generated})
  PROVE  LET s == VPNNetworkOf(r)
         IN /\ s \in EnvSpec(BOOLEAN, {Generated}) /\ SameButMounts(r, s)
            /\ s.hostname = None /\ s.wsName = r.wsName
<1> DEFINE s == VPNNetworkOf(r)
<1>1. r = [x \in Fields |-> r[x]] /\ IsEnvSpec(r, BOOLEAN, {Generated})
  BY EnvSpecIs
<1>2. /\ s = [x \in Fields |-> s[x]] /\ s.networkName = r.vpn /\ s.hostname = None
      /\ \A x \in Fields \ {"networkName", "hostname"} : s[x] = r[x]
  BY <1>1, FieldsAre DEF VPNNetworkOf
<1> HIDE DEF s
<1>3. IsEnvSpec(s, BOOLEAN, {Generated})
  BY <1>1, <1>2, FieldsAre, DefaultsAreGiven DEF IsEnvSpec
<1>. QED
  BY <1>2, <1>3, EnvSpecIs, FieldsAre DEF SameButMounts, s

\* From now on the request fits the gateway that was looked at.
LEMMA VPNNetworkKeeps ==
  ASSUME IRequests, VPNNetwork
  PROVE  IRequests'
<1> DEFINE s == VPNNetworkOf(req)
<1>1. stage = "network" /\ req.network = "vpn"
  BY DEF VPNNetwork, At
<1>2. CASE Refuse
  BY <1>1, <1>2, RefuseKeeps
<1>3. CASE /\ req.vpn = "corp" /\ gateway # None
           /\ req.deskOn => HasPublishedPort(gateway, req.deskIP, req.deskPort, req.deskCPort)
           /\ req.ports = <<>>
           /\ req' = s /\ checked' = gateway /\ stage' = "workspace"
           /\ UNCHANGED <<profile, flags, library, gateway, replaced, container, shown>>
  <2>1. flags \in Flags /\ library \in Libraries /\ flags.command \in {"env", "service"}
    BY FlagsType DEF IRequests, Typed
  <2>2. flags.command = "env" /\ req \in EnvSpec(BOOLEAN, {Generated})
    BY <1>1, <2>1 DEF IRequests, Typed, ServiceStages
  <2>3. /\ s \in EnvSpec(BOOLEAN, {Generated}) /\ SameButMounts(req, s) /\ s.hostname = None
        /\ s.wsName = req.wsName
    BY <2>2, VPNNetworkIs
  <2>4. /\ IsValid(req) /\ Asked(flags, req)
        /\ IF req.deskOn THEN HasDesktop(flags, req) ELSE Wins(flags, req.env, None)
    BY <1>1 DEF IRequests, Validated, FlagsCount, DesktopDecided
  <2>5. /\ s.deskOn = req.deskOn /\ s.env = req.env /\ s.ports = req.ports
        /\ s.deskIP = req.deskIP /\ s.deskPort = req.deskPort /\ s.deskCPort = req.deskCPort
    BY <2>3, FieldsAre DEF SameButMounts
  <2>6. IsValid(s) /\ Asked(flags, s) /\ (HasDesktop(flags, req) => HasDesktop(flags, s))
    <3>1. KeepsNames(req, s)
      BY <1>1, <2>3 DEF KeepsNames
    <3>. QED
      BY <2>3, <2>4, <3>1, SameRequest
  <2> HIDE DEF s
  <2>7. Typed'
    BY <1>3, <2>1, <2>2, <2>3 DEF IRequests, Typed, EnvStages
  <2>8. Gateways' /\ Shadowed'
    BY <1>1, <1>3 DEF IRequests, Gateways, Shadowed
  <2>9. FlagsCount' /\ Validated' /\ DesktopDecided'
    BY <1>3, <2>4, <2>5, <2>6 DEF FlagsCount, Validated, DesktopDecided
  <2>10. NetworkDecided'
    BY <1>3, <2>3, <2>5 DEF NetworkDecided, FitsGateway
  <2>11. Created'
    BY <1>1, <1>3, NothingShown DEF IRequests
  <2>12. EndpointCounts'
    <3>1. req.deskOn => EndpointAsked(flags, PortsAsked(flags, profile), req)
      BY <1>1 DEF IRequests, EndpointCounts
    <3>2. s.deskOn => EndpointAsked(flags, PortsAsked(flags, profile), s)
      BY <2>3, <2>5, <3>1, SameRequest
    <3>. QED
      BY <1>3, <3>2 DEF EndpointCounts
  <2>. QED
    BY <1>3, <2>7, <2>8, <2>9, <2>10, <2>11, <2>12 DEF IRequests, WorkspaceAttached
<1>. QED
  BY <1>2, <1>3 DEF VPNNetwork

\* A command that finds no template, or a file that does not parse, is at its end.
LEMMA ProfileRefusedKeeps ==
  ASSUME IRequests, ProfileRefused
  PROVE  IRequests'
BY RefuseKeeps DEF ProfileRefused, At

\* So is service add.
LEMMA TemplateRefusedKeeps ==
  ASSUME IRequests, TemplateRefused
  PROVE  IRequests'
BY RefuseKeeps DEF TemplateRefused, At

\* The request r with the workspace mounted first.
MountedIn(r) ==
  [r EXCEPT !.wsName  = Or(@, "lab"),
            !.volumes = <<[source |-> "workspace", target |-> r.wsMount]>> \o @]

\* Where nothing else is mounted there, the workspace is.
LEMMA WorkspaceMounted ==
  ASSUME NEW r \in EnvSpec(BOOLEAN, {Generated}),
         \A i \in DOMAIN r.volumes : r.volumes[i].target # r.wsMount
  PROVE  /\ MountedIn(r) \in EnvSpec(BOOLEAN, {Generated})
         /\ SameButMounts(r, MountedIn(r)) /\ MountedIn(r).networkName = r.networkName
         /\ MountedIn(r).hostname = r.hostname /\ KeepsNames(r, MountedIn(r))
         /\ HasWorkspace(MountedIn(r))
<1> DEFINE s == MountedIn(r)
           v == [source |-> "workspace", target |-> r.wsMount]
           w == <<v>> \o r.volumes
<1>1. r = [x \in Fields |-> r[x]] /\ IsEnvSpec(r, BOOLEAN, {Generated})
  BY EnvSpecIs
<1>2. r.volumes \in Seq(Volumes) /\ r.wsMount \in Given /\ r.wsName \in Given
  BY <1>1 DEF IsEnvSpec
<1>3. v \in Volumes /\ <<v>> \in Seq(Volumes) /\ Len(<<v>>) = 1 /\ <<v>>[1] = v
  BY <1>2, DefaultsAreGiven DEF Volumes
<1>4. Or(r.wsName, "lab") \in Given
  BY <1>2, DefaultsAreGiven, OrType
<1>5. /\ s = [x \in Fields |-> s[x]]
      /\ s.wsName = Or(r.wsName, "lab") /\ s.volumes = w
      /\ \A x \in Fields \ {"wsName", "volumes"} : s[x] = r[x]
  BY <1>1, FieldsAre DEF MountedIn
<1> HIDE DEF s, v
<1>6. /\ w \in Seq(Volumes) /\ Len(w) = 1 + Len(r.volumes)
      /\ \A i \in 1..Len(w) : w[i] = IF i <= 1 THEN <<v>>[i] ELSE r.volumes[i - 1]
  BY <1>2, <1>3, ConcatProperties
<1> HIDE DEF w
<1>7. /\ Len(r.volumes) \in Nat /\ DOMAIN r.volumes = 1..Len(r.volumes)
      /\ DOMAIN w = 1..Len(w)
  BY <1>2, <1>6, LenProperties
<1>8. 1 \in DOMAIN w /\ w[1] = v
  BY <1>3, <1>6, <1>7
<1>9. \A i \in DOMAIN w : i # 1 => w[i].target # r.wsMount
  <2>1. \A i \in DOMAIN w : i # 1 => i - 1 \in DOMAIN r.volumes /\ w[i] = r.volumes[i - 1]
    BY <1>6, <1>7
  <2>. QED
    BY <2>1
<1>10. IsEnvSpec(s, BOOLEAN, {Generated})
  BY <1>1, <1>4, <1>5, <1>6, FieldsAre DEF IsEnvSpec
<1>11. s \in EnvSpec(BOOLEAN, {Generated})
  BY <1>5, <1>10, EnvSpecIs DEF s
<1>12. s.networkName = r.networkName /\ s.hostname = r.hostname /\ s.wsMount = r.wsMount
  BY <1>5, FieldsAre
<1>13. HasWorkspace(s)
  BY <1>5, <1>8, <1>9, <1>12 DEF HasWorkspace, v
<1>14. SameButMounts(r, s)
  BY <1>5 DEF SameButMounts
<1>15. KeepsNames(r, s)
  BY <1>5, <1>12 DEF KeepsNames, Or
<1>. QED
  BY <1>11, <1>12, <1>13, <1>14, <1>15 DEF s

\* The workspace is mounted where nothing else is, or not at all.
LEMMA AttachWorkspaceKeeps ==
  ASSUME IRequests, AttachWorkspace
  PROVE  IRequests'
<1> DEFINE s == IF req.noWs THEN req ELSE MountedIn(req)
<1>1. stage = "workspace"
  BY DEF AttachWorkspace, At
<1>2. CASE Refuse
  BY <1>1, <1>2, RefuseKeeps
<1>3. CASE /\ ~req.noWs => FreeTarget
           /\ req' = s /\ stage' = "docker"
           /\ UNCHANGED <<profile, flags, library, gateway, checked, replaced, container, shown>>
  <2>1. flags \in Flags /\ library \in Libraries /\ flags.command \in {"env", "service"}
    BY FlagsType DEF IRequests, Typed
  <2>2. flags.command = "env" /\ req \in EnvSpec(BOOLEAN, {Generated})
    BY <1>1, <2>1 DEF IRequests, Typed, ServiceStages
  <2>3. /\ s \in EnvSpec(BOOLEAN, {Generated}) /\ SameButMounts(req, s)
        /\ s.networkName = req.networkName /\ s.hostname = req.hostname /\ HasWorkspace(s)
        /\ KeepsNames(req, s)
    <3>1. CASE req.noWs
      BY <2>2, <3>1 DEF SameButMounts, HasWorkspace, KeepsNames
    <3>2. CASE ~req.noWs
      BY <1>3, <2>2, <3>2, WorkspaceMounted DEF FreeTarget
    <3>. QED
      BY <3>1, <3>2
  <2>4. /\ IsValid(req) /\ Asked(flags, req) /\ FitsGateway(req, checked)
        /\ IF req.deskOn THEN HasDesktop(flags, req) ELSE Wins(flags, req.env, None)
    BY <1>1 DEF IRequests, Validated, FlagsCount, DesktopDecided, NetworkDecided
  <2>5. /\ s.deskOn = req.deskOn /\ s.env = req.env /\ s.ports = req.ports
        /\ s.network = req.network
        /\ s.deskIP = req.deskIP /\ s.deskPort = req.deskPort /\ s.deskCPort = req.deskCPort
    BY <2>3, FieldsAre DEF SameButMounts
  <2>6. IsValid(s) /\ Asked(flags, s) /\ (HasDesktop(flags, req) => HasDesktop(flags, s))
    BY <2>3, <2>4, SameRequest
  <2> HIDE DEF s
  <2>7. Typed'
    BY <1>3, <2>1, <2>2, <2>3 DEF IRequests, Typed, EnvStages
  <2>8. Gateways' /\ Shadowed'
    BY <1>1, <1>3 DEF IRequests, Gateways, Shadowed
  <2>9. FlagsCount' /\ Validated' /\ DesktopDecided'
    BY <1>3, <2>4, <2>5, <2>6 DEF FlagsCount, Validated, DesktopDecided
  <2>10. NetworkDecided' /\ WorkspaceAttached'
    BY <1>3, <2>3, <2>4, <2>5 DEF NetworkDecided, FitsGateway, WorkspaceAttached
  <2>11. Created'
    BY <1>1, <1>3, NothingShown DEF IRequests
  <2>12. EndpointCounts'
    <3>1. req.deskOn => EndpointAsked(flags, PortsAsked(flags, profile), req)
      BY <1>1 DEF IRequests, EndpointCounts
    <3>2. s.deskOn => EndpointAsked(flags, PortsAsked(flags, profile), s)
      BY <2>3, <2>5, <3>1, SameRequest
    <3>. QED
      BY <1>3, <3>2 DEF EndpointCounts
  <2>. QED
    BY <2>7, <2>8, <2>9, <2>10, <2>11, <2>12 DEF IRequests
<1>. QED
  BY <1>2, <1>3 DEF AttachWorkspace, MountedIn, outside

\* The container is the request, once Docker takes it.
LEMMA CreateContainerKeeps ==
  ASSUME IRequests, CreateContainer
  PROVE  IRequests'
<1>1. stage = "docker"
  BY DEF CreateContainer, At
<1>2. CASE Refuse
  BY <1>1, <1>2, RefuseKeeps
<1>3. CASE /\ container' = [req EXCEPT !.ports = DockerPorts(@)] /\ stage' = "created"
           /\ UNCHANGED <<flags, library, profile, req, gateway, checked, replaced, shown>>
  <2>1. Typed' /\ Gateways'
    BY <1>1, <1>3 DEF IRequests, Typed, Gateways, EnvStages, ServiceStages
  <2>2. Shadowed' /\ FlagsCount' /\ Validated' /\ DesktopDecided' /\ NetworkDecided'
    BY <1>1, <1>3 DEF IRequests, Shadowed, FlagsCount, Validated, DesktopDecided,
                      NetworkDecided
  <2>3. WorkspaceAttached'
    BY <1>1, <1>3 DEF IRequests, WorkspaceAttached
  <2>4. shown = None
    BY <1>1 DEF IRequests, Created
  <2>5. Created'
    BY <1>3, <2>4 DEF Created
  <2>6. EndpointCounts'
    BY <1>1, <1>3 DEF IRequests, EndpointCounts
  <2>. QED
    BY <2>1, <2>2, <2>3, <2>5, <2>6 DEF IRequests
<1>. QED
  BY <1>2, <1>3 DEF CreateContainer

\* So it is with a service.
LEMMA CreateServiceKeeps ==
  ASSUME IRequests, CreateService
  PROVE  IRequests'
<1>1. stage = "servicedocker"
  BY DEF CreateService, At
<1>2. CASE Refuse
  BY <1>1, <1>2, RefuseKeeps
<1>3. CASE /\ container' = [req EXCEPT !.ports = DockerPorts(@)] /\ stage' = "served"
           /\ UNCHANGED <<flags, library, profile, req, gateway, checked, replaced, shown>>
  <2>0. flags.command # "env"
    BY <1>1 DEF IRequests, Typed, EnvStages
  <2>1. Typed' /\ Gateways'
    BY <1>3, <2>0 DEF IRequests, Typed, Gateways, ServiceStages
  <2>2. Shadowed' /\ FlagsCount'
    BY <1>1, <1>3 DEF IRequests, Shadowed, FlagsCount
  <2>4. shown = None
    BY <1>1 DEF IRequests, Created
  <2>5. Created'
    BY <1>3, <2>4 DEF Created
  <2>. QED
    BY <1>3, <2>1, <2>2, <2>5 DEF IRequests, Validated, DesktopDecided, NetworkDecided,
                                 WorkspaceAttached, EndpointCounts
<1>. QED
  BY <1>2, <1>3 DEF CreateService

\* What is shown was read from the container.
LEMMA InspectEnvironmentKeeps ==
  ASSUME IRequests, InspectEnvironment
  PROVE  IRequests'
<1>1. /\ stage = "created"
      /\ UNCHANGED <<stage, flags, library, profile, req, gateway, checked, replaced, container>>
  BY DEF InspectEnvironment, At
<1>2. PICK e \in IF container.deskOn THEN EndpointsRead ELSE {<<None, None>>} :
        shown' = [deskOn |-> container.deskOn, ip |-> e[1], port |-> e[2],
                  password |-> IF container.deskOn
                               THEN EnvValue(container.env, container.passwordEnv) ELSE None]
  BY DEF InspectEnvironment
<1>3. /\ shown'.deskOn = container.deskOn /\ shown'.ip = e[1] /\ shown'.port = e[2]
      /\ container.deskOn =>
           /\ e \in EndpointsRead
           /\ shown'.password = EnvValue(container.env, container.passwordEnv)
  BY <1>2
<1>4. EndpointsRead' = EndpointsRead
  BY <1>1 DEF EndpointsRead
<1>5. Created'
  BY <1>1, <1>3, <1>4 DEF IRequests, Created
<1>6. Typed' /\ Gateways' /\ Shadowed'
  BY <1>1 DEF IRequests, Typed, Gateways, Shadowed
<1>7. /\ FlagsCount' /\ Validated' /\ DesktopDecided' /\ NetworkDecided' /\ WorkspaceAttached'
      /\ EndpointCounts'
  BY <1>1 DEF IRequests, FlagsCount, Validated, DesktopDecided, NetworkDecided,
              WorkspaceAttached, EndpointCounts
<1>. QED
  BY <1>5, <1>6, <1>7 DEF IRequests

\* Another gateway changes no request.
LEMMA ReplaceGatewayKeeps ==
  ASSUME IRequests, ReplaceGateway
  PROVE  IRequests'
<1>1. /\ replaced < MaxReplaced /\ replaced' = replaced + 1
      /\ gateway' \in {DockerPorts(GatewayPorts(r)) : r \in GatewayRequests} \cup {None}
      /\ UNCHANGED <<stage, flags, library, profile, req, checked, container, shown>>
  BY DEF ReplaceGateway
<1>2. IsGateway(gateway')
  <2>1. IsGateway(None)
    BY DEF IsGateway
  <2>2. \A g \in {DockerPorts(GatewayPorts(r)) : r \in GatewayRequests} : IsGateway(g)
    BY GatewaysAre
  <2>. QED
    BY <1>1, <2>1, <2>2
<1>3. Gateways'
  BY <1>1, <1>2 DEF IRequests, Gateways
<1>4. replaced' \in 0..MaxReplaced
  BY <1>1, MaxReplacedType DEF IRequests, Typed
<1>5. Typed'
  BY <1>1, <1>4 DEF IRequests, Typed
<1>6. EndpointsRead' = EndpointsRead
  BY <1>1 DEF EndpointsRead
<1>7. Created'
  BY <1>1, <1>6 DEF IRequests, Created
<1>8. Shadowed' /\ FlagsCount' /\ Validated' /\ DesktopDecided' /\ NetworkDecided'
  BY <1>1 DEF IRequests, Shadowed, FlagsCount, Validated, DesktopDecided, NetworkDecided
<1>9. WorkspaceAttached' /\ EndpointCounts'
  BY <1>1 DEF IRequests, WorkspaceAttached, EndpointCounts
<1>. QED
  BY <1>3, <1>5, <1>7, <1>8, <1>9 DEF IRequests

\* Where nothing happens, nothing changes.
LEMMA StutterKeeps ==
  ASSUME IRequests, UNCHANGED vars
  PROVE  IRequests'
<1>1. UNCHANGED <<stage, flags, library, profile, req, gateway, checked, replaced, container,
                  shown>>
  BY DEF vars
<1>2. EndpointsRead' = EndpointsRead
  BY <1>1 DEF EndpointsRead
<1>3. Created'
  BY <1>1, <1>2 DEF IRequests, Created
<1>4. Typed' /\ Gateways' /\ Shadowed'
  BY <1>1 DEF IRequests, Typed, Gateways, Shadowed
<1>5. /\ FlagsCount' /\ Validated' /\ DesktopDecided' /\ NetworkDecided' /\ WorkspaceAttached'
      /\ EndpointCounts'
  BY <1>1 DEF IRequests, FlagsCount, Validated, DesktopDecided, NetworkDecided,
              WorkspaceAttached, EndpointCounts
<1>. QED
  BY <1>3, <1>4, <1>5 DEF IRequests

\* The inductive invariant: at every stage of env create and of service add, the request
\* has what the stages before it decided, and the container and the screen have it too.
THEOREM RequestsCorrect == Spec => []IRequests
<1>1. ASSUME IRequests, [Next]_vars
      PROVE  IRequests'
  <2>1. CASE UNCHANGED vars
    BY <1>1, <2>1, StutterKeeps
  <2>2. CASE SkipProfile \/ LoadProfile \/ ProfileRefused
    BY <1>1, <2>2, SkipProfileKeeps, LoadProfileKeeps, ProfileRefusedKeeps
  <2>3. CASE Override \/ Validate \/ ApplyDesktop
    BY <1>1, <2>3, OverrideKeeps, ValidateKeeps, ApplyDesktopKeeps
  <2>4. CASE PlainNetwork \/ VPNNetwork \/ AttachWorkspace
    BY <1>1, <2>4, PlainNetworkKeeps, VPNNetworkKeeps, AttachWorkspaceKeeps
  <2>5. CASE CreateContainer \/ InspectEnvironment \/ ReplaceGateway
    BY <1>1, <2>5, CreateContainerKeeps, InspectEnvironmentKeeps, ReplaceGatewayKeeps
  <2>6. CASE LoadService \/ ServiceFromImage \/ TemplateRefused
    BY <1>1, <2>6, LoadServiceKeeps, ServiceFromImageKeeps, TemplateRefusedKeeps
  <2>7. CASE OverrideService \/ ValidateService \/ CreateService
    BY <1>1, <2>7, OverrideServiceKeeps, ValidateServiceKeeps, CreateServiceKeeps
  <2>. QED
    BY <1>1, <2>1, <2>2, <2>3, <2>4, <2>5, <2>6, <2>7 DEF Next
<1>. QED
  BY <1>1, InitIsFine, PTL DEF Spec

-----------------------------------------------------------------------------
(* What it means for users. *)

\* TypeOK: at every stage the request holds values of their kinds, and once it is
\* validated the network is one of the five (validateCreateRequest).
THEOREM RequestsTypeCorrect == Spec => []TypeOK
<1>1. IRequests => TypeOK
  <2> SUFFICES ASSUME IRequests
               PROVE  TypeOK
    OBVIOUS
  <2>1. flags.command \in {"env", "service"}
    BY FlagsType DEF IRequests, Typed
  <2>2. flags.command = "env" /\ stage = "profile" => req.network \in Networks
    BY DEF IRequests, Typed, DefaultRequest, Networks
  <2>. QED
    BY <2>1, <2>2 DEF IRequests, Typed, Gateways, IsGateway, Validated, IsValid, TypeOK,
                      EnvStages, ServiceStages
<1>. QED
  BY <1>1, RequestsCorrect, PTL

\* The container of an environment is what was asked for, its ports as Docker has them.
LEMMA ContainerIs ==
  ASSUME IRequests, stage = "created"
  PROVE  /\ flags \in Flags /\ flags.command = "env" /\ req \in EnvSpec(BOOLEAN, {Generated})
         /\ \A x \in Fields \ {"ports"} : container[x] = req[x]
         /\ container.ports = DockerPorts(req.ports) /\ req.ports \in Seq(Ports)
         /\ IsEnv(container.env)
         /\ container.deskOn = req.deskOn /\ container.env = req.env
         /\ container.network = req.network /\ container.passwordEnv = req.passwordEnv
         /\ container.deskIP = req.deskIP /\ container.deskPort = req.deskPort
         /\ container.deskCPort = req.deskCPort
<1>1. /\ flags \in Flags /\ flags.command \in {"env", "service"}
      /\ container = [req EXCEPT !.ports = DockerPorts(@)]
  BY FlagsType DEF IRequests, Typed, Created
<1>2. flags.command = "env" /\ req \in EnvSpec(BOOLEAN, {Generated})
  BY <1>1 DEF IRequests, Typed, ServiceStages
<1>3. req = [x \in Fields |-> req[x]] /\ IsEnvSpec(req, BOOLEAN, {Generated})
  BY <1>2, EnvSpecIs
<1>4. /\ \A x \in Fields \ {"ports"} : container[x] = req[x]
      /\ container.ports = DockerPorts(req.ports)
  BY <1>1, <1>3, FieldsAre
<1>. QED
  BY <1>1, <1>2, <1>3, <1>4, FieldsAre DEF IsEnvSpec, IsEnv

\* The tcp ports that reach the desktop.
TCPPorts == {i \in DOMAIN container.ports : /\ container.ports[i].cont = container.deskCPort
                                            /\ container.ports[i].proto = "tcp"}

\* Where no udp port hides it, the first tcp port of the desktop is shown.
LEMMA FirstTCPIsShown ==
  ASSUME NEW e \in EndpointsRead,
         \A i \in DOMAIN container.ports :
           container.ports[i].cont = container.deskCPort => container.ports[i].proto = "tcp"
  PROVE  IF TCPPorts = {} THEN e = <<container.deskIP, container.deskPort>>
         ELSE LET p == container.ports[FirstOf(TCPPorts)]
              IN e = <<Or(p.ip, container.deskIP), Or(p.host, container.deskPort)>>
<1> DEFINE of(proto) == {i \in DOMAIN container.ports :
                           /\ container.ports[i].cont = container.deskCPort
                           /\ container.ports[i].proto = proto}
           firsts == {container.ports[FirstOf(of(proto))] :
                        proto \in {q \in {"tcp", "udp"} : of(q) # {}}}
<1>1. of("udp") = {} /\ of("tcp") = TCPPorts
  BY DEF TCPPorts
<1>2. e \in IF firsts = {} THEN {<<container.deskIP, container.deskPort>>}
            ELSE {<<Or(p.ip, container.deskIP), Or(p.host, container.deskPort)>> : p \in firsts}
  BY DEF EndpointsRead
<1> HIDE DEF of
<1>3. CASE TCPPorts = {}
  <2>1. firsts = {}
    BY <1>1, <1>3
  <2>. QED
    BY <1>2, <1>3, <2>1
<1>4. CASE TCPPorts # {}
  <2>1. {q \in {"tcp", "udp"} : of(q) # {}} = {"tcp"}
    BY <1>1, <1>4
  <2>2. firsts = {container.ports[FirstOf(TCPPorts)]}
    BY <1>1, <2>1
  <2>. QED
    BY <1>2, <1>4, <2>2
<1>. QED
  BY <1>3, <1>4

\* EndpointIsPublished: the endpoint that env create and env info print is published, by
\* the workbench or by the gateway whose network it shares, wherever a profile, a flag, an
\* explicit port or a default has moved it (applyDesktopPort, applyNetworkProfile,
\* desktopFromLabels).
THEOREM EndpointsArePublished == Spec => []EndpointIsPublished
<1>1. ASSUME IRequests
      PROVE  EndpointIsPublished
  <2> SUFFICES ASSUME shown # None, shown.deskOn,
                      \A i \in DOMAIN container.ports :
                        container.ports[i].cont = container.deskCPort
                          => container.ports[i].proto = "tcp"
               PROVE  /\ container.network \in {"bridge", "segment"}
                           => LetsThrough(container.ports)
                      /\ container.network = "vpn" /\ gateway = checked
                           => LetsThrough(gateway)
    BY DEF EndpointIsPublished
  <2>1. stage = "created" /\ container.deskOn
    BY <1>1 DEF IRequests, Created
  <2>2. PICK e \in EndpointsRead : shown.ip = e[1] /\ shown.port = e[2]
    BY <1>1, <2>1 DEF IRequests, Created
  <2>3. IF TCPPorts = {} THEN e = <<container.deskIP, container.deskPort>>
        ELSE LET p == container.ports[FirstOf(TCPPorts)]
             IN e = <<Or(p.ip, container.deskIP), Or(p.host, container.deskPort)>>
    BY FirstTCPIsShown
  <2>4. /\ req.deskOn /\ container.network = req.network /\ req.ports \in Seq(Ports)
        /\ container.ports = DockerPorts(req.ports)
        /\ container.deskIP = req.deskIP /\ container.deskPort = req.deskPort
        /\ container.deskCPort = req.deskCPort
    BY <1>1, <2>1, ContainerIs
  <2>5. HasDesktop(flags, req) /\ HostsNamed(req.ports) /\ FitsGateway(req, checked)
    BY <1>1, <2>1, <2>4 DEF IRequests, DesktopDecided, Validated, IsValid, NetworkDecided
  <2>6. ASSUME container.network # "vpn"
        PROVE  LetsThrough(container.ports)
    <3>1. PICK i \in DOMAIN req.ports : req.ports[i].cont = req.deskCPort /\ IsTCP(req.ports[i])
      BY <2>4, <2>5, <2>6 DEF HasDesktop, Reaches
    <3>2. i \in TCPPorts
      BY <2>4, <3>1, DockerPortsAre DEF TCPPorts
    <3> DEFINE j == FirstOf(TCPPorts)
               p == container.ports[j]
    <3>3. j \in TCPPorts
      <4>1. DOMAIN req.ports \subseteq Nat /\ DOMAIN container.ports = DOMAIN req.ports
        BY <2>4, DockerPortsAre, LenProperties
      <4>2. TCPPorts \subseteq Nat
        BY <4>1 DEF TCPPorts
      <4>. QED
        BY <3>2, <4>2, FirstExists
    <3>4. j \in DOMAIN container.ports /\ p.cont = container.deskCPort /\ p.proto = "tcp"
      BY <3>3 DEF TCPPorts
    <3>5. p.host # None
      <4> HIDE DEF j
      <4>1. DOMAIN container.ports = DOMAIN req.ports /\ p.host = req.ports[j].host
        BY <2>4, <3>4, DockerPortsAre
      <4>. QED
        BY <2>5, <3>4, <4>1 DEF HostsNamed
    <3>6. shown.ip = Or(p.ip, container.deskIP) /\ shown.port = Or(p.host, container.deskPort)
      BY <2>2, <2>3, <3>2
    <3> HIDE DEF j
    <3>7. shown.port = p.host /\ p.ip \in {None, shown.ip}
      BY <3>5, <3>6 DEF Or
    <3>. QED
      BY <3>4, <3>7 DEF LetsThrough
  <2>7. ASSUME container.network = "vpn", gateway = checked
        PROVE  LetsThrough(gateway)
    <3>1. /\ req.ports = <<>> /\ gateway # None
          /\ HasPublishedPort(gateway, req.deskIP, req.deskPort, req.deskCPort)
      BY <2>4, <2>5, <2>7 DEF FitsGateway
    <3>2. TCPPorts = {}
      <4>1. DOMAIN container.ports = DOMAIN req.ports
        BY <2>4, DockerPortsAre
      <4>2. DOMAIN req.ports = {}
        BY <3>1, <2>4, LenProperties, EmptySeq
      <4>. QED
        BY <4>1, <4>2 DEF TCPPorts
    <3>3. shown.ip = req.deskIP /\ shown.port = req.deskPort
      BY <2>2, <2>3, <2>4, <3>2
    <3>4. req.deskIP # None
      BY <2>5 DEF HasDesktop, Endpoint
    <3>5. PICK i \in DOMAIN gateway :
            /\ IsTCP(gateway[i])
            /\ gateway[i].host = req.deskPort /\ gateway[i].cont = req.deskCPort
            /\ gateway[i].ip \in {None, AnyAddress, req.deskIP}
      BY <3>1, <3>4 DEF HasPublishedPort
    <3>6. gateway[i].proto = "tcp"
      BY <1>1, <3>1, <3>5, TextType DEF IRequests, Gateways, IsGateway, IsTCP
    <3>. QED
      BY <2>4, <3>3, <3>5, <3>6 DEF LetsThrough
  <2>. QED
    BY <2>6, <2>7
<1>. QED
  BY <1>1, RequestsCorrect, PTL

\* PasswordWorks: the password that env info prints is the one in the desktop's environment,
\* which is the one of --desktop-password if it is given, and a new one only if --env gave
\* none (applyDesktop, upsertEnv, desktopFromLabels).
THEOREM PasswordsWork == Spec => []PasswordWorks
<1>1. ASSUME IRequests
      PROVE  PasswordWorks
  <2> DEFINE key == container.passwordEnv
  <2> SUFFICES ASSUME shown # None, shown.deskOn,
                      NEW i \in DOMAIN container.env, Entries(container.env, key) = {i}
               PROVE  /\ shown.password = InEffect(container.env, key)
                      /\ "password" \in flags.given /\ flags.values.password # None
                           => shown.password = flags.values.password
                      /\ shown.password = Generated =>
                           \A j \in Entries(GivenEnv, key) : GivenEnv[j].value = None
    BY DEF PasswordWorks
  <2>1. stage = "created" /\ container.deskOn
    BY <1>1 DEF IRequests, Created
  <2>2. shown.password = EnvValue(container.env, key)
    BY <1>1, <2>1 DEF IRequests, Created
  <2>3. /\ flags \in Flags /\ IsEnv(container.env) /\ req.deskOn
        /\ container.env = req.env /\ key = req.passwordEnv
    BY <1>1, <2>1, ContainerIs
  <2>4. HasDesktop(flags, req) /\ Asked(flags, req)
    BY <1>1, <2>1, <2>3 DEF IRequests, DesktopDecided, FlagsCount
  <2>5. shown.password = req.password
    BY <2>2, <2>3, <2>4 DEF HasDesktop
  <2>6. shown.password = InEffect(container.env, key)
    <3>1. {i} \subseteq Nat /\ i <= i
      BY <2>3, EnvIs
    <3>2. FirstOf({i}) = i
      BY <3>1, FirstExists
    <3>3. EnvValue(container.env, key) = container.env[i].value
      BY <3>2 DEF EnvValue
    <3>4. InEffect(container.env, key) = container.env[i].value
      BY <2>3, <3>1, InEffectIs
    <3>. QED
      BY <2>2, <3>3, <3>4
  <2>7. "password" \in flags.given /\ flags.values.password # None
          => shown.password = flags.values.password
    BY <2>4, <2>5 DEF Asked
  <2>8. shown.password = Generated =>
          \A j \in Entries(GivenEnv, key) : GivenEnv[j].value = None
    <3>1. GivenOf(flags) = GivenEnv
      BY <2>3, GivenIs
    <3>2. MadeOnlyIfNone(flags, req.env, key, req.password)
      BY <2>3, <2>4 DEF HasDesktop
    <3>. QED
      BY <2>3, <2>5, <3>1, <3>2 DEF MadeOnlyIfNone
  <2>. QED
    BY <2>6, <2>7, <2>8
<1>. QED
  BY <1>1, RequestsCorrect, PTL

\* AskedAsDockerTakes: what passes validation is what Docker takes, but for two explicit
\* volumes on one target and a gateway that is replaced meanwhile (validateCreateRequest,
\* applyNetworkProfile, attachWorkspace).
THEOREM AskedIsTaken == Spec => []AskedAsDockerTakes
<1>1. ASSUME IRequests
      PROVE  AskedAsDockerTakes
  <2> SUFFICES ASSUME stage = "docker",
                      req.network = "vpn" => gateway = checked,
                      \A i, j \in DOMAIN req.volumes :
                        \/ ~req.noWs /\ 1 \in {i, j}
                        \/ req.volumes[i].target = req.volumes[j].target => i = j
               PROVE  DockerTakes(req)
    BY DEF AskedAsDockerTakes, At
  <2>1. FitsGateway(req, checked) /\ HasWorkspace(req)
    BY <1>1 DEF IRequests, NetworkDecided, WorkspaceAttached
  <2>2. ASSUME NEW i \in DOMAIN req.volumes, NEW j \in DOMAIN req.volumes,
               req.volumes[i].target = req.volumes[j].target
        PROVE  i = j
    <3>1. CASE ~req.noWs /\ 1 \in {i, j}
      <4>1. req.volumes[1].target = req.wsMount
        BY <2>1, <3>1 DEF HasWorkspace
      <4>2. \A l \in DOMAIN req.volumes : l # 1 => req.volumes[l].target # req.wsMount
        BY <2>1, <3>1 DEF HasWorkspace
      <4>. QED
        BY <2>2, <3>1, <4>1, <4>2
    <3>. QED
      BY <2>2, <3>1
  <2>. QED
    BY <2>1, <2>2 DEF DockerTakes, MountsApart, FitsGateway
<1>. QED
  BY <1>1, RequestsCorrect, PTL

\* What counts in a container's environment is what was given, but for one key.
LEMMA VariablesCount ==
  ASSUME flags \in Flags, NEW but, Wins(flags, container.env, but)
  PROVE  VariablesWin(but)
BY GivenIs DEF VariablesWin, Wins

\* FlagsWin: "explicitly supplied flags win" (cli/env.go:189), in the container of an
\* environment as in that of a service (applyEnvCreateFlagOverrides,
\* applyServiceAddFlagOverrides): but hostname and network name on the vpn network, a
\* default image with a desktop, and --desktop-host and --desktop-port where a tcp port of
\* the template or of --port reaches the desktop and is taken for them (applyDesktopPort).
THEOREM FlagsAlwaysWin == Spec => []FlagsWin
<1>1. ASSUME IRequests
      PROVE  FlagsWin
  <2>1. ASSUME stage = "created"
        PROVE  EnvFlagsWin
    <3> DEFINE but == IF container.deskOn THEN container.passwordEnv ELSE None
    <3>1. /\ flags \in Flags /\ flags.command = "env" /\ container.env = req.env
          /\ container.deskOn = req.deskOn /\ container.passwordEnv = req.passwordEnv
      BY <1>1, <2>1, ContainerIs
    <3>2. /\ container.network = req.network /\ container.vpn = req.vpn
          /\ container.networkName = req.networkName /\ container.image = req.image
          /\ container.noWs = req.noWs /\ container.volumes = req.volumes
          /\ container.hostname = req.hostname /\ container.start = req.start
          /\ container.wsName = req.wsName
      BY <1>1, <2>1, ContainerIs, FieldsAre
    <3>3. /\ Asked(flags, req) /\ IsValid(req) /\ HasWorkspace(req)
          /\ req.network = "vpn" => req.hostname = None
      BY <1>1, <2>1 DEF IRequests, FlagsCount, Validated, WorkspaceAttached, NetworkDecided,
                        FitsGateway
    <3>4. Wins(flags, container.env, but)
      <4>1. IF req.deskOn THEN HasDesktop(flags, req) ELSE Wins(flags, req.env, None)
        BY <1>1, <2>1 DEF IRequests, DesktopDecided
      <4>. QED
        BY <3>1, <4>1 DEF HasDesktop
    <3>5. VariablesWin(but)
      <4> HIDE DEF but
      <4>. QED
        BY <3>1, <3>4, VariablesCount
    <3>6. container.deskOn =>
            LET v == flags.values
                Set(x) == x \in flags.given /\ v[x] # None
                moving == ReachingPorts(PortsAsked(flags, profile), container.deskCPort)
            IN /\ Set("deskIP") => container.deskIP \in {v.deskIP} \cup {p.ip : p \in moving}
               /\ Set("deskPort")
                    => container.deskPort \in {v.deskPort} \cup {p.host : p \in moving}
      <4>1. /\ container.deskIP = req.deskIP /\ container.deskPort = req.deskPort
            /\ container.deskCPort = req.deskCPort
        BY <1>1, <2>1, ContainerIs
      <4>2. req.deskOn => EndpointAsked(flags, PortsAsked(flags, profile), req)
        BY <1>1, <2>1 DEF IRequests, EndpointCounts
      <4>. QED
        BY <3>1, <4>1, <4>2 DEF EndpointAsked
    <3> HIDE DEF but
    <3>7. VariablesWin(IF container.deskOn THEN container.passwordEnv ELSE None)
      BY <3>5 DEF but
    <3>. QED
      BY <3>1, <3>2, <3>3, <3>6, <3>7 DEF EnvFlagsWin, Asked, IsValid, HasWorkspace
  <2>2. ASSUME stage = "served"
        PROVE  ServiceFlagsWin
    <3>1. /\ flags \in Flags /\ flags.command = "service"
          /\ req \in ServiceSpec(BOOLEAN) /\ ServiceAsked(flags, req)
          /\ container = [req EXCEPT !.ports = DockerPorts(@)]
      BY <1>1, <2>2, FlagsType DEF IRequests, Typed, EnvStages, FlagsCount, Created
    <3>2. req = [x \in ServiceFields |-> req[x]]
      BY <3>1, ServiceSpecIs
    <3>3. /\ container.name = req.name /\ container.alias = req.alias
          /\ container.start = req.start /\ container.command = req.command
          /\ container.env = req.env
      BY <3>1, <3>2, ServiceFieldsAre
    <3>4. VariablesWin(None)
      BY <3>1, <3>3, VariablesCount DEF ServiceAsked
    <3>. QED
      BY <3>1, <3>3, <3>4 DEF ServiceFlagsWin, ServiceAsked
  <2>. QED
    BY <2>1, <2>2 DEF FlagsWin, At
<1>. QED
  BY <1>1, RequestsCorrect, PTL

\* UserTemplatesShadow: "User templates shadow built-ins with the same metadata.name"
\* (docs/templates.md:41), and an image is pulled only of a name that is no template's
\* (Store.Load, Store.LoadService, newServiceAddCommand).
THEOREM UserTemplatesAlwaysShadow == Spec => []UserTemplatesShadow
<1>1. ASSUME IRequests
      PROVE  UserTemplatesShadow
  <2>1. Templates = library.user[KindOf(flags)] /\ Kind = KindOf(flags)
    BY DEF Templates, Kind, KindOf
  <2>2. NoneMine(flags, library) =>
          {i \in UserFiles : Templates[i].name = flags.profile \/ ~Templates[i].ok} = {}
    BY <2>1 DEF NoneMine, UserFiles
  <2>3. NoBuiltin(flags, library) => OfBuiltin(flags.profile) = {}
    BY <2>1 DEF NoBuiltin, OfBuiltin
  <2>. QED
    BY <1>1, <2>2, <2>3 DEF IRequests, Shadowed, UserTemplatesShadow
<1>. QED
  BY <1>1, RequestsCorrect, PTL

=============================================================================
