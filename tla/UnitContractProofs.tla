------------------------- MODULE UnitContractProofs -------------------------
(***************************************************************************)
(* What the normalisers of UnitContract do with any request: a normalised  *)
(* part is left alone by a second normalisation, the controller accepts it *)
(* and the sidecar reads back from its environment what was written there. *)
(***************************************************************************)
EXTENDS UnitContract, FiniteSetTheorems, WellFoundedInduction, TLAPS

-----------------------------------------------------------------------------
(* Sorting.                                                                *)

\* How many members of S come before x.
Before(S, rank, x) == {y \in S : rank[y] < rank[x]}

LEMMA BeforeCounts ==
  ASSUME NEW S, IsFiniteSet(S), NEW rank \in [S -> Int], IsInjective(rank)
  PROVE  /\ \A x \in S : Cardinality(Before(S, rank, x)) \in 0..(Cardinality(S) - 1)
         /\ \A x, y \in S : Cardinality(Before(S, rank, x)) = Cardinality(Before(S, rank, y)) => x = y
         /\ \A k \in 0..(Cardinality(S) - 1) : \E x \in S : Cardinality(Before(S, rank, x)) = k
<1> DEFINE B(x) == Before(S, rank, x)
           N == Cardinality(S)
<1>1. N \in Nat
  BY FS_CardinalityType
<1>2. ASSUME NEW x \in S
      PROVE  IsFiniteSet(B(x)) /\ Cardinality(B(x)) \in 0..(N - 1)
  <2>1. B(x) \in SUBSET S /\ B(x) # S
    BY DEF Before
  <2>2. IsFiniteSet(B(x)) /\ Cardinality(B(x)) <= N /\ Cardinality(B(x)) # N
    BY <2>1, FS_Subset
  <2>3. Cardinality(B(x)) \in Nat
    BY <2>2, FS_CardinalityType
  <2> HIDE DEF B, N
  <2> QED BY <1>1, <2>2, <2>3
<1>3. ASSUME NEW x \in S, NEW y \in S, rank[x] < rank[y]
      PROVE  Cardinality(B(x)) < Cardinality(B(y))
  <2>1. B(x) \in SUBSET B(y) /\ x \in B(y) /\ x \notin B(x)
    BY <1>3 DEF Before
  <2>2. Cardinality(B(x)) <= Cardinality(B(y)) /\ Cardinality(B(x)) # Cardinality(B(y))
    BY <1>2, <2>1, FS_Subset
  <2>3. Cardinality(B(x)) \in 0..(N - 1) /\ Cardinality(B(y)) \in 0..(N - 1)
    BY <1>2
  <2> HIDE DEF B, N
  <2> QED BY <1>1, <2>2, <2>3
<1>4. \A x, y \in S : Cardinality(B(x)) = Cardinality(B(y)) => x = y
  <2> SUFFICES ASSUME NEW x \in S, NEW y \in S, Cardinality(B(x)) = Cardinality(B(y)), x # y
               PROVE  FALSE
    OBVIOUS
  <2>1. rank[x] \in Int /\ rank[y] \in Int /\ rank[x] # rank[y]
    BY DEF IsInjective
  <2>2. rank[x] < rank[y] \/ rank[y] < rank[x]
    BY <2>1
  <2>3. Cardinality(B(x)) \in 0..(N - 1) /\ Cardinality(B(y)) \in 0..(N - 1)
    BY <1>2
  <2>4. Cardinality(B(x)) < Cardinality(B(y)) \/ Cardinality(B(y)) < Cardinality(B(x))
    BY <1>3, <2>2
  <2> HIDE DEF B, N
  <2> QED BY <1>1, <2>3, <2>4
<1>5. \A k \in 0..(N - 1) : \E x \in S : Cardinality(B(x)) = k
  <2> DEFINE f == [x \in S |-> Cardinality(B(x))]
             T == 0..(N - 1)
  <2>1. f \in [S -> T]
    <3>1. \A x \in S : Cardinality(B(x)) \in T
      BY <1>2
    <3> HIDE DEF T, B
    <3> QED BY <3>1
  <2>2. f \in Injection(S, T)
    BY <1>4, <2>1 DEF Injection, IsInjective
  <2>3. IsFiniteSet(T) /\ Cardinality(T) = N
    BY <1>1, FS_Interval
  <2>4. f \in Surjection(S, T)
    BY <2>2, <2>3, FS_Injection
  <2>5. \A k \in T : \E x \in S : f[x] = k
    BY <2>4 DEF Surjection
  <2> QED BY <2>5
<1> QED BY <1>2, <1>4, <1>5

\* A set in order has every member once.
LEMMA InOrder ==
  ASSUME NEW S, IsFiniteSet(S), NEW rank \in [S -> Int], IsInjective(rank)
  PROVE  /\ DOMAIN inOrder(S, rank) = 1..Cardinality(S) /\ Cardinality(S) \in Nat
         /\ \A n \in 1..Cardinality(S) : inOrder(S, rank)[n] \in S
         /\ \A m, n \in 1..Cardinality(S) : inOrder(S, rank)[m] = inOrder(S, rank)[n] => m = n
         /\ \A x \in S : \E n \in 1..Cardinality(S) : inOrder(S, rank)[n] = x
<1> DEFINE N == Cardinality(S)
           count(x) == Cardinality(Before(S, rank, x))
           s == inOrder(S, rank)
<1>1. N \in Nat
  BY FS_CardinalityType
<1>2. s = [n \in 1..N |-> CHOOSE x \in S : count(x) = n - 1]
  BY DEF inOrder, Before
<1>3. \A x \in S : count(x) \in 0..(N - 1)
  BY BeforeCounts
<1>4. \A x, y \in S : count(x) = count(y) => x = y
  BY BeforeCounts
<1>5. \A k \in 0..(N - 1) : \E x \in S : count(x) = k
  BY BeforeCounts
<1> HIDE DEF N, count, s
<1>6. ASSUME NEW n \in 1..N PROVE s[n] \in S /\ count(s[n]) = n - 1
  <2>1. n - 1 \in 0..(N - 1)
    BY <1>1
  <2>2. \E x \in S : count(x) = n - 1
    BY <1>5, <2>1
  <2> QED BY <1>2, <2>2
<1>7. ASSUME NEW m \in 1..N, NEW n \in 1..N, s[m] = s[n] PROVE m = n
  <2>1. count(s[m]) = m - 1 /\ count(s[n]) = n - 1
    BY <1>6
  <2>2. count(s[m]) = count(s[n])
    BY <1>7
  <2> QED BY <1>1, <2>1, <2>2
<1>8. ASSUME NEW x \in S PROVE \E n \in 1..N : s[n] = x
  <2>1. PICK n \in 1..N : n - 1 = count(x)
    BY <1>1, <1>3
  <2>2. s[n] \in S /\ count(s[n]) = count(x)
    BY <1>6, <2>1
  <2>3. s[n] = x
    BY <1>4, <2>2
  <2> QED BY <2>3
<1>9. DOMAIN s = 1..N
  BY <1>2
<1> QED BY <1>1, <1>6, <1>7, <1>8, <1>9 DEF N, s

\* The numbers from 1 on are in order.
LEMMA NumbersInOrder ==
  ASSUME NEW N \in Nat
  PROVE  inOrder(1..N, [i \in 1..N |-> i]) = [i \in 1..N |-> i]
<1> DEFINE S == 1..N
           rank == [i \in S |-> i]
<1>1. Cardinality(S) = N
  BY FS_Interval
<1>2. ASSUME NEW x \in S PROVE Cardinality({y \in S : rank[y] < rank[x]}) = x - 1
  <2>1. {y \in S : rank[y] < rank[x]} = 1..(x - 1)
    OBVIOUS
  <2>2. Cardinality(1..(x - 1)) = x - 1
    BY FS_Interval
  <2> QED BY <2>1, <2>2
<1>3. ASSUME NEW n \in S
      PROVE  (CHOOSE x \in S : Cardinality({y \in S : rank[y] < rank[x]}) = n - 1) = n
  <2> DEFINE c == CHOOSE x \in S : Cardinality({y \in S : rank[y] < rank[x]}) = n - 1
  <2>1. \E x \in S : Cardinality({y \in S : rank[y] < rank[x]}) = n - 1
    BY <1>2
  <2>2. c \in S /\ Cardinality({y \in S : rank[y] < rank[c]}) = n - 1
    BY <2>1
  <2> HIDE DEF c
  <2>3. c - 1 = n - 1
    BY <1>2, <2>2
  <2>4. c = n
    BY <2>2, <2>3
  <2> QED BY <2>4 DEF c
<1>4. inOrder(S, rank) = [n \in 1..N |->
         CHOOSE x \in S : Cardinality({y \in S : rank[y] < rank[x]}) = n - 1]
  BY <1>1 DEF inOrder
<1> QED BY <1>3, <1>4

-----------------------------------------------------------------------------
(* Texts, templates and access.                                            *)

LEMMA Trimmed ==
  ASSUME NEW t
  PROVE  /\ TrimSpace(t).form # "spaced"
         /\ t.form # "spaced" => TrimSpace(t) = t
         /\ t.form = "plain" => ToLower(TrimSpace(t)) = t
         /\ TrimSpace(TrimSpace(t)) = TrimSpace(t)
         /\ TrimSpace(t).word = t.word
BY DEF TrimSpace, ToLower, Plain, Text

\* A normalised template is left alone.
LEMMA TemplateStable ==
  ASSUME NEW x, NEW t \in NormalizeGPUUnitTemplate(x)
  PROVE  NormalizeGPUUnitTemplate(t) = {t} /\ \A i \in DOMAIN t.ports : IsName(t.ports[i].name)
<1> DEFINE envs(u) == [i \in DOMAIN u.envs |-> TrimSpace(u.envs[i])]
           ports(u) == [i \in DOMAIN u.ports |->
                  [name |-> TrimSpace(u.ports[i].name), port |-> u.ports[i].port,
                   protocol |-> IF u.ports[i].protocol = "" THEN "TCP" ELSE u.ports[i].protocol]]
           names(u) == [i \in DOMAIN ports(u) |-> ports(u)[i].name]
           numbers(u) == [i \in DOMAIN ports(u) |-> ports(u)[i].port]
           valid(u) == /\ \A i \in DOMAIN envs(u) : IsName(envs(u)[i])
                       /\ \A i \in DOMAIN ports(u) : IsName(names(u)[i]) /\ ValidPort(numbers(u)[i])
                       /\ IsInjective(envs(u)) /\ IsInjective(names(u)) /\ IsInjective(numbers(u))
<1>1. \A u : NormalizeGPUUnitTemplate(u)
               = Accept(valid(u), [envs |-> envs(u), ports |-> ports(u)])
  BY DEF NormalizeGPUUnitTemplate
<1>2. valid(x) /\ t = [envs |-> envs(x), ports |-> ports(x)]
  <2> HIDE DEF valid, envs, ports
  <2> QED BY <1>1 DEF Accept
<1>3. t.envs = envs(x) /\ t.ports = ports(x)
  BY <1>2
<1>4. envs(t) = envs(x)
  <2>1. DOMAIN t.envs = DOMAIN x.envs /\ \A i \in DOMAIN x.envs : t.envs[i] = TrimSpace(x.envs[i])
    BY <1>3
  <2> QED BY <2>1, Trimmed
<1>5. ports(t) = ports(x)
  <2>1. DOMAIN t.ports = DOMAIN x.ports
    BY <1>3
  <2>2. ASSUME NEW i \in DOMAIN x.ports PROVE ports(t)[i] = ports(x)[i]
    <3>1. /\ t.ports[i].name = TrimSpace(x.ports[i].name) /\ t.ports[i].port = x.ports[i].port
          /\ t.ports[i].protocol
               = IF x.ports[i].protocol = "" THEN "TCP" ELSE x.ports[i].protocol
      <4> DEFINE protocol == IF x.ports[i].protocol = "" THEN "TCP" ELSE x.ports[i].protocol
      <4>1. t.ports[i] = [name |-> TrimSpace(x.ports[i].name), port |-> x.ports[i].port,
                          protocol |-> protocol]
        BY <1>3
      <4> HIDE DEF protocol
      <4>2. /\ t.ports[i].name = TrimSpace(x.ports[i].name) /\ t.ports[i].port = x.ports[i].port
            /\ t.ports[i].protocol = protocol
        BY <4>1
      <4> QED BY <4>2 DEF protocol
    <3>2. TrimSpace(t.ports[i].name) = TrimSpace(x.ports[i].name)
      BY <3>1, Trimmed
    <3>3. (IF t.ports[i].protocol = "" THEN "TCP" ELSE t.ports[i].protocol)
            = (IF x.ports[i].protocol = "" THEN "TCP" ELSE x.ports[i].protocol)
      BY <3>1
    <3> QED BY <2>1, <3>1, <3>2, <3>3
  <2> QED BY <2>1, <2>2
<1>6. valid(t) <=> valid(x)
  <2>1. names(t) = names(x) /\ numbers(t) = numbers(x)
    BY <1>5
  <2> QED BY <1>4, <1>5, <2>1
<1>7. NormalizeGPUUnitTemplate(t) = {t}
  <2> HIDE DEF valid, envs, ports
  <2> QED BY <1>1, <1>2, <1>4, <1>5, <1>6 DEF Accept
<1>8. \A i \in DOMAIN t.ports : IsName(t.ports[i].name)
  BY <1>2, <1>3
<1> QED BY <1>7, <1>8

\* And so is a normalised access, as long as the ports have names.
LEMMA AccessStable ==
  ASSUME NEW x, NEW ports, \A i \in DOMAIN ports : IsName(ports[i].name),
         NEW a \in NormalizeGPUUnitAccess(x, ports)
  PROVE  NormalizeGPUUnitAccess(a, ports) = {a}
<1> DEFINE given(u) == TrimSpace(u.primaryPort)
           primary(u) == IF given(u) = Blank /\ ports # <<>> THEN ports[1].name ELSE given(u)
           fits(u) == IF ports = <<>> THEN primary(u) = Blank
                      ELSE \E i \in DOMAIN ports : ports[i].name = primary(u)
           scheme(u) == Default(ToLower(TrimSpace(u.scheme)), DefaultAccessScheme)
<1>1. \A u : NormalizeGPUUnitAccess(u, ports)
               = Accept(fits(u), [primaryPort |-> primary(u), scheme |-> scheme(u)])
  BY DEF NormalizeGPUUnitAccess
<1>2. fits(x) /\ a = [primaryPort |-> primary(x), scheme |-> scheme(x)]
  <2> HIDE DEF fits, primary, scheme
  <2> QED BY <1>1 DEF Accept
<1>3. a.primaryPort = primary(x) /\ a.scheme = scheme(x)
  BY <1>2
<1>4. primary(a) = primary(x)
  <2>1. CASE ports = <<>>
    <3>1. primary(x) = Blank
      BY <1>2, <2>1
    <3>2. TrimSpace(Blank) = Blank
      BY DEF TrimSpace, Blank, Plain, Text
    <3> QED BY <1>3, <2>1, <3>1, <3>2
  <2>2. CASE ports # <<>>
    <3>1. PICK i \in DOMAIN ports : ports[i].name = primary(x)
      BY <1>2, <2>2
    <3>2. primary(x) # Blank /\ primary(x).form = "plain"
      BY <3>1 DEF IsName
    <3> HIDE DEF primary
    <3>3. given(a) = primary(x)
      BY <1>3, <3>2, Trimmed
    <3> QED BY <3>2, <3>3 DEF primary
  <2> QED BY <2>1, <2>2
<1>5. scheme(a) = scheme(x)
  <2>1. ToLower(TrimSpace(a.scheme)) = a.scheme
    <3>1. DefaultAccessScheme.form = "plain"
      BY DEF DefaultAccessScheme, Plain, Text
    <3>2. a.scheme.form \notin {"spaced", "upper"}
      BY <1>3, <3>1 DEF Default, ToLower, TrimSpace, Plain, Text
    <3> QED BY <3>2 DEF ToLower, TrimSpace
  <2>2. a.scheme # Blank
    BY <1>3 DEF Default, DefaultAccessScheme, Blank, Plain, Text
  <2> QED BY <1>3, <2>1, <2>2 DEF Default
<1>6. fits(a) <=> fits(x)
  BY <1>4
<1> HIDE DEF fits, primary, scheme
<1> QED BY <1>1, <1>2, <1>4, <1>5, <1>6 DEF Accept

-----------------------------------------------------------------------------
(* SSH.                                                                    *)

\* Keys that are trimmed, distinct and not blank are kept as they are.
LEMMA DistinctKeys ==
  ASSUME NEW N \in Nat, NEW k, k = [n \in 1..N |-> k[n]],
         \A n \in 1..N : TrimSpace(k[n]) = k[n] /\ k[n] # Blank,
         \A m, n \in 1..N : k[m] = k[n] => m = n
  PROVE  authorizedKeys(k) = k
<1> DEFINE trimmed == [i \in DOMAIN k |-> TrimSpace(k[i])]
           kept == {i \in DOMAIN k : trimmed[i] # Blank /\ \A j \in 1..(i - 1) : trimmed[j] # trimmed[i]}
           order == inOrder(kept, [i \in kept |-> i])
<1>1. authorizedKeys(k) = [n \in DOMAIN order |-> trimmed[order[n]]]
  BY DEF authorizedKeys
<1>2. DOMAIN k = 1..N
  OBVIOUS
<1>3. trimmed = k
  BY <1>2
<1> HIDE DEF trimmed
<1>4. ASSUME NEW i \in 1..N, NEW j \in 1..(i - 1) PROVE k[j] # k[i]
  <2>1. j \in 1..N /\ j # i
    OBVIOUS
  <2> QED BY <2>1
<1>5. kept = 1..N
  BY <1>2, <1>3, <1>4
<1> HIDE DEF kept
<1>6. order = [i \in 1..N |-> i]
  BY <1>5, NumbersInOrder
<1> HIDE DEF order
<1>7. [n \in DOMAIN order |-> trimmed[order[n]]] = [n \in 1..N |-> k[n]]
  BY <1>3, <1>6
<1> QED BY <1>1, <1>7

\* What is left of the keys of a request is left alone.
LEMMA KeysStable ==
  ASSUME NEW keys \in Seq(Texts)
  PROVE  authorizedKeys(authorizedKeys(keys)) = authorizedKeys(keys)
<1> DEFINE trimmed == [i \in DOMAIN keys |-> TrimSpace(keys[i])]
           kept == {i \in DOMAIN keys : trimmed[i] # Blank /\ \A j \in 1..(i - 1) : trimmed[j] # trimmed[i]}
           rank == [i \in kept |-> i]
           order == inOrder(kept, rank)
           N == Cardinality(kept)
           k == [n \in DOMAIN order |-> trimmed[order[n]]]
<1>1. authorizedKeys(keys) = k
  BY DEF authorizedKeys
<1>2. DOMAIN keys = 1..Len(keys) /\ Len(keys) \in Nat
  OBVIOUS
<1>3. kept \subseteq 1..Len(keys) /\ IsFiniteSet(1..Len(keys))
  BY <1>2, FS_Interval
<1>4. IsFiniteSet(kept)
  BY <1>3, FS_Subset
<1>5. \A i \in kept : trimmed[i] # Blank /\ TrimSpace(trimmed[i]) = trimmed[i]
  BY Trimmed
<1>6. ASSUME NEW i \in kept, NEW j \in kept, trimmed[i] = trimmed[j] PROVE i = j
  <2>1. i \in 1..Len(keys) /\ j \in 1..Len(keys)
    BY <1>3
  <2>2. i \in 1..(j - 1) \/ j \in 1..(i - 1) \/ i = j
    BY <1>2, <2>1
  <2> HIDE DEF trimmed
  <2> QED BY <1>6, <2>2
<1> HIDE DEF kept, trimmed
<1>7. rank \in [kept -> Int] /\ IsInjective(rank)
  BY <1>2, <1>3 DEF IsInjective
<1>8. /\ DOMAIN order = 1..N /\ N \in Nat
      /\ \A n \in 1..N : order[n] \in kept
      /\ \A m, n \in 1..N : order[m] = order[n] => m = n
  <2> HIDE DEF rank
  <2> QED BY <1>4, <1>7, InOrder
<1> HIDE DEF order, N
<1>9. k = [n \in 1..N |-> k[n]] /\ \A n \in 1..N : k[n] = trimmed[order[n]]
  BY <1>8
<1> HIDE DEF k
<1>10. \A n \in 1..N : TrimSpace(k[n]) = k[n] /\ k[n] # Blank
  BY <1>5, <1>8, <1>9
<1>11. \A m, n \in 1..N : k[m] = k[n] => m = n
  BY <1>6, <1>8, <1>9
<1>12. authorizedKeys(k) = k
  BY <1>8, <1>9, <1>10, <1>11, DistinctKeys
<1> QED BY <1>1, <1>12

\* What a second normalisation, under any name, leaves alone.
StableSSH(s) ==
  s.enabled => /\ s = [enabled |-> TRUE, authorizedKeys |-> s.authorizedKeys,
                       text |-> s.text, port |-> s.port]
               /\ trimmedSSH(s) = s.text /\ sshPorts(s) = s.port
               /\ authorizedKeys(s.authorizedKeys) = s.authorizedKeys

NormalSSH(s) ==
  \/ s = NoSSH
  \/ /\ s.enabled /\ StableSSH(s)
     /\ sshUsable(s.text, s.authorizedKeys, s.port)
     /\ s.text["domainSuffix"] = Blank \/ IsName(s.text["domainSuffix"])
     /\ s.text["clientName"] = Blank \/ IsName(s.text["clientName"])
     /\ IsName(s.text["clientDomain"])
     /\ s.text = [f \in SSHTexts |-> s.text[f]]

\* The text of field f, of all of them raw.
SSHText(raw, f) ==
  CASE f = "username" -> Default(ToLower(raw[f]), DefaultUnitSSHUsername)
    [] f = "connectHost" -> Default(raw[f], raw["serverAddr"])
    [] f = "domainSuffix" -> TrimDot(raw[f])
    [] f \in {"clientName", "clientDomain"} -> ToLower(raw[f])
    [] f = "image" -> Default(raw[f], DefaultSSHImage.image)
    [] f = "frpImage" -> Default(raw[f], DefaultSSHImage.frpImage)
    [] OTHER -> raw[f]

\* trimmedSSH field by field.
LEMMA TrimmedTexts ==
  ASSUME NEW x
  PROVE  trimmedSSH(x) = [f \in SSHTexts |-> SSHText([g \in SSHTexts |-> TrimSpace(x.text[g])], f)]
BY DEF trimmedSSH, SSHTexts, SSHText

\* Trimmed texts with a valid domain are left alone.
LEMMA TextsStable ==
  ASSUME NEW x, NEW s, NEW domain, IsName(domain),
         s.text = [trimmedSSH(x) EXCEPT !["clientDomain"] = domain],
         s.text["serverAddr"] # Blank,
         s.text["domainSuffix"].form \notin {"spaced", "dotted"}
  PROVE  trimmedSSH(s) = s.text /\ s.text = [f \in SSHTexts |-> s.text[f]]
<1> DEFINE raw == [f \in SSHTexts |-> TrimSpace(x.text[f])]
           again == [f \in SSHTexts |-> TrimSpace(s.text[f])]
<1>1. /\ DOMAIN s.text = SSHTexts /\ s.text["clientDomain"] = domain
      /\ \A f \in SSHTexts \ {"clientDomain"} : s.text[f] = SSHText(raw, f)
  BY TrimmedTexts DEF SSHTexts
<1>2. s.text = [f \in SSHTexts |-> s.text[f]]
  BY TrimmedTexts DEF SSHTexts
<1>3. \A f \in SSHTexts : raw[f].form # "spaced"
  BY Trimmed
<1>4. \A f \in SSHTexts : s.text[f].form # "spaced"
  <2>1. /\ DefaultUnitSSHUsername.form = "plain"
        /\ DefaultSSHImage.image.form = "plain" /\ DefaultSSHImage.frpImage.form = "plain"
    BY DEF DefaultUnitSSHUsername, DefaultSSHImage, Plain, Text
  <2>2. \A f \in SSHTexts \ {"clientDomain", "domainSuffix"} : SSHText(raw, f).form # "spaced"
    <3> HIDE DEF raw
    <3> QED BY <1>3, <2>1 DEF SSHText, SSHTexts, Default, ToLower, Plain, Text
  <2>3. domain.form # "spaced" /\ s.text["domainSuffix"].form # "spaced"
    BY DEF IsName
  <2> HIDE DEF raw
  <2> QED BY <1>1, <2>2, <2>3
<1>5. \A f \in SSHTexts : again[f] = s.text[f]
  BY <1>4, Trimmed
<1> HIDE DEF again, raw
<1>6. ASSUME NEW f \in SSHTexts PROVE SSHText(again, f) = s.text[f]
  <2>1. CASE f = "username"
    <3>1. s.text[f] = Default(ToLower(raw[f]), DefaultUnitSSHUsername)
      BY <1>1, <2>1 DEF SSHText
    <3>2. s.text[f] # Blank /\ s.text[f].form # "upper"
      BY <3>1 DEF Default, DefaultUnitSSHUsername, ToLower, Blank, Plain, Text
    <3> QED BY <1>5, <2>1, <3>2 DEF SSHText, Default, ToLower
  <2>2. CASE f = "connectHost"
    <3>1. s.text[f] = Default(raw[f], raw["serverAddr"]) /\ s.text["serverAddr"] = raw["serverAddr"]
      BY <1>1, <2>2 DEF SSHText, SSHTexts
    <3>2. s.text[f] # Blank
      BY <3>1 DEF Default
    <3> QED BY <1>5, <2>2, <3>2 DEF SSHText, Default
  <2>3. CASE f = "domainSuffix"
    BY <1>5, <2>3 DEF SSHText, TrimDot
  <2>4. CASE f = "clientName"
    <3>1. s.text[f] = ToLower(raw[f])
      BY <1>1, <2>4 DEF SSHText
    <3>2. s.text[f].form # "upper"
      BY <3>1 DEF ToLower, Plain, Text
    <3> QED BY <1>5, <2>4, <3>2 DEF SSHText, ToLower
  <2>5. CASE f = "clientDomain"
    BY <1>1, <1>5, <2>5 DEF SSHText, ToLower, IsName
  <2>6. CASE f = "image" \/ f = "frpImage"
    <3>1. s.text[f] = Default(raw[f], DefaultSSHImage[f])
      BY <1>1, <2>6 DEF SSHText, DefaultSSHImage
    <3>2. DefaultSSHImage[f] # Blank
      BY <2>6 DEF DefaultSSHImage, Blank, Plain, Text
    <3>3. s.text[f] # Blank
      BY <3>1, <3>2 DEF Default
    <3>4. \A d : Default(again[f], d) = s.text[f]
      BY <1>5, <3>3 DEF Default
    <3>5. CASE f = "image"
      BY <3>4, <3>5 DEF SSHText
    <3>6. CASE f = "frpImage"
      BY <3>4, <3>6 DEF SSHText
    <3> QED BY <2>6, <3>5, <3>6
  <2>7. CASE f \notin {"username", "connectHost", "domainSuffix", "clientName", "clientDomain",
                       "image", "frpImage"}
    BY <1>5, <2>7 DEF SSHText
  <2> QED BY <2>1, <2>2, <2>3, <2>4, <2>5, <2>6, <2>7
<1>7. trimmedSSH(s) = [f \in SSHTexts |-> SSHText(again, f)]
  BY TrimmedTexts DEF again
<1> QED BY <1>2, <1>6, <1>7

\* A valid port gets no default.
LEMMA PortsAreNotZero ==
  ASSUME NEW p, ValidPort(p)
  PROVE  p # 0
BY SMTT(30) DEF ValidPort

\* A normalised ssh spec is normal, whatever was asked for.
LEMMA SSHNormal ==
  ASSUME NEW name, NEW x, x.authorizedKeys \in Seq(Texts), NEW s \in NormalizeGPUUnitSSH(name, x)
  PROVE  NormalSSH(s)
<1> DEFINE t == trimmedSSH(x)
           keys == authorizedKeys(x.authorizedKeys)
           suffix == t["domainSuffix"]
           domain == Default(t["clientDomain"], clientDomainOf(name, suffix))
<1>1. CASE ~x.enabled
  BY <1>1 DEF NormalizeGPUUnitSSH, NormalSSH
<1>2. CASE x.enabled
  <2>1. /\ sshUsable(t, keys, sshPorts(x))
        /\ suffix = Blank \/ IsName(suffix)
        /\ t["clientName"] = Blank \/ IsName(t["clientName"])
        /\ IsName(domain)
        /\ s = [enabled |-> TRUE, authorizedKeys |-> keys,
                text |-> [t EXCEPT !["clientDomain"] = domain], port |-> sshPorts(x)]
    BY <1>2 DEF NormalizeGPUUnitSSH, Accept
  <2>2. DOMAIN t = SSHTexts
    BY TrimmedTexts
  <2> HIDE DEF t, keys, domain
  <2>3. /\ s.text = [t EXCEPT !["clientDomain"] = domain] /\ s.authorizedKeys = keys
        /\ s.port = sshPorts(x) /\ s.enabled = TRUE
    BY <2>1
  <2>4. s.text["clientDomain"] = domain /\ \A f \in SSHTexts \ {"clientDomain"} : s.text[f] = t[f]
    BY <2>2, <2>3 DEF SSHTexts
  <2>5. sshUsable(s.text, s.authorizedKeys, s.port)
    BY <2>1, <2>3, <2>4 DEF sshUsable, SSHTexts
  <2>6. s.text["domainSuffix"] = Blank \/ IsName(s.text["domainSuffix"])
    BY <2>1, <2>4 DEF SSHTexts
  <2>7. s.text["serverAddr"] # Blank
    BY <2>5 DEF sshUsable
  <2>8. s.text["domainSuffix"].form \notin {"spaced", "dotted"}
    BY <2>6 DEF IsName, Blank, Plain, Text
  <2>9. trimmedSSH(s) = s.text /\ s.text = [f \in SSHTexts |-> s.text[f]]
    BY <2>1, <2>3, <2>7, <2>8, TextsStable, ZenonT(60) DEF t
  <2>10. authorizedKeys(s.authorizedKeys) = s.authorizedKeys
    BY <2>3, KeysStable DEF keys
  <2>11. sshPorts(s) = s.port
    <3>1. \A f \in SSHPorts : s.port[f] # 0
      BY <2>5, PortsAreNotZero DEF sshUsable
    <3>2. s.port = [f \in SSHPorts |-> s.port[f]]
      BY <2>3 DEF sshPorts
    <3> QED BY <3>1, <3>2 DEF sshPorts
  <2>12. IsName(s.text["clientDomain"])
    BY <2>1, <2>4
  <2>13. s.text["clientName"] = Blank \/ IsName(s.text["clientName"])
    BY <2>1, <2>4 DEF SSHTexts
  <2>14. s = [enabled |-> TRUE, authorizedKeys |-> s.authorizedKeys, text |-> s.text, port |-> s.port]
    BY <2>1
  <2> QED BY <2>3, <2>5, <2>6, <2>9, <2>10, <2>11, <2>12, <2>13, <2>14 DEF NormalSSH, StableSSH
<1> QED BY <1>1, <1>2

\* A normal ssh spec is left alone, and the controller resolves it for a unit
\* whose name makes a client name.
LEMMA SSHStable ==
  ASSUME NEW s, NormalSSH(s), NEW name
  PROVE  /\ NormalizeGPUUnitSSH(name, s) = {s}
         /\ IsName(clientNameOf(name)) => resolveUnitSSHSpec(name, s) # {}
<1>1. CASE s = NoSSH
  BY <1>1 DEF NormalizeGPUUnitSSH, resolveUnitSSHSpec, NoSSH
<1>2. CASE s # NoSSH
  <2> DEFINE t == trimmedSSH(s)
             keys == authorizedKeys(s.authorizedKeys)
             domain(suffix) == Default(t["clientDomain"], clientDomainOf(name, suffix))
             client == Default(t["clientName"], clientNameOf(name))
  <2>1. s.enabled /\ t = s.text /\ keys = s.authorizedKeys /\ sshPorts(s) = s.port
    BY <1>2 DEF NormalSSH, StableSSH
  <2>2. s = [enabled |-> TRUE, authorizedKeys |-> s.authorizedKeys, text |-> s.text, port |-> s.port]
    BY <1>2 DEF NormalSSH, StableSSH
  <2>3. /\ sshUsable(t, keys, sshPorts(s))
        /\ t["domainSuffix"] = Blank \/ IsName(t["domainSuffix"])
        /\ t["clientName"] = Blank \/ IsName(t["clientName"])
        /\ IsName(t["clientDomain"]) /\ t["clientDomain"] # Blank
        /\ t = [f \in SSHTexts |-> t[f]]
    BY <1>2, <2>1 DEF NormalSSH, IsName
  <2> HIDE DEF t, keys
  <2>4. domain(t["domainSuffix"]) = t["clientDomain"]
    BY <2>3 DEF Default
  <2>5. [t EXCEPT !["clientDomain"] = domain(t["domainSuffix"])] = t
    BY <2>3, <2>4
  <2>6. NormalizeGPUUnitSSH(name, s)
          = Accept(/\ sshUsable(t, keys, sshPorts(s))
                   /\ t["clientDomain"] # Blank \/ t["domainSuffix"] # Blank
                   /\ t["domainSuffix"] = Blank \/ IsName(t["domainSuffix"])
                   /\ t["clientName"] = Blank \/ IsName(t["clientName"])
                   /\ IsName(domain(t["domainSuffix"])),
                   [enabled |-> TRUE, authorizedKeys |-> keys,
                    text |-> [t EXCEPT !["clientDomain"] = domain(t["domainSuffix"])],
                    port |-> sshPorts(s)])
    BY <2>1 DEF NormalizeGPUUnitSSH, t, keys
  <2>7. NormalizeGPUUnitSSH(name, s) = {s}
    BY <2>1, <2>2, <2>3, <2>4, <2>5, <2>6 DEF Accept
  <2>8. ASSUME IsName(clientNameOf(name)) PROVE resolveUnitSSHSpec(name, s) # {}
    <3>1. IsName(client)
      BY <2>3, <2>8 DEF Default
    <3> QED BY <2>1, <2>3, <2>4, <3>1 DEF resolveUnitSSHSpec, Accept, t, keys
  <2> QED BY <2>7, <2>8
<1> QED BY <1>1, <1>2

-----------------------------------------------------------------------------
(* Serverless.                                                             *)

ServerlessFields == Counts \cup {"enabled", "requestID", "socketPath", "invokePath", "healthPath"}
HasServerlessFields(s) == s = [f \in ServerlessFields |-> s[f]]

CleanForm(t) == t.form \notin {"spaced", "relative", "unclean"}

\* The framework paths may still mean the root, for which the controller and a
\* second normalisation put the default.
NormalServerless(s) ==
  \/ s = NoServerless
  \/ /\ HasServerlessFields(s)
     /\ s.enabled = TRUE /\ IsName(s.requestID) /\ Len(s.requestID.word) = 1
     /\ s.idleTimeoutSeconds # 0 /\ ~\E f \in Counts : s[f] < 0
     /\ CleanForm(s.socketPath) /\ s.socketPath # Blank /\ UnderSocketDir(s.socketPath)
     /\ CleanForm(s.invokePath) /\ CleanForm(s.healthPath)

Fallback(t) == t.form = "plain" /\ t \notin {Blank, Root}

LEMMA Fallbacks == Fallback(DefaultInvokePath) /\ Fallback(DefaultHealthPath)
<1>1. \A w : Len(<<"/", w>>) = 2 /\ Len(<<"/">>) = 1
  OBVIOUS
<1>2. \A w : Fallback(Plain(<<"/", w>>))
  <2> SUFFICES ASSUME NEW w PROVE <<"/", w>> # <<"/">> /\ <<"/", w>> # <<>>
    BY DEF Fallback, Plain, Text, Blank, Root
  <2> QED BY <1>1
<1> QED BY <1>2 DEF DefaultInvokePath, DefaultHealthPath

\* Clean paths are left alone, but for the root, which gives way to the fallback.
LEMMA PathsClean ==
  ASSUME NEW t, NEW fallback, Fallback(fallback)
  PROVE  /\ CleanForm(normalizeFrameworkPath(t, fallback))
         /\ CleanForm(t) => /\ normalizePath(t, fallback) = IF t \in {Blank, Root} THEN fallback ELSE t
                            /\ normalizeFrameworkPath(t, fallback) = normalizePath(t, fallback)
                            /\ CleanForm(normalizePath(t, fallback))
                            /\ normalizePath(t, fallback) \notin {Blank, Root}
<1>1. CleanForm(normalizeFrameworkPath(t, fallback))
  <2>1. normalizePath(t, fallback).form # "spaced"
    BY Trimmed DEF normalizePath, Fallback, Plain, Text
  <2> QED BY <2>1 DEF normalizeFrameworkPath, Clean, CleanForm, Plain, Text
<1>2. ASSUME CleanForm(t) PROVE normalizePath(t, fallback) = IF t \in {Blank, Root} THEN fallback ELSE t
  <2>1. TrimSpace(t) = t /\ t.form # "relative"
    BY <1>2, Trimmed DEF CleanForm
  <2> QED BY <2>1 DEF normalizePath
<1>3. ASSUME CleanForm(t)
      PROVE  /\ normalizeFrameworkPath(t, fallback) = normalizePath(t, fallback)
             /\ CleanForm(normalizePath(t, fallback))
             /\ normalizePath(t, fallback) \notin {Blank, Root}
  BY <1>2, <1>3 DEF normalizeFrameworkPath, Clean, CleanForm, Fallback
<1> QED BY <1>1, <1>2, <1>3

\* Clean socket paths are left alone.
LEMMA SocketsClean ==
  ASSUME NEW t
  PROVE  /\ CleanForm(normalizeSocketPath(t))
         /\ UnderSocketDir(t) => t # Blank
         /\ CleanForm(t) /\ t # Blank => normalizeSocketPath(t) = t
<1>1. CleanForm(normalizeSocketPath(t))
  BY Trimmed DEF normalizeSocketPath, DefaultSocketPath, Clean, CleanForm, Plain, Text
<1>2. ASSUME UnderSocketDir(t) PROVE t # Blank
  <2>1. Len(SocketDir) = 3
    BY DEF SocketDir
  <2>2. Len(SocketDir) <= Len(t.word)
    BY <1>2 DEF UnderSocketDir, IsStrictPrefix, IsPrefix
  <2>3. Len(Blank.word) = 0
    BY DEF Blank, Plain, Text
  <2> QED BY <2>1, <2>2, <2>3
<1>3. ASSUME CleanForm(t), t # Blank PROVE normalizeSocketPath(t) = t
  BY <1>3, Trimmed DEF normalizeSocketPath, Clean, CleanForm
<1> QED BY <1>1, <1>2, <1>3

\* What an enabled serverless spec becomes in the API.
LEMMA ServerlessNormal ==
  ASSUME NEW x, HasServerlessFields(x), NEW s \in NormalizeGPUUnitServerless(x)
  PROVE  /\ NormalServerless(s)
         /\ ~serverlessRequested(x) => s = NoServerless
         /\ serverlessRequested(x) =>
              /\ s.requestID \in NormalizeRequestID(x.requestID)
              /\ s.idleTimeoutSeconds = IF x.idleTimeoutSeconds = 0 THEN DefaultIdleTimeout
                                        ELSE x.idleTimeoutSeconds
              /\ \A f \in Counts \ {"idleTimeoutSeconds"} : s[f] = x[f]
              /\ s.socketPath = normalizeSocketPath(x.socketPath)
              /\ s.invokePath = normalizeFrameworkPath(x.invokePath, DefaultInvokePath)
              /\ s.healthPath = normalizeFrameworkPath(x.healthPath, DefaultHealthPath)
<1> DEFINE socket == normalizeSocketPath(x.socketPath)
           invoke == normalizeFrameworkPath(x.invokePath, DefaultInvokePath)
           health == normalizeFrameworkPath(x.healthPath, DefaultHealthPath)
           idle == IF x.idleTimeoutSeconds = 0 THEN DefaultIdleTimeout ELSE x.idleTimeoutSeconds
           negative == \E c \in Counts : x[c] < 0
           f == [x EXCEPT !.socketPath = socket, !.invokePath = invoke, !.healthPath = health]
<1>1. NormalizeGPUUnitServerless(x) =
        IF ~serverlessRequested(x) THEN {NoServerless}
        ELSE IF negative THEN {}
        ELSE {enabledServerless(g, id) : id \in NormalizeRequestID(x.requestID),
                            g \in NormalizeGPUUnitServerlessFramework(x)}
  BY DEF NormalizeGPUUnitServerless
<1>2. NormalizeGPUUnitServerlessFramework(x) = Accept(UnderSocketDir(socket), f)
  BY DEF NormalizeGPUUnitServerlessFramework
<1>3. f = [k \in ServerlessFields |-> CASE k = "socketPath" -> socket [] k = "invokePath" -> invoke
                                        [] k = "healthPath" -> health [] OTHER -> x[k]]
  <2> HIDE DEF socket, invoke, health
  <2> QED BY DEF HasServerlessFields, ServerlessFields, Counts
<1>4. \A id : enabledServerless(f, id) = [k \in ServerlessFields |->
                CASE k = "socketPath" -> socket [] k = "invokePath" -> invoke
                  [] k = "healthPath" -> health [] k = "enabled" -> TRUE
                  [] k = "requestID" -> id [] k = "idleTimeoutSeconds" -> idle [] OTHER -> x[k]]
  <2> HIDE DEF socket, invoke, health, f
  <2> QED BY <1>3 DEF ServerlessFields, Counts, enabledServerless
<1>5. CASE ~serverlessRequested(x)
  <2>1. s = NoServerless
    BY <1>1, <1>5
  <2> QED BY <1>5, <2>1 DEF NormalServerless
<1>6. CASE serverlessRequested(x)
  <2> HIDE DEF negative, f
  <2>1. ~negative
    BY <1>1, <1>6
  <2>2. PICK id \in NormalizeRequestID(x.requestID) : UnderSocketDir(socket) /\ s = enabledServerless(f, id)
    BY <1>1, <1>2, <1>6, <2>1 DEF Accept
  <2> HIDE DEF socket, invoke, health, idle
  <2>3. s = [k \in ServerlessFields |->
                CASE k = "socketPath" -> socket [] k = "invokePath" -> invoke
                  [] k = "healthPath" -> health [] k = "enabled" -> TRUE
                  [] k = "requestID" -> id [] k = "idleTimeoutSeconds" -> idle [] OTHER -> x[k]]
    BY <1>4, <2>2
  <2>4. /\ s.enabled = TRUE /\ s.requestID = id /\ s.idleTimeoutSeconds = idle
        /\ \A c \in Counts \ {"idleTimeoutSeconds"} : s[c] = x[c]
        /\ s.socketPath = socket /\ s.invokePath = invoke /\ s.healthPath = health
    BY <2>3 DEF ServerlessFields, Counts
  <2>5. HasServerlessFields(s)
    BY <2>3 DEF HasServerlessFields
  <2>6. IsName(id) /\ Len(id.word) = 1
    BY <2>2 DEF NormalizeRequestID, Accept
  <2>7. idle # 0 /\ ~(idle < 0)
    <3>1. ~(x.idleTimeoutSeconds < 0)
      BY <2>1 DEF negative, Counts
    <3>2. CASE x.idleTimeoutSeconds = 0
      BY <3>2 DEF idle, DefaultIdleTimeout
    <3>3. CASE x.idleTimeoutSeconds # 0
      BY <3>1, <3>3 DEF idle
    <3> QED BY <3>2, <3>3
  <2>8. ~\E c \in Counts : s[c] < 0
    BY <2>1, <2>4, <2>7 DEF Counts, negative
  <2>9. CleanForm(socket) /\ socket # Blank /\ CleanForm(invoke) /\ CleanForm(health)
    BY <2>2, SocketsClean, PathsClean, Fallbacks DEF socket, invoke, health
  <2>10. NormalServerless(s)
    BY <2>2, <2>4, <2>5, <2>6, <2>7, <2>8, <2>9 DEF NormalServerless
  <2> QED BY <1>6, <2>2, <2>4, <2>10 DEF socket, invoke, health, idle
<1> QED BY <1>5, <1>6

LEMMA ServerlessBodies ==
  ASSUME NEW s, ServerlessBody(s)
  PROVE  HasServerlessFields(s)
BY DEF ServerlessBody, HasServerlessFields, ServerlessFields, Counts

\* A valid request ID is left alone.
LEMMA RequestIDStable ==
  ASSUME NEW id, IsName(id), Len(id.word) = 1
  PROVE  NormalizeRequestID(id) = {id} /\ TrimSpace(id) = id
<1>1. ToLower(TrimSpace(id)) = id /\ TrimSpace(id) = id
  BY Trimmed DEF IsName
<1> QED BY <1>1 DEF NormalizeRequestID, Accept

\* A unit that is not serverless is not for the controller either.
LEMMA NoServerlessFields ==
  /\ HasServerlessFields(NoServerless) /\ ~serverlessRequested(NoServerless)
  /\ ~unitServerlessEnabled(NoServerless)
  /\ NormalizeGPUUnitServerless(NoServerless) = {NoServerless}
  /\ resolveUnitServerlessSpec(NoServerless) = {NoServerless}
<1>1. TrimSpace(Blank) = Blank
  BY DEF TrimSpace, Blank, Plain, Text
<1>2. HasServerlessFields(NoServerless)
  BY DEF NoServerless, HasServerlessFields, ServerlessFields, Counts
<1>3. ~serverlessRequested(NoServerless)
  BY <1>1 DEF NoServerless, serverlessRequested, Counts
<1>4. ~unitServerlessEnabled(NoServerless)
  BY <1>1, <1>3 DEF NoServerless, unitServerlessEnabled
<1>5. NormalizeGPUUnitServerless(NoServerless) = {NoServerless}
  BY <1>3 DEF NormalizeGPUUnitServerless
<1>6. ~NoServerless.enabled /\ NoServerless.requestID = Blank
  BY DEF NoServerless
<1>7. resolveUnitServerlessSpec(NoServerless) = {NoServerless}
  BY <1>1, <1>6 DEF resolveUnitServerlessSpec
<1> QED BY <1>2, <1>3, <1>4, <1>5, <1>7

\* The controller's reading of a normal spec with serverless.
Resolved(s) ==
  [f \in ServerlessFields |->
     CASE f = "invokePath" -> normalizePath(s.invokePath, DefaultInvokePath)
       [] f = "healthPath" -> normalizePath(s.healthPath, DefaultHealthPath)
       [] OTHER -> s[f]]

\* What the controller makes of a normal serverless spec.
LEMMA ServerlessResolved ==
  ASSUME NEW s, NormalServerless(s), s # NoServerless
  PROVE  resolveUnitServerlessSpec(s) = {Resolved(s)}
<1> DEFINE invoke == normalizePath(s.invokePath, DefaultInvokePath)
           health == normalizePath(s.healthPath, DefaultHealthPath)
           e == enabledServerless(s, s.requestID)
<1>1. /\ HasServerlessFields(s) /\ s.enabled = TRUE /\ IsName(s.requestID) /\ Len(s.requestID.word) = 1
      /\ s.idleTimeoutSeconds # 0 /\ ~\E f \in Counts : s[f] < 0
      /\ CleanForm(s.socketPath) /\ s.socketPath # Blank /\ UnderSocketDir(s.socketPath)
  BY DEF NormalServerless
<1>2. NormalizeRequestID(s.requestID) = {s.requestID} /\ normalizeSocketPath(s.socketPath) = s.socketPath
  BY <1>1, RequestIDStable, SocketsClean
<1>3. e = s
  <2>1. DOMAIN s = ServerlessFields
    BY <1>1 DEF HasServerlessFields
  <2>2. \A f \in ServerlessFields : e[f] = s[f]
    BY <1>1, <2>1 DEF enabledServerless, ServerlessFields, Counts
  <2>3. e = [f \in ServerlessFields |-> e[f]]
    BY <2>1 DEF enabledServerless
  <2> QED BY <1>1, <2>2, <2>3 DEF HasServerlessFields
<1>4. resolveUnitServerlessSpec(s)
        = {[e EXCEPT !.socketPath = s.socketPath,
                     !.invokePath = normalizePath(@, DefaultInvokePath),
                     !.healthPath = normalizePath(@, DefaultHealthPath)]}
  BY <1>1, <1>2 DEF resolveUnitServerlessSpec
<1> HIDE DEF e
<1>5. [e EXCEPT !.socketPath = s.socketPath,
                !.invokePath = normalizePath(@, DefaultInvokePath),
                !.healthPath = normalizePath(@, DefaultHealthPath)]
        = [s EXCEPT !.socketPath = s.socketPath, !.invokePath = invoke, !.healthPath = health]
  BY <1>3
<1> HIDE DEF invoke, health
<1>6. [s EXCEPT !.socketPath = s.socketPath, !.invokePath = invoke, !.healthPath = health]
        = [f \in ServerlessFields |-> CASE f = "invokePath" -> invoke
                                        [] f = "healthPath" -> health [] OTHER -> s[f]]
  BY <1>1 DEF HasServerlessFields, ServerlessFields, Counts
<1> QED BY <1>4, <1>5, <1>6 DEF Resolved, invoke, health

\* The API, the activator and the controller agree about a normal spec.
LEMMA ServerlessAgreed ==
  ASSUME NEW s, NormalServerless(s)
  PROVE  \E r \in resolveUnitServerlessSpec(s) :
           /\ r.enabled = s.enabled
           /\ r.enabled = unitServerlessEnabled(s)
           /\ r.requestID = s.requestID
<1>1. CASE s = NoServerless
  <2>1. NoServerless.enabled = FALSE /\ unitServerlessEnabled(NoServerless) = FALSE
    BY NoServerlessFields DEF NoServerless, unitServerlessEnabled, serverlessRequested
  <2> QED BY <1>1, <2>1, NoServerlessFields
<1>2. CASE s # NoServerless
  <2>1. s.enabled = TRUE
    BY <1>2 DEF NormalServerless
  <2>2. unitServerlessEnabled(s) = TRUE
    BY <2>1 DEF unitServerlessEnabled, serverlessRequested
  <2>3. Resolved(s).enabled = s.enabled /\ Resolved(s).requestID = s.requestID
    BY DEF Resolved, ServerlessFields
  <2> QED BY <1>2, <2>1, <2>2, <2>3, ServerlessResolved
<1> QED BY <1>1, <1>2

\* A normal spec may change when it is normalised once more, but not in what the
\* controller makes of it.
LEMMA ServerlessStable ==
  ASSUME NEW s, NormalServerless(s), NEW n \in NormalizeGPUUnitServerless(s)
  PROVE  NormalServerless(n) /\ resolveUnitServerlessSpec(n) = resolveUnitServerlessSpec(s)
<1>1. CASE s = NoServerless
  <2>1. n = NoServerless
    BY <1>1, NoServerlessFields
  <2> QED BY <1>1, <2>1
<1>2. CASE s # NoServerless
  <2>1. /\ HasServerlessFields(s) /\ s.enabled = TRUE /\ IsName(s.requestID) /\ Len(s.requestID.word) = 1
        /\ s.idleTimeoutSeconds # 0
        /\ CleanForm(s.socketPath) /\ s.socketPath # Blank
        /\ CleanForm(s.invokePath) /\ CleanForm(s.healthPath)
    BY <1>2 DEF NormalServerless
  <2>2. serverlessRequested(s)
    BY <2>1 DEF serverlessRequested
  <2>3. NormalServerless(n)
    BY <2>1, ServerlessNormal
  <2>4. /\ n.requestID = s.requestID /\ n.socketPath = s.socketPath
        /\ \A f \in Counts : n[f] = s[f]
        /\ n.invokePath = normalizePath(s.invokePath, DefaultInvokePath)
        /\ n.healthPath = normalizePath(s.healthPath, DefaultHealthPath)
    <3>1. n.requestID = s.requestID
      BY <2>1, <2>2, ServerlessNormal, RequestIDStable
    <3>2. n.socketPath = s.socketPath
      BY <2>1, <2>2, ServerlessNormal, SocketsClean
    <3>3. n.idleTimeoutSeconds = s.idleTimeoutSeconds
      BY <2>1, <2>2, ServerlessNormal
    <3>4. \A f \in Counts \ {"idleTimeoutSeconds"} : n[f] = s[f]
      BY <2>1, <2>2, ServerlessNormal
    <3>5. /\ n.invokePath = normalizePath(s.invokePath, DefaultInvokePath)
          /\ n.healthPath = normalizePath(s.healthPath, DefaultHealthPath)
      BY <2>1, <2>2, ServerlessNormal, PathsClean, Fallbacks
    <3> QED BY <3>1, <3>2, <3>3, <3>4, <3>5
  <2>5. n # NoServerless
    <3>1. NoServerless.requestID = Blank
      BY DEF NoServerless
    <3> QED BY <2>1, <2>4, <3>1 DEF IsName
  <2>6. n.enabled = s.enabled
    BY <2>1, <2>3, <2>5 DEF NormalServerless
  <2>7. /\ normalizePath(n.invokePath, DefaultInvokePath) = normalizePath(s.invokePath, DefaultInvokePath)
        /\ normalizePath(n.healthPath, DefaultHealthPath) = normalizePath(s.healthPath, DefaultHealthPath)
    BY <2>1, <2>4, PathsClean, Fallbacks
  <2>8. \A f \in ServerlessFields : Resolved(n)[f] = Resolved(s)[f]
    BY <2>4, <2>6, <2>7 DEF Resolved, ServerlessFields, Counts
  <2>9. Resolved(n) = Resolved(s)
    BY <2>8 DEF Resolved
  <2> QED BY <1>2, <2>3, <2>5, <2>9, ServerlessResolved
<1> QED BY <1>1, <1>2

-----------------------------------------------------------------------------
(* Storage mounts.                                                         *)

MountSet(out) == {out[i] : i \in DOMAIN out}
MountRank(S) == [m \in S |-> NameOrder[m.name.word]]

\* What a mount looks like once it is trimmed and accepted.
NormalMount(m) ==
  /\ m = [name |-> m.name, mountPath |-> m.mountPath]
  /\ IsName(m.name) /\ m.name \in Texts /\ m.name.word \in DOMAIN NameOrder
  /\ CleanForm(m.mountPath) /\ m.mountPath \notin {Blank, Root}

\* Trimming and lowering keep the word.
LEMMA TextsTrimmed ==
  ASSUME NEW t \in Texts
  PROVE  ToLower(TrimSpace(t)) \in Texts /\ ToLower(TrimSpace(t)).word = t.word
<1>1. TrimSpace(t) \in Texts /\ TrimSpace(t).word = t.word
  BY DEF TrimSpace, Plain, Text, Texts, Forms
<1> QED BY <1>1 DEF ToLower, Plain, Text, Texts, Forms

\* The mounts of a usable list: normal, with names and paths of their own.
LEMMA UsableMounts ==
  ASSUME NEW ms, MountList(ms), mountsUsable(ms)
  PROVE  LET out == trimmedMounts(ms) IN
         /\ DOMAIN out = 1..Len(ms) /\ Len(ms) \in Nat
         /\ \A i \in 1..Len(ms) : NormalMount(out[i])
         /\ \A i, j \in 1..Len(ms) : out[i].name = out[j].name => i = j
         /\ \A i, j \in 1..Len(ms) : out[i].mountPath = out[j].mountPath => i = j
<1> DEFINE out == trimmedMounts(ms)
<1>1. DOMAIN ms = 1..Len(ms) /\ Len(ms) \in Nat
  BY DEF MountList
<1>2. out = [i \in 1..Len(ms) |-> [name |-> ToLower(TrimSpace(ms[i].name)),
                                   mountPath |-> Clean(TrimSpace(ms[i].mountPath))]]
  BY <1>1 DEF trimmedMounts
<1>3. /\ \A i \in 1..Len(ms) : IsName(out[i].name) /\ out[i].mountPath \notin {Blank, Root}
      /\ IsInjective([i \in DOMAIN out |-> out[i].name])
      /\ IsInjective([i \in DOMAIN out |-> out[i].mountPath])
  BY <1>1 DEF mountsUsable
<1>4. ASSUME NEW i \in 1..Len(ms) PROVE NormalMount(out[i])
  <2>1. /\ out[i] = [name |-> ToLower(TrimSpace(ms[i].name)),
                     mountPath |-> Clean(TrimSpace(ms[i].mountPath))]
        /\ out[i].name = ToLower(TrimSpace(ms[i].name))
        /\ out[i].mountPath = Clean(TrimSpace(ms[i].mountPath))
    BY <1>2
  <2>2. ms[i].name \in Texts /\ ms[i].name.word \in DOMAIN NameOrder
    <3> DEFINE M == [name : Texts, mountPath : Texts]
    <3>1. ms \in Seq(M)
      BY DEF MountList
    <3> HIDE DEF M
    <3>2. ms[i] \in M
      BY <1>1, <3>1
    <3>3. \A x \in M : x.name \in Texts
      BY DEF M
    <3> QED BY <1>1, <3>2, <3>3 DEF MountList
  <2>3. out[i].name \in Texts /\ out[i].name.word \in DOMAIN NameOrder
    BY <2>1, <2>2, TextsTrimmed
  <2>4. CleanForm(out[i].mountPath)
    BY <2>1, Trimmed DEF CleanForm, Clean, Plain, Text
  <2> QED BY <1>3, <2>1, <2>3, <2>4 DEF NormalMount
<1>5. DOMAIN out = 1..Len(ms)
  BY <1>2
<1> HIDE DEF out
<1>6. \A i, j \in 1..Len(ms) : out[i].name = out[j].name => i = j
  BY <1>3, <1>5 DEF IsInjective
<1>7. \A i, j \in 1..Len(ms) : out[i].mountPath = out[j].mountPath => i = j
  BY <1>3, <1>5 DEF IsInjective
<1> QED BY <1>1, <1>4, <1>5, <1>6, <1>7 DEF out

\* A list of normal mounts is usable and trimming leaves it alone.
LEMMA NormalMounts ==
  ASSUME NEW N \in Nat, NEW m, m = [n \in 1..N |-> m[n]],
         \A n \in 1..N : NormalMount(m[n]),
         \A i, j \in 1..N : m[i].name = m[j].name => i = j,
         \A i, j \in 1..N : m[i].mountPath = m[j].mountPath => i = j
  PROVE  trimmedMounts(m) = m /\ mountsUsable(m)
<1>1. DOMAIN m = 1..N
  OBVIOUS
<1>2. ASSUME NEW n \in 1..N
      PROVE  /\ ToLower(TrimSpace(m[n].name)) = m[n].name
             /\ Clean(TrimSpace(m[n].mountPath)) = m[n].mountPath
             /\ TrimSpace(m[n].mountPath) = m[n].mountPath /\ m[n].mountPath.form # "relative"
             /\ m[n] = [name |-> m[n].name, mountPath |-> m[n].mountPath]
             /\ IsName(m[n].name) /\ m[n].mountPath \notin {Blank, Root}
  <2>1. NormalMount(m[n])
    OBVIOUS
  <2>2. ToLower(TrimSpace(m[n].name)) = m[n].name
    BY <2>1, Trimmed DEF NormalMount, IsName
  <2>3. TrimSpace(m[n].mountPath) = m[n].mountPath
    BY <2>1, Trimmed DEF NormalMount, CleanForm
  <2> QED BY <2>1, <2>2, <2>3 DEF NormalMount, CleanForm, Clean
<1>3. trimmedMounts(m) = m
  BY <1>1, <1>2 DEF trimmedMounts
<1>4. /\ IsInjective([i \in DOMAIN m |-> m[i].name])
      /\ IsInjective([i \in DOMAIN m |-> m[i].mountPath])
  BY <1>1 DEF IsInjective
<1> QED BY <1>1, <1>2, <1>3, <1>4 DEF mountsUsable

\* The mounts of a usable list in the order of their names.
LEMMA SortedMounts ==
  ASSUME NEW ms, MountList(ms), mountsUsable(ms)
  PROVE  LET S == MountSet(trimmedMounts(ms))
             m == inOrder(S, MountRank(S))
         IN  \E N \in Nat : /\ m = [n \in 1..N |-> m[n]]
                            /\ \A n \in 1..N : m[n] \in S
                            /\ \A i, j \in 1..N : m[i] = m[j] => i = j
                            /\ MountSet(m) = S
<1> DEFINE out == trimmedMounts(ms)
           L == Len(ms)
           S == MountSet(out)
           rank == MountRank(S)
<1>1. /\ DOMAIN out = 1..L /\ L \in Nat
      /\ \A i \in 1..L : NormalMount(out[i])
      /\ \A i, j \in 1..L : out[i].name = out[j].name => i = j
  BY UsableMounts
<1> HIDE DEF out, L
<1>2. \A x \in S : \E i \in 1..L : x = out[i]
  BY <1>1 DEF MountSet
<1>3. \A i \in 1..L : out[i] \in S
  BY <1>1 DEF MountSet
<1>4. IsFiniteSet(S)
  <2> DEFINE f == [i \in 1..L |-> out[i]]
  <2> HIDE DEF S
  <2>1. f \in Surjection(1..L, S)
    BY <1>2, <1>3 DEF Surjection
  <2>2. IsFiniteSet(1..L)
    BY <1>1, FS_Interval
  <2> HIDE DEF f
  <2> QED BY <2>1, <2>2, FS_Surjection
<1>5. \A x \in S : NormalMount(x)
  BY <1>1, <1>2
<1>6. rank = [x \in S |-> NameOrder[x.name.word]]
  BY DEF MountRank
<1>7. \A x, y \in S : x.name = y.name => x = y
  BY <1>1, <1>2
<1> HIDE DEF S, rank
<1>8. rank \in [S -> Int]
  <2>1. \A w \in DOMAIN NameOrder : NameOrder[w] \in Int
    BY NameOrderAssumption
  <2>2. \A x \in S : NameOrder[x.name.word] \in Int
    BY <1>5, <2>1 DEF NormalMount
  <2> QED BY <1>6, <2>2
<1>9. IsInjective(rank)
  <2> SUFFICES ASSUME NEW x \in S, NEW y \in S, rank[x] = rank[y] PROVE x = y
    BY <1>6 DEF IsInjective
  <2>1. NameOrder[x.name.word] = NameOrder[y.name.word]
    BY <1>6
  <2>2. NormalMount(x) /\ NormalMount(y)
    BY <1>5
  <2>3. x.name.word = y.name.word
    BY <2>1, <2>2, NameOrderAssumption DEF NormalMount, IsInjective
  <2>4. x.name = y.name
    BY <2>2, <2>3 DEF NormalMount, IsName, Texts
  <2> QED BY <1>7, <2>4
<1> DEFINE m == inOrder(S, rank)
           N == Cardinality(S)
<1>10. /\ DOMAIN m = 1..N /\ N \in Nat /\ \A n \in 1..N : m[n] \in S
       /\ \A i, j \in 1..N : m[i] = m[j] => i = j
       /\ \A x \in S : \E n \in 1..N : m[n] = x
  BY <1>4, <1>8, <1>9, InOrder
<1>11. m = [n \in 1..N |-> m[n]]
  BY DEF inOrder
<1>12. MountSet(m) = S
  <2> HIDE DEF m, N
  <2> QED BY <1>10 DEF MountSet
<1>13. \E K \in Nat : /\ m = [n \in 1..K |-> m[n]] /\ \A n \in 1..K : m[n] \in S
                      /\ \A i, j \in 1..K : m[i] = m[j] => i = j
                      /\ MountSet(m) = S
  <2> HIDE DEF m, N
  <2> QED BY <1>10, <1>11, <1>12
<1> QED BY <1>13 DEF S, rank, out

LEMMA MountsForm ==
  ASSUME NEW ms
  PROVE  LET S == MountSet(trimmedMounts(ms))
         IN  NormalizeGPUUnitStorageMounts(ms) = Accept(mountsUsable(ms), inOrder(S, MountRank(S)))
BY DEF NormalizeGPUUnitStorageMounts, MountSet, MountRank

\* Sorted mounts are left alone.
LEMMA MountsStable ==
  ASSUME NEW ms, MountList(ms), NEW m \in NormalizeGPUUnitStorageMounts(ms)
  PROVE  NormalizeGPUUnitStorageMounts(m) = {m}
<1> DEFINE out == trimmedMounts(ms)
           S == MountSet(out)
<1>1. mountsUsable(ms) /\ m = inOrder(S, MountRank(S))
  <2> HIDE DEF S
  <2>1. NormalizeGPUUnitStorageMounts(ms) = Accept(mountsUsable(ms), inOrder(S, MountRank(S)))
    BY MountsForm DEF S
  <2> QED BY <2>1 DEF Accept
<1>2. PICK N \in Nat : /\ m = [n \in 1..N |-> m[n]] /\ \A n \in 1..N : m[n] \in S
                       /\ \A i, j \in 1..N : m[i] = m[j] => i = j
                       /\ MountSet(m) = S
  BY <1>1, SortedMounts
<1>3. /\ DOMAIN out = 1..Len(ms)
      /\ \A i \in 1..Len(ms) : NormalMount(out[i])
      /\ \A i, j \in 1..Len(ms) : out[i].name = out[j].name => i = j
      /\ \A i, j \in 1..Len(ms) : out[i].mountPath = out[j].mountPath => i = j
  BY <1>1, UsableMounts
<1> HIDE DEF out
<1>4. \A x \in S : \E i \in 1..Len(ms) : x = out[i]
  BY <1>3 DEF MountSet
<1>5. \A x, y \in S : x.name = y.name \/ x.mountPath = y.mountPath => x = y
  <2> HIDE DEF S
  <2> QED BY <1>3, <1>4
<1>6. \A x \in S : NormalMount(x)
  BY <1>3, <1>4
<1> HIDE DEF S
<1>7. \A n \in 1..N : NormalMount(m[n])
  BY <1>2, <1>6
<1>8. /\ \A i, j \in 1..N : m[i].name = m[j].name => i = j
      /\ \A i, j \in 1..N : m[i].mountPath = m[j].mountPath => i = j
  BY <1>2, <1>5
<1>9. trimmedMounts(m) = m /\ mountsUsable(m)
  BY <1>2, <1>7, <1>8, NormalMounts
<1>10. NormalizeGPUUnitStorageMounts(m) = Accept(mountsUsable(m), inOrder(S, MountRank(S)))
  BY <1>2, <1>9, MountsForm
<1> QED BY <1>1, <1>9, <1>10 DEF Accept

-----------------------------------------------------------------------------
(* The environment of a sidecar.                                           *)

\* A set of numbers has a least one.
LEMMA LeastNumber ==
  ASSUME NEW T, T # {}, T \subseteq Nat
  PROVE  \E x \in T : \A y \in T : x <= y
<1>1. PICK R : IsWellFoundedOn(R, Nat) /\ \A x, y \in Nat : x < y => <<x, y>> \in R
  <2>1. \A x, y \in Nat : x < y => <<x, y>> \in OpToRel(<, Nat)
    BY DEF OpToRel
  <2> QED BY <2>1, NatLessThanWellFounded
<1>2. \E x \in T : \A y \in T : ~(<<y, x>> \in R)
  <2> DEFINE N == Nat
  <2>1. IsWellFoundedOn(R, N) /\ T \subseteq N
    BY <1>1
  <2> HIDE DEF N
  <2> QED BY <2>1, WFMin
<1>3. PICK x \in T : \A y \in T : ~(<<y, x>> \in R)
  BY <1>2
<1>4. ASSUME NEW y \in T, ~(x <= y) PROVE FALSE
  <2>1. y < x
    BY <1>4
  <2>2. <<y, x>> \in R
    BY <1>1, <2>1
  <2> QED BY <1>3, <2>2
<1> QED BY <1>4

\* Joining sequences of one element each gives the sequence of the elements.
LEMMA FlattenSingles ==
  ASSUME NEW T, NEW b \in Seq(T), b # <<>>, NEW ss, ss = [i \in 1..Len(b) |-> <<b[i]>>]
  PROVE  FlattenSeq(ss) = b
<1> DEFINE N == Len(b)
           step(f) == [i \in 1..N |-> IF i = 1 THEN ss[i] ELSE f[i - 1] \o ss[i]]
           flat == CHOOSE f : f = step(f)
           g == [i \in 1..N |-> [j \in 1..i |-> b[j]]]
<1>1. N \in Nat /\ N > 0 /\ \A i \in 1..N : b[i] \in T /\ ss[i] = <<b[i]>>
  OBVIOUS
<1>2. Len(ss) = N
  BY <1>1
<1>3. FlattenSeq(ss) = flat[N]
  BY <1>1, <1>2 DEF FlattenSeq
<1>4. ASSUME NEW i \in 1..N, i # 1 PROVE [j \in 1..(i - 1) |-> b[j]] \o <<b[i]>> = [j \in 1..i |-> b[j]]
  <2> DEFINE u == [j \in 1..(i - 1) |-> b[j]]
             v == [j \in 1..i |-> b[j]]
  <2>1. u \in Seq(T) /\ Len(u) = i - 1 /\ v \in Seq(T) /\ Len(v) = i
    BY <1>1, <1>4
  <2>2. <<b[i]>> \in Seq(T)
    BY <1>1
  <2>3. u \o <<b[i]>> \in Seq(T) /\ Len(u \o <<b[i]>>) = i
    BY <2>1, <2>2
  <2>4. ASSUME NEW j \in 1..i PROVE (u \o <<b[i]>>)[j] = v[j]
    <3>1. CASE j = i
      BY <2>1, <2>2, <3>1
    <3>2. CASE j # i
      <4>1. j \in 1..(i - 1)
        BY <3>2
      <4>2. (u \o <<b[i]>>)[j] = u[j]
        BY <2>1, <2>2, <4>1
      <4> QED BY <4>1, <4>2
    <3> QED BY <3>1, <3>2
  <2> HIDE DEF u, v
  <2>5. u \o <<b[i]>> = v
    BY <2>1, <2>3, <2>4
  <2> QED BY <2>5 DEF u, v
<1>5. g = step(g)
  <2>1. ASSUME NEW i \in 1..N PROVE g[i] = step(g)[i]
    <3>1. CASE i = 1
      <4>1. g[1] = [j \in 1..1 |-> b[j]] /\ ss[1] = <<b[1]>>
        BY <1>1
      <4>2. [j \in 1..1 |-> b[j]] = <<b[1]>>
        OBVIOUS
      <4> QED BY <3>1, <4>1, <4>2
    <3>2. CASE i # 1
      <4>1. i - 1 \in 1..N
        BY <3>2
      <4>2. g[i - 1] = [j \in 1..(i - 1) |-> b[j]] /\ g[i] = [j \in 1..i |-> b[j]]
        BY <4>1
      <4>3. g[i - 1] \o ss[i] = g[i]
        <5> HIDE DEF g
        <5> QED BY <1>1, <1>4, <3>2, <4>2
      <4> HIDE DEF g
      <4> QED BY <3>2, <4>3
    <3> QED BY <3>1, <3>2
  <2> QED BY <2>1, ZenonT(60)
<1> HIDE DEF g, step
<1>6. flat = step(flat)
  BY <1>5
<1> HIDE DEF flat
<1>7. \A i \in 1..N : flat[i] = g[i]
  <2> DEFINE D == {i \in 1..N : flat[i] # g[i]}
  <2> SUFFICES ASSUME D # {} PROVE FALSE
    OBVIOUS
  <2>1. D \subseteq Nat
    OBVIOUS
  <2>2. PICK x \in D : \A y \in D : x <= y
    <3> HIDE DEF D
    <3> QED BY <2>1, LeastNumber
  <2>3. CASE x = 1
    BY <1>1, <1>5, <1>6, <2>3 DEF step
  <2>4. CASE x # 1
    <3>1. x - 1 \in 1..N /\ ~(x <= x - 1)
      BY <2>4
    <3>2. flat[x - 1] = g[x - 1]
      BY <2>2, <3>1
    <3>3. \A f : step(f)[x] = f[x - 1] \o ss[x]
      BY <2>4 DEF step
    <3>4. step(flat)[x] = step(g)[x]
      BY <3>2, <3>3
    <3> QED BY <1>5, <1>6, <3>4
  <2> QED BY <2>3, <2>4
<1>8. flat[N] = [j \in 1..N |-> b[j]]
  BY <1>1, <1>7 DEF g
<1> QED BY <1>1, <1>3, <1>8

\* A text without a comma.
OnePart(t) == t = Text(<<t.word[1]>>, t.form)

\* An accepted delay has no comma.
LEMMA DurationsHaveOnePart ==
  ASSUME NEW t \in Texts, TrimSpace(t).word \in DOMAIN Durations
  PROVE  OnePart(t)
<1> DEFINE w == t.word
<1>1. w \in Seq(STRING) /\ t = [word |-> w, form |-> t.form]
  BY DEF Texts
<1>2. Len(w) = 1
  BY Trimmed, DurationAssumption
<1> HIDE DEF w
<1>3. w = <<w[1]>>
  BY <1>1, <1>2
<1> QED BY <1>1, <1>3 DEF OnePart, Text, w

\* Joining delays without commas keeps each of them in its place.
LEMMA JoinKeeps ==
  ASSUME NEW T, NEW b \in Seq(T), b # <<>>, \A i \in 1..Len(b) : OnePart(b[i])
  PROVE  Join(b) = b
<1> DEFINE parts(i) == [j \in DOMAIN b[i].word |-> Text(<<b[i].word[j]>>, b[i].form)]
           ss == [i \in DOMAIN b |-> parts(i)]
<1>1. ASSUME NEW i \in 1..Len(b) PROVE parts(i) = <<b[i]>>
  <2> DEFINE t == b[i]
             w == b[i].word
  <2>1. t = Text(<<w[1]>>, t.form)
    BY DEF OnePart
  <2>2. w = <<w[1]>>
    <3> HIDE DEF w
    <3>1. t.word = <<w[1]>>
      BY <2>1 DEF Text
    <3> QED BY <3>1 DEF w
  <2> HIDE DEF w, t
  <2>3. DOMAIN w = 1..1
    BY <2>2
  <2>4. [j \in 1..1 |-> Text(<<w[j]>>, t.form)] = <<t>>
    <3>1. \A j \in 1..1 : j = 1
      OBVIOUS
    <3>2. [j \in 1..1 |-> Text(<<w[j]>>, t.form)] = [j \in 1..1 |-> t]
      BY <2>1, <3>1
    <3>3. [j \in 1..1 |-> t] = <<t>>
      OBVIOUS
    <3> QED BY <3>2, <3>3
  <2> QED BY <2>3, <2>4 DEF t, w
<1>2. DOMAIN b = 1..Len(b)
  OBVIOUS
<1>3. ss = [i \in 1..Len(b) |-> <<b[i]>>]
  <2> HIDE DEF parts
  <2> QED BY <1>1, <1>2
<1>4. Join(b) = FlattenSeq(ss)
  BY DEF Join
<1> HIDE DEF ss
<1> QED BY <1>3, <1>4, FlattenSingles

\* What NormalizedRetry accepts.
LEMMA AcceptedRetry ==
  ASSUME NEW x, x.maxDeliver \in Int, x.backoff \in Seq(Texts), NEW p \in NormalizedRetry(x)
  PROVE  /\ p.maxDeliver \in Nat /\ p.maxDeliver > 0
         /\ \E T : p.backoff \in Seq(T)
         /\ p.backoff # <<>> /\ Len(p.backoff) <= p.maxDeliver
         /\ \A i \in 1..Len(p.backoff) :
              /\ OnePart(p.backoff[i]) /\ ParseDuration(TrimSpace(p.backoff[i]))
              /\ Durations[TrimSpace(p.backoff[i]).word] > 0
<1> DEFINE max == IF x.maxDeliver <= 0 THEN DefaultRetryMaxDeliver ELSE x.maxDeliver
           b == IF x.backoff = <<>> THEN defaultRetryBackoff ELSE x.backoff
<1>1. /\ Len(b) <= max
      /\ \A i \in DOMAIN b : /\ ParseDuration(TrimSpace(b[i]))
                             /\ Durations[TrimSpace(b[i]).word] > 0
      /\ p = [maxDeliver |-> max, backoff |-> b]
  BY DEF NormalizedRetry, Accept
<1>2. max \in Nat /\ max > 0
  BY DEF DefaultRetryMaxDeliver
<1>3. /\ \E T : b \in Seq(T)
      /\ b # <<>> /\ \A i \in 1..Len(b) : OnePart(b[i])
  <2>1. CASE x.backoff = <<>>
    <3> DEFINE p1 == Plain(<<"2s">>)
               p2 == Plain(<<"10s">>)
               p3 == Plain(<<"30s">>)
    <3>1. OnePart(p1) /\ OnePart(p2) /\ OnePart(p3)
      BY DEF OnePart, Plain, Text
    <3>2. b = <<p1, p2, p3>>
      BY <2>1 DEF defaultRetryBackoff
    <3> HIDE DEF p1, p2, p3, b
    <3> DEFINE T == {p1, p2, p3}
    <3>3. b \in Seq(T) /\ Len(b) = 3 /\ b[1] = p1 /\ b[2] = p2 /\ b[3] = p3
      BY <3>2
    <3>4. \A i \in 1..3 : i = 1 \/ i = 2 \/ i = 3
      OBVIOUS
    <3>5. \A i \in 1..3 : OnePart(b[i])
      BY <3>1, <3>3, <3>4
    <3> HIDE DEF T
    <3>6. b # <<>>
      <4>1. ASSUME b = <<>> PROVE DOMAIN b = {}
        BY <4>1
      <4>2. 1 \in DOMAIN b
        BY <3>3
      <4> QED BY <4>1, <4>2
    <3>7. \E U : b \in Seq(U)
      BY <3>3
    <3> QED BY <3>3, <3>5, <3>6, <3>7
  <2>2. CASE x.backoff # <<>>
    <3>1. b = x.backoff
      BY <2>2
    <3>2. \A i \in 1..Len(b) : OnePart(b[i])
      BY <1>1, <3>1, DurationsHaveOnePart DEF ParseDuration
    <3>3. b \in Seq(Texts) /\ b # <<>>
      BY <2>2, <3>1
    <3> HIDE DEF b
    <3> QED BY <3>2, <3>3
  <2> QED BY <2>1, <2>2
<1> HIDE DEF max, b
<1>4. p.maxDeliver = max /\ p.backoff = b
  BY <1>1
<1>5. DOMAIN b = 1..Len(b)
  BY <1>3
<1> QED BY <1>1, <1>2, <1>3, <1>4, <1>5

\* A retry policy that was normalised comes out of the environment with the same
\* number of deliveries and the same delays.
LEMMA RetrySurvives ==
  ASSUME NEW x, x.maxDeliver \in Int, x.backoff \in Seq(Texts), NEW p \in NormalizedRetry(x)
  PROVE  \E r \in NormalizedRetry(RetryPolicyFromEnv(p.maxDeliver, Join(p.backoff))) :
           /\ r.maxDeliver = p.maxDeliver
           /\ \A d \in 1..p.maxDeliver :
                DelayForDelivery(r, d)
                  = BackoffDurations(p)[IF d <= Len(p.backoff) THEN d ELSE Len(p.backoff)]
<1> DEFINE b == p.backoff
           N == Len(b)
           t == [i \in 1..N |-> TrimSpace(b[i])]
           r == [maxDeliver |-> p.maxDeliver, backoff |-> t]
<1>1. /\ p.maxDeliver \in Nat /\ p.maxDeliver > 0
      /\ \E T : b \in Seq(T)
      /\ b # <<>> /\ N <= p.maxDeliver
      /\ \A i \in 1..N : /\ OnePart(b[i]) /\ ParseDuration(TrimSpace(b[i]))
                         /\ Durations[TrimSpace(b[i]).word] > 0
  BY AcceptedRetry
<1>2. PICK T : b \in Seq(T)
  BY <1>1
<1>3. Join(b) = b
  BY <1>1, <1>2, JoinKeeps
<1>4. DOMAIN b = 1..N /\ N \in Nat /\ N > 0
  BY <1>1, <1>2
<1>5. RetryPolicyFromEnv(p.maxDeliver, Join(b)) = r
  BY <1>3, <1>4 DEF RetryPolicyFromEnv, SplitRetryBackoff
<1>6. r.backoff = t /\ r.maxDeliver = p.maxDeliver /\ t # <<>> /\ DOMAIN t = 1..N /\ Len(t) = N
  <2>1. DOMAIN t = 1..N /\ Len(t) = N
    BY <1>4
  <2> HIDE DEF t
  <2> QED BY <1>4, <2>1
<1>7. \A i \in 1..N : TrimSpace(t[i]) = TrimSpace(b[i])
  BY Trimmed
<1> HIDE DEF r, t, b, N
<1>8. r \in NormalizedRetry(r)
  <2>1. \A i \in 1..N : ParseDuration(TrimSpace(t[i])) /\ Durations[TrimSpace(t[i]).word] > 0
    BY <1>1, <1>7
  <2>2. ~(r.maxDeliver <= 0)
    BY <1>1, <1>6
  <2>3. r = [maxDeliver |-> r.maxDeliver, backoff |-> r.backoff]
    BY <1>6 DEF r
  <2>4. N <= r.maxDeliver
    BY <1>1, <1>6
  <2> QED BY <1>6, <2>1, <2>2, <2>3, <2>4 DEF NormalizedRetry, Accept
<1>9. BackoffDurations(r) = BackoffDurations(p) /\ DOMAIN BackoffDurations(r) = 1..N
      /\ BackoffDurations(r) # <<>> /\ Len(BackoffDurations(r)) = N
  <2>1. BackoffDurations(r) = [i \in 1..N |-> Durations[TrimSpace(t[i]).word]]
    BY <1>6 DEF BackoffDurations
  <2>2. BackoffDurations(p) = [i \in 1..N |-> Durations[TrimSpace(b[i]).word]]
    BY <1>4 DEF BackoffDurations, b
  <2>3. BackoffDurations(r) = BackoffDurations(p)
    BY <1>7, <2>1, <2>2
  <2>4. DOMAIN BackoffDurations(r) = 1..N /\ Len(BackoffDurations(r)) = N
    BY <1>4, <2>1
  <2> QED BY <1>4, <2>3, <2>4
<1>10. ASSUME NEW d \in 1..p.maxDeliver
       PROVE  DelayForDelivery(r, d) = BackoffDurations(p)[IF d <= N THEN d ELSE N]
  <2>1. d \in Nat /\ d # 0
    BY <1>1
  <2>2. d <= N <=> ~(d > N)
    BY <1>4, <2>1
  <2> QED BY <1>9, <2>1, <2>2 DEF DelayForDelivery
<1> QED BY <1>5, <1>6, <1>8, <1>10 DEF b, N

\* The sidecar of a unit with a normal serverless spec reads what was written
\* for it: its name, request ID, paths and port, and the delay of each delivery.
LEMMA SidecarReads ==
  ASSUME NEW name, name.form = "plain", name # Blank,
         NEW s, NormalServerless(s), s.enabled,
         NEW c, c.dispatchRetry.maxDeliver \in Int, c.dispatchRetry.backoff \in Seq(Texts),
         NEW n \in NormalizedWorkerConfig(c), NEW env \in desiredUnitServerlessSidecar(name, s, c)
  PROVE  \E got \in LoadConfigFromEnv(env), r \in resolveUnitServerlessSpec(s) :
           /\ got.workerName = name /\ got.healthPort = n.healthPort
           /\ \A f \in {"requestID", "socketPath", "invokePath", "healthPath"} : got[f] = r[f]
           /\ got.dispatchRetry.maxDeliver = n.dispatchRetry.maxDeliver
           /\ \A d \in 1..n.dispatchRetry.maxDeliver :
                DelayForDelivery(got.dispatchRetry, d)
                  = BackoffDurations(n.dispatchRetry)[IF d <= Len(n.dispatchRetry.backoff) THEN d
                                                      ELSE Len(n.dispatchRetry.backoff)]
<1> DEFINE r == Resolved(s)
           p == n.dispatchRetry
           port == IF ValidPort(c.healthPort) THEN c.healthPort ELSE DefaultHealthPort
           interval == IF TrimSpace(c.heartbeatInterval) = Blank
                       THEN DefaultHeartbeatInterval ELSE c.heartbeatInterval
<1>1. s # NoServerless
  BY DEF NoServerless
<1>2. /\ IsName(s.requestID) /\ Len(s.requestID.word) = 1
      /\ CleanForm(s.socketPath) /\ s.socketPath # Blank /\ UnderSocketDir(s.socketPath)
      /\ CleanForm(s.invokePath) /\ CleanForm(s.healthPath)
  BY <1>1 DEF NormalServerless
<1>3. resolveUnitServerlessSpec(s) = {r}
  BY <1>1, ServerlessResolved
<1>4. /\ r.requestID = s.requestID /\ r.socketPath = s.socketPath
      /\ r.invokePath = normalizePath(s.invokePath, DefaultInvokePath)
      /\ r.healthPath = normalizePath(s.healthPath, DefaultHealthPath)
  BY DEF Resolved, ServerlessFields
<1> HIDE DEF r
<1>5. ASSUME NEW m \in NormalizedWorkerConfig(c)
      PROVE  /\ ParseDuration(interval) /\ m.healthPort = port /\ m.heartbeatInterval = interval
             /\ m.dispatchRetry \in NormalizedRetry(c.dispatchRetry)
  BY DEF NormalizedWorkerConfig
<1>6. \A q1, q2 \in NormalizedRetry(c.dispatchRetry) : q1 = q2
  BY DEF NormalizedRetry, Accept
<1>7. PICK m \in NormalizedWorkerConfig(c) : env = sidecarEnv(name, r, m)
  BY <1>3 DEF desiredUnitServerlessSidecar
<1>8. m.dispatchRetry = p
  BY <1>5, <1>6
<1>9. /\ env.workerName = name /\ env.requestID = s.requestID /\ env.socketPath = s.socketPath
      /\ env.invokePath = r.invokePath /\ env.healthPath = r.healthPath
      /\ env.heartbeatInterval = interval /\ env.healthPort = port
      /\ env.maxDeliver = p.maxDeliver /\ env.backoff = Join(p.backoff)
  BY <1>4, <1>5, <1>7, <1>8 DEF sidecarEnv
<1>10. p \in NormalizedRetry(c.dispatchRetry) /\ n.healthPort = port /\ ParseDuration(interval)
  BY <1>5
<1> HIDE DEF p
<1>11. PICK q \in NormalizedRetry(RetryPolicyFromEnv(p.maxDeliver, Join(p.backoff))) :
         /\ q.maxDeliver = p.maxDeliver
         /\ \A d \in 1..p.maxDeliver :
              DelayForDelivery(q, d)
                = BackoffDurations(p)[IF d <= Len(p.backoff) THEN d ELSE Len(p.backoff)]
  BY <1>10, RetrySurvives
<1> DEFINE got == [workerName |-> name, requestID |-> s.requestID, socketPath |-> s.socketPath,
                   invokePath |-> r.invokePath, healthPath |-> r.healthPath,
                   heartbeatInterval |-> interval, healthPort |-> port,
                   dispatchAckWait |-> defaultDispatchAckWait, dispatchRetry |-> q]
<1>12. got \in LoadConfigFromEnv(env)
  <2>1. TrimSpace(env.workerName) = name
    BY <1>9, Trimmed
  <2>2. Default(TrimSpace(env.heartbeatInterval), DefaultHeartbeatInterval) = interval
    <3>1. interval.form = "plain"
      BY <1>10 DEF ParseDuration
    <3>2. interval # Blank
      <4>1. TrimSpace(Blank) = Blank
        BY DEF TrimSpace, Blank, Plain, Text
      <4> QED BY <4>1 DEF DefaultHeartbeatInterval, Blank, Plain, Text
    <3> HIDE DEF interval
    <3>3. TrimSpace(interval) = interval
      BY <3>1, Trimmed
    <3> QED BY <1>9, <3>2, <3>3 DEF Default
  <2>3. normalizeSocketPath(env.socketPath) = s.socketPath
    BY <1>2, <1>9, SocketsClean
  <2>4. NormalizeRequestID(env.requestID) = {s.requestID}
    BY <1>2, <1>9, RequestIDStable
  <2>5. normalizePath(env.invokePath, DefaultInvokePath) = r.invokePath
    BY <1>2, <1>4, <1>9, PathsClean, Fallbacks
  <2>6. normalizePath(env.healthPath, DefaultHealthPath) = r.healthPath
    BY <1>2, <1>4, <1>9, PathsClean, Fallbacks
  <2>7. (IF ValidPort(env.healthPort) THEN env.healthPort ELSE DefaultHealthPort) = port
    BY <1>9
  <2> HIDE DEF port, interval
  <2> QED BY <1>2, <1>9, <1>10, <1>11, <2>1, <2>2, <2>3, <2>4, <2>5, <2>6, <2>7 DEF LoadConfigFromEnv
<1>13. /\ got.workerName = name /\ got.healthPort = n.healthPort
       /\ \A f \in {"requestID", "socketPath", "invokePath", "healthPath"} : got[f] = r[f]
       /\ got.dispatchRetry = q
  BY <1>4, <1>10
<1> HIDE DEF got
<1> QED BY <1>3, <1>11, <1>12, <1>13 DEF p
=============================================================================
