-------------------------- MODULE ResidentsProofs --------------------------
(***************************************************************************)
(* Proofs about Residents, for any memory, any other resident programs and *)
(* any order in which they come and go.                                    *)
(***************************************************************************)
EXTENDS Residents, WellFoundedInduction, TLAPS

-----------------------------------------------------------------------------
(* The inductive invariant *)

Hooked(b) == \E v \in Vectors : Within(b, chain[v])

\* b is a driver in all of its chains.
Settled(b) ==
  /\ owner[b] = b /\ code[b] \in Ours
  /\ \A v \in Hooks(code[b]) : Within(b, chain[v])

\* No block is in a chain twice.
Once ==
  \A v \in Vectors : \A i, j \in 1 .. Len(chain[v]) :
    chain[v][i] = chain[v][j] => i = j

\* What the running program of ours holds at each place
RunShape ==
  /\ run # Idle => owner[run.psp] = run.psp
  /\ run.at \notin {"idle", "keep"} => ~Hooked(run.psp)
  /\ run.at \in {"install", "move", "uninstall"} => run.to = run.psp
  /\ run.at \in {"install", "uninstall", "restore", "free"} =>
       owner[run.env] = run.psp /\ run.env # run.psp
  /\ run.at \in {"install", "move"} => (run.psp \in Low => run.env \in Low)
  /\ run.at \in {"move", "configure"} => owner[run.env] = FREE
  /\ run.at \in {"install", "move"} => code[run.psp] = run.prog
  /\ run.at \in {"configure", "hook", "cancel", "finish"} =>
       /\ owner[run.to] = run.to /\ code[run.to] = run.prog
       /\ run.high <=> run.to # run.psp
  /\ run.at \in {"configure", "hook", "cancel", "free"} => ~Hooked(run.to)
  /\ run.at \in {"move", "cancel", "finish"} => run.high
  /\ run.at \in {"hook", "finish", "keep"} => run.to \in ready
  /\ run.at \in {"finish", "keep"} => Settled(run.to)
  /\ run.at = "keep" => run.to = run.psp
  /\ run.at \in {"restore", "free"} =>
       owner[run.to] = run.to /\ code[run.to] = run.prog /\ run.to # run.psp
  /\ run.at = "restore" => Uninstallable(run.prog, run.to)

\* Every block that is in use has an owner that holds it.
Owners ==
  \A b \in Blocks : owner[b] # FREE =>
    \/ owner[b] = b
    \/ /\ run.at \in {"install", "uninstall", "restore", "free", "exit"}
       /\ b = run.env /\ owner[b] = run.psp

\* What is neither settled nor of another program is the running program's.
Residue ==
  \A b \in Blocks : owner[b] # FREE /\ code[b] \notin Others =>
    \/ Settled(b)
    \/ run # Idle /\ owner[b] = run.psp
    \/ run.at \in {"configure", "hook", "cancel", "finish", "free"} /\ b = run.to

IInv ==
  /\ TypeOK /\ ChainsAreWhole /\ Once /\ RunShape /\ Owners /\ Residue
  /\ MemoryIsItsOwn


-----------------------------------------------------------------------------
(* Chains as sequences *)

LEMMA PutFirst ==
  ASSUME NEW c \in Seq(Blocks), NEW b \in Blocks
  PROVE  LET d == <<b>> \o c
         IN  /\ d \in Seq(Blocks) /\ Len(d) = Len(c) + 1 /\ d[1] = b
             /\ \A i \in 1 .. Len(c) : d[i + 1] = c[i]
  OBVIOUS

LEMMA WithoutFirst ==
  ASSUME NEW c \in Seq(Blocks), NEW b \in Blocks, c # <<>>, c[1] = b,
         \A i, j \in 1 .. Len(c) : c[i] = c[j] => i = j
  PROVE  LET d == Without(c, b)
         IN  /\ d \in Seq(Blocks) /\ Len(d) = Len(c) - 1
             /\ \A i \in 1 .. Len(d) : d[i] = c[i + 1]
<1>1. Len(c) \in Nat /\ Len(c) >= 1 /\ Within(b, c)
  BY DEF Within
<1>2. (CHOOSE i \in 1 .. Len(c) : c[i] = b) = 1
  <2>1. \A i \in 1 .. Len(c) : c[i] = b <=> i = 1
    BY <1>1
  <2> QED BY <2>1, <1>1
<1>3. Without(c, b) = [i \in 1 .. Len(c) - 1 |-> IF i < 1 THEN c[i] ELSE c[i + 1]]
  BY <1>1, <1>2 DEF Without
<1>4. \A i \in 1 .. Len(c) - 1 : i + 1 \in 1 .. Len(c) /\ ~ (i < 1)
  BY <1>1
<1>5. Without(c, b) = [i \in 1 .. Len(c) - 1 |-> c[i + 1]]
  BY <1>3, <1>4
<1>6. Len(c) - 1 \in Nat /\ \A i \in 1 .. Len(c) - 1 : c[i + 1] \in Blocks
  BY <1>1, <1>4
<1> QED BY <1>5, <1>6

\* What ChainsAreWhole, in positions, says of a block.
LEMMA HookedFacts ==
  ASSUME TypeOK, ChainsAreWhole, ResidentsAssumption, NEW b, Hooked(b)
  PROVE  /\ b \in Blocks /\ owner[b] = b /\ owner[b] # FREE /\ b \in ready
         /\ code[b] \in Others \/ code[b] \in Ours
         /\ \A v \in Vectors : Within(b, chain[v]) /\ code[b] \in Ours =>
              v \in Hooks(code[b])
  BY DEF TypeOK, ChainsAreWhole, Hooked, Within, ResidentsAssumption, Ours

LEMMA FirstIsVector ==
  ASSUME TypeOK, ChainsAreWhole, ResidentsAssumption,
         NEW v \in Vectors, NEW b \in Blocks, vect[v] = b
  PROVE  chain[v] # <<>> /\ chain[v][1] = b /\ Within(b, chain[v])
<1>1. chain[v] \in Seq(Blocks)
  BY DEF TypeOK
<1>2. Behind(chain[v], 0) = b
  BY DEF ChainsAreWhole
<1>3. Len(chain[v]) # 0
  BY <1>2, <1>1 DEF Behind, ResidentsAssumption
<1> QED BY <1>1, <1>2, <1>3 DEF Behind, Within

LEMMA HooksAreVectors ==
  ASSUME NEW p \in Ours PROVE Hooks(p) \subseteq Vectors /\ Asks(p) \in Hooks(p)
  BY DEF Hooks, Asks, Vectors

-----------------------------------------------------------------------------
(* How the chains change *)

\* Changes of memory outside the chains leave them whole.
LEMMA ChainsStay ==
  ASSUME TypeOK, ChainsAreWhole, Once, ResidentsAssumption,
         vect' = vect, chain' = chain,
         \A b \in Blocks : Hooked(b) =>
           /\ owner'[b] = owner[b] /\ code'[b] = code[b] /\ prev'[b] = prev[b]
           /\ b \in ready'
  PROVE  ChainsAreWhole' /\ Once'
<1>1. ASSUME NEW v \in Vectors, NEW i \in 1 .. Len(chain[v])
      PROVE  Hooked(chain[v][i]) /\ chain[v][i] \in Blocks
  BY <1>1 DEF Hooked, Within, TypeOK
<1> QED BY <1>1 DEF ChainsAreWhole, Once, Behind, TypeOK

LEMMA ReleaseKeepsChains ==
  ASSUME TypeOK, ChainsAreWhole, Once, ResidentsAssumption, NEW S, Released(S),
         vect' = vect, chain' = chain, \A b \in S : ~ Hooked(b)
  PROVE  ChainsAreWhole' /\ Once'
<1>1. \A b \in Blocks : Hooked(b) =>
        /\ owner'[b] = owner[b] /\ code'[b] = code[b] /\ prev'[b] = prev[b]
        /\ b \in ready'
  BY HookedFacts DEF Released, TypeOK
<1> QED BY <1>1, ChainsStay

LEMMA HookingKeepsChains ==
  ASSUME TypeOK, ChainsAreWhole, Once, ResidentsAssumption,
         NEW b \in Blocks, NEW V \in SUBSET Vectors, SetVectors(b, V), ~ Hooked(b),
         owner'[b] = b, b \in ready',
         code'[b] \in Others \/ (code'[b] \in Ours /\ V \subseteq Hooks(code'[b])),
         \A x \in Blocks \ {b} : owner'[x] = owner[x] /\ code'[x] = code[x],
         ready \subseteq ready'
  PROVE  /\ ChainsAreWhole' /\ Once' /\ chain' \in [Vectors -> Seq(Blocks)]
         /\ \A x : \A v \in Vectors :
              Within(x, chain'[v]) <=> (Within(x, chain[v]) \/ (x = b /\ v \in V))
<1>1. ASSUME NEW v \in V
      PROVE  /\ chain'[v] \in Seq(Blocks) /\ Len(chain'[v]) = Len(chain[v]) + 1
             /\ chain'[v][1] = b
             /\ \A i \in 1 .. Len(chain[v]) : chain'[v][i + 1] = chain[v][i]
             /\ vect'[v] = b /\ prev'[b][v] = vect[v]
  <2>1. chain[v] \in Seq(Blocks) /\ chain'[v] = <<b>> \o chain[v]
    BY <1>1 DEF SetVectors, TypeOK
  <2>2. vect'[v] = b /\ prev'[b][v] = vect[v]
    BY <1>1 DEF SetVectors, TypeOK
  <2> QED BY <2>1, <2>2, PutFirst
<1>2. ASSUME NEW v \in Vectors \ V PROVE chain'[v] = chain[v] /\ vect'[v] = vect[v]
  BY <1>2 DEF SetVectors
<1>3. \A x \in Blocks \ {b} : prev'[x] = prev[x]
  BY DEF SetVectors, TypeOK
<1>4. \A v \in Vectors : chain[v] \in Seq(Blocks) /\ Len(chain[v]) \in Nat
  BY DEF TypeOK
<1>5. chain' \in [Vectors -> Seq(Blocks)]
  BY <1>1, <1>2, <1>4 DEF SetVectors
<1>6. ASSUME NEW x, NEW v \in Vectors
      PROVE  Within(x, chain'[v]) <=> (Within(x, chain[v]) \/ (x = b /\ v \in V))
  <2>1. CASE v \in V
    <3>1. ASSUME NEW i \in 1 .. Len(chain'[v]), chain'[v][i] = x, i # 1
          PROVE  Within(x, chain[v])
      <4>1. i - 1 \in 1 .. Len(chain[v]) /\ (i - 1) + 1 = i
        BY <3>1, <1>1, <1>4, <2>1
      <4>2. chain'[v][(i - 1) + 1] = chain[v][i - 1]
        BY <4>1, <1>1, <2>1
      <4> QED BY <4>1, <4>2, <3>1 DEF Within
    <3>2. ASSUME NEW i \in 1 .. Len(chain[v]), chain[v][i] = x
          PROVE  Within(x, chain'[v])
      <4>1. i + 1 \in 1 .. Len(chain'[v])
        BY <3>2, <1>1, <1>4, <2>1
      <4> QED BY <4>1, <3>2, <1>1, <2>1 DEF Within
    <3>3. Within(b, chain'[v])
      <4>1. 1 \in 1 .. Len(chain'[v])
        BY <1>1, <1>4, <2>1
      <4> QED BY <4>1, <1>1, <2>1 DEF Within
    <3> QED BY <3>1, <3>2, <3>3, <1>1, <2>1 DEF Within
  <2>2. CASE v \notin V
    BY <2>2, <1>2
  <2> QED BY <2>1, <2>2
<1>7. ASSUME NEW v \in Vectors, NEW i \in 1 .. Len(chain[v])
      PROVE  /\ chain[v][i] \in Blocks \ {b} /\ Hooked(chain[v][i])
             /\ owner'[chain[v][i]] = chain[v][i] /\ chain[v][i] \in ready'
             /\ \/ code'[chain[v][i]] \in Others
                \/ code'[chain[v][i]] \in Ours /\ v \in Hooks(code'[chain[v][i]])
             /\ prev'[chain[v][i]][v] = Behind(chain[v], i)
  <2>1. Hooked(chain[v][i]) /\ chain[v][i] \in Blocks
    BY <1>7, <1>4 DEF Hooked, Within
  <2>2. chain[v][i] # b
    BY <2>1
  <2> QED BY <2>1, <2>2, <1>3 DEF ChainsAreWhole
<1>8. ChainsAreWhole'
  <2> SUFFICES ASSUME NEW v \in Vectors
               PROVE  /\ vect'[v] = Behind(chain'[v], 0)
                      /\ \A i \in 1 .. Len(chain'[v]) :
                           LET x == chain'[v][i]
                           IN  /\ owner'[x] = x /\ x \in ready'
                               /\ \/ code'[x] \in Others
                                  \/ code'[x] \in Ours /\ v \in Hooks(code'[x])
                               /\ prev'[x][v] = Behind(chain'[v], i)
    BY DEF ChainsAreWhole, Hooks, Ours, Behind
  <2>1. CASE v \notin V
    BY <2>1, <1>2, <1>7 DEF ChainsAreWhole
  <2>2. CASE v \in V
    <3>1. vect'[v] = Behind(chain'[v], 0)
      BY <2>2, <1>1, <1>4 DEF Behind
    <3>2. prev'[b][v] = Behind(chain'[v], 1)
      <4>1. prev'[b][v] = Behind(chain[v], 0)
        BY <2>2, <1>1 DEF ChainsAreWhole
      <4>2. CASE Len(chain[v]) = 0
        <5>1. Behind(chain[v], 0) = BIOS
          BY <4>2 DEF Behind
        <5>2. Len(chain'[v]) = 1
          <6>1. Len(chain'[v]) = Len(chain[v]) + 1
            BY <2>2, <1>1
          <6> QED BY <6>1, <4>2
        <5> QED BY <4>1, <5>1, <5>2 DEF Behind
      <4>3. CASE Len(chain[v]) # 0
        <5>1. 1 \in 1 .. Len(chain[v]) /\ Len(chain'[v]) # 1
          BY <4>3, <2>2, <1>1, <1>4
        <5>2. chain'[v][1 + 1] = chain[v][1]
          BY <5>1, <2>2, <1>1
        <5> QED BY <4>1, <4>3, <5>1, <5>2 DEF Behind
      <4> QED BY <4>2, <4>3
    <3>3. ASSUME NEW i \in 1 .. Len(chain[v])
          PROVE  Behind(chain'[v], i + 1) = Behind(chain[v], i)
      <4>1. CASE i = Len(chain[v])
        BY <4>1, <2>2, <1>1 DEF Behind
      <4>2. CASE i # Len(chain[v])
        <5>1. i + 1 \in 1 .. Len(chain[v]) /\ i + 1 # Len(chain'[v])
          BY <4>2, <3>3, <2>2, <1>1, <1>4
        <5>2. chain'[v][(i + 1) + 1] = chain[v][i + 1]
          BY <5>1, <2>2, <1>1
        <5> QED BY <4>2, <5>1, <5>2 DEF Behind
      <4> QED BY <4>1, <4>2
    <3>4. ASSUME NEW i \in 1 .. Len(chain'[v]), i # 1
          PROVE  /\ i - 1 \in 1 .. Len(chain[v]) /\ (i - 1) + 1 = i
                 /\ chain'[v][i] = chain[v][i - 1]
      <4>1. i - 1 \in 1 .. Len(chain[v]) /\ (i - 1) + 1 = i
        BY <3>4, <2>2, <1>1, <1>4
      <4>2. chain'[v][(i - 1) + 1] = chain[v][i - 1]
        BY <4>1, <2>2, <1>1
      <4> QED BY <4>1, <4>2
    <3>5. ASSUME NEW i \in 1 .. Len(chain'[v]), i # 1
          PROVE  LET x == chain'[v][i]
                 IN  /\ owner'[x] = x /\ x \in ready'
                     /\ \/ code'[x] \in Others
                        \/ code'[x] \in Ours /\ v \in Hooks(code'[x])
                     /\ prev'[x][v] = Behind(chain'[v], i)
      <4>1. PICK j \in 1 .. Len(chain[v]) : j + 1 = i /\ chain'[v][i] = chain[v][j]
        BY <3>4, <3>5
      <4>2. Behind(chain'[v], i) = Behind(chain[v], j)
        BY <4>1, <3>3
      <4> QED BY <4>1, <4>2, <1>7
    <3>6. code'[b] \in Others \/ (code'[b] \in Ours /\ v \in Hooks(code'[b]))
      BY <2>2
    <3> QED BY <3>1, <3>2, <3>5, <3>6, <1>1, <2>2
  <2> QED BY <2>1, <2>2
<1>9. Once'
  <2> SUFFICES ASSUME NEW v \in Vectors, NEW i \in 1 .. Len(chain'[v]),
                      NEW j \in 1 .. Len(chain'[v]), chain'[v][i] = chain'[v][j]
               PROVE  i = j
    BY DEF Once
  <2>1. CASE v \notin V
    BY <2>1, <1>2 DEF Once
  <2>2. CASE v \in V
    <3>1. \A k \in 1 .. Len(chain'[v]) : k # 1 =>
            /\ k - 1 \in 1 .. Len(chain[v]) /\ (k - 1) + 1 = k
            /\ k \in Int
      BY <2>2, <1>1, <1>4
    <3>2. \A k \in 1 .. Len(chain'[v]) : k # 1 => chain'[v][k] = chain[v][k - 1]
      <4> SUFFICES ASSUME NEW k \in 1 .. Len(chain'[v]), k # 1
                   PROVE  chain'[v][k] = chain[v][k - 1]
        OBVIOUS
      <4>1. chain'[v][(k - 1) + 1] = chain[v][k - 1]
        BY <3>1, <2>2, <1>1
      <4> QED BY <4>1, <3>1
    <3>3. \A k \in 1 .. Len(chain'[v]) : k # 1 => chain'[v][k] # b
      BY <3>1, <3>2, <1>7
    <3>4. CASE i = 1
      BY <3>4, <3>3, <2>2, <1>1
    <3>5. CASE j = 1
      BY <3>5, <3>3, <2>2, <1>1
    <3>6. CASE i # 1 /\ j # 1
      <4>1. /\ i - 1 \in 1 .. Len(chain[v]) /\ j - 1 \in 1 .. Len(chain[v])
            /\ chain[v][i - 1] = chain[v][j - 1]
        BY <3>6, <3>1, <3>2
      <4>2. i - 1 = j - 1
        BY <4>1 DEF Once
      <4> QED BY <4>2, <3>6, <3>1
    <3> QED BY <3>4, <3>5, <3>6
  <2> QED BY <2>1, <2>2
<1> QED BY <1>5, <1>6, <1>8, <1>9

LEMMA UnhookingKeepsChains ==
  ASSUME TypeOK, ChainsAreWhole, Once, ResidentsAssumption,
         NEW b \in Blocks, NEW V \in SUBSET Vectors, PutBack(b, V),
         \A v \in V : vect[v] = b,
         \A v \in Vectors : Within(b, chain[v]) => v \in V,
         \A x \in Blocks \ {b} : /\ owner'[x] = owner[x] /\ code'[x] = code[x]
                                 /\ prev'[x] = prev[x] /\ (x \in ready => x \in ready')
  PROVE  /\ ChainsAreWhole' /\ Once' /\ chain' \in [Vectors -> Seq(Blocks)]
         /\ \A x : \A v \in Vectors :
              Within(x, chain'[v]) <=> (Within(x, chain[v]) /\ x # b)
<1>1. \A v \in Vectors : chain[v] \in Seq(Blocks) /\ Len(chain[v]) \in Nat
  BY DEF TypeOK
<1>2. ASSUME NEW v \in V
      PROVE  /\ chain[v][1] = b /\ Len(chain[v]) >= 1
             /\ chain'[v] \in Seq(Blocks) /\ Len(chain'[v]) = Len(chain[v]) - 1
             /\ \A i \in 1 .. Len(chain'[v]) : chain'[v][i] = chain[v][i + 1]
             /\ vect'[v] = prev[b][v]
  <2>1. chain[v] # <<>> /\ chain[v][1] = b
    BY <1>2, FirstIsVector
  <2>2. chain'[v] = Without(chain[v], b) /\ vect'[v] = prev[b][v]
    BY <1>2 DEF PutBack
  <2>3. chain[v] \in Seq(Blocks) /\ Len(chain[v]) >= 1
    BY <2>1, <1>1, <1>2
  <2>4. \A i, j \in 1 .. Len(chain[v]) : chain[v][i] = chain[v][j] => i = j
    BY <1>2 DEF Once
  <2>5. /\ Without(chain[v], b) \in Seq(Blocks)
        /\ Len(Without(chain[v], b)) = Len(chain[v]) - 1
        /\ \A i \in 1 .. Len(Without(chain[v], b)) :
             Without(chain[v], b)[i] = chain[v][i + 1]
    BY <2>1, <2>3, <2>4, WithoutFirst
  <2> QED BY <2>1, <2>2, <2>3, <2>5
<1>3. ASSUME NEW v \in Vectors \ V PROVE chain'[v] = chain[v] /\ vect'[v] = vect[v]
  BY <1>3 DEF PutBack
<1>4. chain' \in [Vectors -> Seq(Blocks)]
  BY <1>1, <1>2, <1>3 DEF PutBack
<1>5. ASSUME NEW v \in V, NEW i \in 1 .. Len(chain'[v])
      PROVE  /\ i + 1 \in 1 .. Len(chain[v]) /\ chain'[v][i] = chain[v][i + 1]
             /\ chain[v][i + 1] # b
  <2>1. i + 1 \in 1 .. Len(chain[v]) /\ i + 1 # 1 /\ 1 \in 1 .. Len(chain[v])
    BY <1>5, <1>2, <1>1
  <2>2. chain[v][i + 1] # b
    BY <2>1, <1>2 DEF Once
  <2> QED BY <2>1, <2>2, <1>2
<1>6. ASSUME NEW x, NEW v \in Vectors
      PROVE  Within(x, chain'[v]) <=> (Within(x, chain[v]) /\ x # b)
  <2>1. CASE v \in V
    <3>1. Within(x, chain'[v]) => (Within(x, chain[v]) /\ x # b)
      BY <2>1, <1>5 DEF Within
    <3>2. ASSUME NEW i \in 1 .. Len(chain[v]), chain[v][i] = x, x # b
          PROVE  Within(x, chain'[v])
      <4>1. i # 1
        BY <3>2, <2>1, <1>2
      <4>2. i - 1 \in 1 .. Len(chain'[v]) /\ (i - 1) + 1 = i
        BY <4>1, <3>2, <2>1, <1>1, <1>2
      <4>3. chain'[v][i - 1] = chain[v][(i - 1) + 1]
        BY <4>2, <2>1, <1>2
      <4> QED BY <4>2, <4>3, <3>2 DEF Within
    <3> QED BY <3>1, <3>2 DEF Within
  <2>2. CASE v \notin V
    BY <2>2, <1>3
  <2> QED BY <2>1, <2>2
<1>7. ASSUME NEW v \in Vectors, NEW i \in 1 .. Len(chain[v]), chain[v][i] # b
      PROVE  LET x == chain[v][i]
             IN  /\ owner'[x] = x /\ x \in ready'
                 /\ \/ code'[x] \in Others
                    \/ code'[x] \in Ours /\ v \in Hooks(code'[x])
                 /\ prev'[x][v] = Behind(chain[v], i)
  BY <1>7, <1>1 DEF ChainsAreWhole
<1>8. ChainsAreWhole'
  <2> SUFFICES ASSUME NEW v \in Vectors
               PROVE  /\ vect'[v] = Behind(chain'[v], 0)
                      /\ \A i \in 1 .. Len(chain'[v]) :
                           LET x == chain'[v][i]
                           IN  /\ owner'[x] = x /\ x \in ready'
                               /\ \/ code'[x] \in Others
                                  \/ code'[x] \in Ours /\ v \in Hooks(code'[x])
                               /\ prev'[x][v] = Behind(chain'[v], i)
    BY DEF ChainsAreWhole, Hooks, Ours, Behind
  <2>1. CASE v \notin V
    <3>1. \A i \in 1 .. Len(chain[v]) : chain[v][i] # b
      BY <2>1 DEF Within
    <3> QED BY <2>1, <3>1, <1>3, <1>7 DEF ChainsAreWhole
  <2>2. CASE v \in V
    <3>1. \A i \in 0 .. Len(chain'[v]) : Behind(chain'[v], i) = Behind(chain[v], i + 1)
      <4> SUFFICES ASSUME NEW i \in 0 .. Len(chain'[v])
                   PROVE  Behind(chain'[v], i) = Behind(chain[v], i + 1)
        OBVIOUS
      <4>1. CASE i = Len(chain'[v])
        <5>1. i + 1 = Len(chain[v])
          BY <4>1, <2>2, <1>1, <1>2
        <5> QED BY <4>1, <5>1 DEF Behind
      <4>2. CASE i # Len(chain'[v])
        <5>1. i + 1 \in 1 .. Len(chain'[v]) /\ i + 1 # Len(chain[v])
          BY <4>2, <2>2, <1>1, <1>2
        <5>2. chain'[v][i + 1] = chain[v][(i + 1) + 1]
          BY <5>1, <2>2, <1>2
        <5> QED BY <4>2, <5>1, <5>2 DEF Behind
      <4> QED BY <4>1, <4>2
    <3>2. vect'[v] = Behind(chain'[v], 0)
      <4>1. vect'[v] = Behind(chain[v], 0 + 1)
        <5>1. 1 \in 1 .. Len(chain[v]) /\ chain[v][1] = b
          BY <2>2, <1>1, <1>2
        <5>2. prev[b][v] = Behind(chain[v], 1)
          BY <5>1 DEF ChainsAreWhole
        <5> QED BY <5>2, <2>2, <1>2
      <4>2. 0 \in 0 .. Len(chain'[v])
        BY <2>2, <1>1, <1>2
      <4> QED BY <4>1, <4>2, <3>1
    <3>3. ASSUME NEW i \in 1 .. Len(chain'[v])
          PROVE  LET x == chain'[v][i]
                 IN  /\ owner'[x] = x /\ x \in ready'
                     /\ \/ code'[x] \in Others
                        \/ code'[x] \in Ours /\ v \in Hooks(code'[x])
                     /\ prev'[x][v] = Behind(chain'[v], i)
      <4>1. PICK j \in 1 .. Len(chain[v]) :
              j = i + 1 /\ chain'[v][i] = chain[v][j] /\ chain[v][j] # b
        BY <3>3, <2>2, <1>5
      <4>2. Behind(chain'[v], i) = Behind(chain[v], j)
        BY <4>1, <3>1, <3>3
      <4> QED BY <4>1, <4>2, <1>7
    <3> QED BY <3>2, <3>3
  <2> QED BY <2>1, <2>2
<1>9. Once'
  <2> SUFFICES ASSUME NEW v \in Vectors, NEW i \in 1 .. Len(chain'[v]),
                      NEW j \in 1 .. Len(chain'[v]), chain'[v][i] = chain'[v][j]
               PROVE  i = j
    BY DEF Once
  <2>1. CASE v \notin V
    BY <2>1, <1>3 DEF Once
  <2>2. CASE v \in V
    <3>1. /\ i + 1 \in 1 .. Len(chain[v]) /\ j + 1 \in 1 .. Len(chain[v])
          /\ chain[v][i + 1] = chain[v][j + 1]
      BY <2>2, <1>5
    <3>2. i + 1 = j + 1
      BY <3>1 DEF Once
    <3> QED BY <3>2, <2>2, <1>2
  <2> QED BY <2>1, <2>2
<1> QED BY <1>4, <1>6, <1>8, <1>9

-----------------------------------------------------------------------------
(* Each action keeps the invariant *)

Fields == [at : Places, prog : Ours, psp : Blocks, env : Blocks, to : Blocks,
           high : BOOLEAN]

LEMMA Running ==
  ASSUME TypeOK, ResidentsAssumption
  PROVE  /\ run.at # "idle" => run \in Fields /\ run # Idle
         /\ run = Idle <=> run.at = "idle"
         /\ \A b \in Blocks : b # FREE
         /\ \A b \in Blocks : owner[b] \in Blocks \cup {FREE}
  BY DEF TypeOK, Idle, Fields, Places, ResidentsAssumption

\* What a block is in does not change as long as the chains do not.
LEMMA SameChains ==
  ASSUME chain' = chain
  PROVE  \A b : /\ Hooked(b)' <=> Hooked(b)
                /\ \A v \in Vectors : Within(b, chain[v])' <=> Within(b, chain[v])
  BY DEF Hooked, Within

LEMMA StartKeeps ==
  ASSUME IInv, ResidentsAssumption, NEW p \in Ours,
         NEW at \in {"install", "uninstall"}, NEW high \in BOOLEAN,
         Start(p, at, high)
  PROVE  IInv'
<1>1. PICK psp \in Blocks, env \in Blocks :
        /\ psp # env /\ owner[psp] = FREE /\ owner[env] = FREE
        /\ psp \in Low => env \in Low
        /\ owner' = [owner EXCEPT ![psp] = psp, ![env] = psp]
        /\ code' = [code EXCEPT ![psp] = p]
        /\ run' = [at |-> at, prog |-> p, psp |-> psp, env |-> env,
                   to |-> psp, high |-> high]
  BY DEF Start, Unused, Blocks, ResidentsAssumption
<1>2. UNCHANGED <<ready, vect, prev, chain, amiss>> /\ run = Idle
  BY DEF Start
<1>3. TypeOK'
  BY <1>1, <1>2 DEF IInv, TypeOK, Places, Programs
<1>4. ~ Hooked(psp) /\ ~ Hooked(env)
  BY <1>1, HookedFacts DEF IInv
<1>5. \A b \in Blocks \ {psp, env} : owner'[b] = owner[b] /\ code'[b] = code[b]
  BY <1>1 DEF IInv, TypeOK
<1>6. owner'[psp] = psp /\ owner'[env] = psp /\ code'[psp] = p
  BY <1>1 DEF IInv, TypeOK
<1>7. ChainsAreWhole' /\ Once'
  BY <1>2, <1>4, <1>5, HookedFacts, ChainsStay DEF IInv
<1>8. RunShape'
  BY <1>1, <1>2, <1>4, <1>6, SameChains DEF RunShape, Idle
<1>9. Owners'
  BY <1>1, <1>2, <1>5, <1>6 DEF IInv, Owners, Idle
<1>10. Residue'
  BY <1>1, <1>2, <1>5, <1>6, SameChains DEF IInv, Residue, Settled, Idle
<1> QED BY <1>2, <1>3, <1>7, <1>8, <1>9, <1>10 DEF IInv, MemoryIsItsOwn

LEMMA ReleasedFacts ==
  ASSUME TypeOK, NEW S, Released(S)
  PROVE  /\ \A b \in Blocks : b \in S => owner'[b] = FREE
         /\ \A b \in Blocks : b \notin S => owner'[b] = owner[b] /\ code'[b] = code[b]
         /\ owner' \in [Blocks -> Blocks \cup {FREE}]
         /\ code' \in [Blocks -> Programs \cup {FREE}]
         /\ ready' \subseteq Blocks /\ \A b \in ready : b \notin S => b \in ready'
         /\ prev' \in [Blocks -> [Vectors -> Blocks \cup {BIOS}]]
  BY DEF Released, TypeOK, Nowhere

LEMMA ExitKeeps ==
  ASSUME IInv, ResidentsAssumption, Exit
  PROVE  IInv'
<1>1. run.at = "exit" /\ Released(Own(run.psp)) /\ run' = Idle
  BY DEF Exit
<1>2. UNCHANGED <<vect, chain, amiss>>
  BY DEF Exit
<1>3. run \in Fields /\ owner[run.psp] = run.psp /\ ~ Hooked(run.psp)
  BY <1>1, Running DEF IInv, RunShape
<1>4. TypeOK'
  BY <1>1, <1>2, ReleasedFacts DEF IInv, TypeOK
<1>5. \A b \in Own(run.psp) : ~ Hooked(b)
  BY <1>3, HookedFacts DEF IInv, Own
<1>6. ChainsAreWhole' /\ Once'
  BY <1>1, <1>2, <1>5, ReleaseKeepsChains DEF IInv
<1>7. RunShape'
  BY <1>1 DEF RunShape, Idle
<1>8. \A b \in Blocks : owner'[b] # FREE =>
        /\ owner[b] # run.psp /\ owner'[b] = owner[b] /\ code'[b] = code[b]
  BY <1>1, ReleasedFacts DEF IInv, Own
<1>9. Owners'
  BY <1>1, <1>8 DEF IInv, Owners
<1>10. Residue'
  BY <1>1, <1>2, <1>8, SameChains DEF IInv, Residue, Settled
<1> QED BY <1>2, <1>4, <1>6, <1>7, <1>9, <1>10 DEF IInv, MemoryIsItsOwn

LEMMA InstallKeeps ==
  ASSUME IInv, ResidentsAssumption, Install
  PROVE  IInv'
<1>1. /\ run.at = "install" /\ run \in Fields /\ owner[run.psp] = run.psp
      /\ ~ Hooked(run.psp) /\ run.to = run.psp
      /\ owner[run.env] = run.psp /\ run.env # run.psp
      /\ run.psp \in Low => run.env \in Low
      /\ code[run.psp] = run.prog
  BY Running DEF IInv, RunShape, Install
<1>2. UNCHANGED <<vect, chain>>
  BY DEF Install
<1>3. CASE UNCHANGED <<owner, code, ready, prev, amiss>> /\ run' = [run EXCEPT !.at = "exit"]
  <2>1. /\ run'.at = "exit" /\ run'.psp = run.psp /\ run'.env = run.env
        /\ run' \in Fields /\ run' # Idle
    BY <1>1, <1>3 DEF Fields, Places, Idle
  <2>2. TypeOK'
    BY <1>2, <1>3, <2>1 DEF IInv, TypeOK, Fields
  <2>3. ChainsAreWhole' /\ Once'
    BY <1>2, <1>3, HookedFacts, ChainsStay DEF IInv
  <2>4. RunShape'
    BY <1>1, <1>2, <1>3, <2>1, SameChains DEF RunShape
  <2>5. Owners'
    BY <1>1, <1>3, <2>1 DEF IInv, Owners
  <2>6. Residue'
    BY <1>1, <1>2, <1>3, <2>1, SameChains DEF IInv, Residue, Settled
  <2> QED BY <1>3, <2>2, <2>3, <2>4, <2>5, <2>6 DEF IInv, MemoryIsItsOwn
<1>4. CASE /\ DosFree(run.env, run.psp)
           /\ run' = [run EXCEPT !.at = IF run.high THEN "move" ELSE "configure"]
  <2>1. /\ run'.at = IF run.high THEN "move" ELSE "configure"
        /\ run'.psp = run.psp /\ run'.env = run.env /\ run'.to = run.to
        /\ run'.prog = run.prog /\ run'.high = run.high
        /\ run' \in Fields /\ run' # Idle /\ run.high \in BOOLEAN
    BY <1>1, <1>4 DEF Fields, Places, Idle
  <2>2. Released({run.env}) /\ amiss' = amiss
    BY <1>1, <1>4 DEF DosFree, Own, Fields
  <2>3. TypeOK'
    BY <1>2, <2>1, <2>2, ReleasedFacts DEF IInv, TypeOK, Fields
  <2>4. ~ Hooked(run.env)
    BY <1>1, HookedFacts DEF IInv
  <2>5. ChainsAreWhole' /\ Once'
    BY <1>2, <2>2, <2>4, ReleaseKeepsChains DEF IInv
  <2>6. /\ owner'[run.env] = FREE
        /\ \A b \in Blocks \ {run.env} : owner'[b] = owner[b] /\ code'[b] = code[b]
    BY <1>1, <2>2, ReleasedFacts DEF IInv, Fields
  <2>7. owner'[run.psp] = run.psp /\ code'[run.psp] = run.prog
    BY <1>1, <2>6 DEF Fields
  <2>8. RunShape'
    BY <1>1, <1>2, <2>1, <2>6, <2>7, SameChains DEF RunShape
  <2>9. Owners'
    BY <1>1, <2>1, <2>6 DEF IInv, Owners
  <2>10. Residue'
    BY <1>1, <1>2, <2>1, <2>6, SameChains DEF IInv, Residue, Settled
  <2> QED BY <2>2, <2>3, <2>5, <2>8, <2>9, <2>10 DEF IInv, MemoryIsItsOwn
<1> QED BY <1>3, <1>4 DEF Install

LEMMA MoveUpKeeps ==
  ASSUME IInv, ResidentsAssumption, NEW b \in Blocks, MoveUp(b)
  PROVE  IInv'
<1>1. /\ run.at = "move" /\ run \in Fields /\ owner[run.psp] = run.psp
      /\ ~ Hooked(run.psp) /\ run.to = run.psp /\ owner[run.env] = FREE
      /\ run.high /\ run.psp \in Low /\ run.env \in Low
  BY Running DEF IInv, RunShape, MoveUp
<1>2. b \in High /\ owner[b] = FREE
  BY DEF MoveUp, Allocated, Unused, ResidentsAssumption, Blocks
<1>3. /\ owner' = [owner EXCEPT ![b] = b] /\ code' = [code EXCEPT ![b] = run.prog]
      /\ UNCHANGED <<ready, vect, prev, chain, amiss>>
  BY DEF MoveUp
<1>4. /\ run'.at = "configure" /\ run'.psp = run.psp /\ run'.env = run.env
      /\ run'.to = b /\ run'.prog = run.prog /\ run'.high
      /\ run' \in Fields /\ run' # Idle
  BY <1>1 DEF MoveUp, Fields, Places, Idle
<1>5. TypeOK'
  BY <1>1, <1>3, <1>4 DEF IInv, TypeOK, Fields, Programs
<1>6. ~ Hooked(b) /\ b # run.psp /\ b # run.env
  BY <1>1, <1>2, HookedFacts, Running DEF IInv, ResidentsAssumption
<1>7. /\ owner'[b] = b /\ code'[b] = run.prog
      /\ \A x \in Blocks \ {b} : owner'[x] = owner[x] /\ code'[x] = code[x]
  BY <1>3 DEF IInv, TypeOK
<1>8. ChainsAreWhole' /\ Once'
  BY <1>3, <1>6, <1>7, HookedFacts, ChainsStay DEF IInv
<1>9. owner'[run.psp] = run.psp /\ owner'[run.env] = FREE
  BY <1>1, <1>6, <1>7 DEF Fields
<1>10. RunShape'
  BY <1>1, <1>3, <1>4, <1>6, <1>7, <1>9, SameChains DEF RunShape
<1>11. Owners'
  BY <1>1, <1>4, <1>7 DEF IInv, Owners
<1>12. Residue'
  BY <1>1, <1>3, <1>4, <1>7, SameChains DEF IInv, Residue, Settled
<1> QED BY <1>3, <1>5, <1>8, <1>10, <1>11, <1>12 DEF IInv, MemoryIsItsOwn

\* Steps that change neither the memory nor the chains
LEMMA StillFacts ==
  ASSUME TypeOK, ChainsAreWhole, Once, ResidentsAssumption,
         UNCHANGED <<owner, code, vect, prev, chain>>, ready \subseteq ready',
         ready' \subseteq Blocks, run' \in Fields \cup {Idle}
  PROVE  /\ TypeOK' /\ ChainsAreWhole' /\ Once'
         /\ \A b : /\ Hooked(b)' <=> Hooked(b)
                   /\ Settled(b)' <=> Settled(b)
<1>1. TypeOK'
  BY DEF TypeOK, Fields
<1>2. ChainsAreWhole' /\ Once'
  BY HookedFacts, ChainsStay
<1> QED BY <1>1, <1>2, SameChains DEF Settled

LEMMA StayDownKeeps ==
  ASSUME IInv, ResidentsAssumption, StayDown
  PROVE  IInv'
<1>1. /\ run.at = "move" /\ run \in Fields /\ owner[run.psp] = run.psp
      /\ ~ Hooked(run.psp) /\ run.to = run.psp /\ owner[run.env] = FREE
      /\ code[run.psp] = run.prog
  BY Running DEF IInv, RunShape, StayDown
<1>2. /\ run'.at = "configure" /\ run'.psp = run.psp /\ run'.env = run.env
      /\ run'.to = run.to /\ run'.prog = run.prog /\ run'.high = FALSE
      /\ run' \in Fields /\ run' # Idle
  BY <1>1 DEF StayDown, Fields, Places, Idle
<1>3. UNCHANGED <<owner, code, ready, vect, prev, chain>> /\ amiss' \subseteq amiss \cup {FAULT}
  BY DEF StayDown
<1>4. /\ TypeOK' /\ ChainsAreWhole' /\ Once'
      /\ \A b : (Hooked(b)' <=> Hooked(b)) /\ (Settled(b)' <=> Settled(b))
  BY <1>2, <1>3, StillFacts DEF IInv, TypeOK
<1>5. RunShape'
  BY <1>1, <1>2, <1>3, <1>4 DEF RunShape
<1>6. Owners'
  BY <1>1, <1>2, <1>3 DEF IInv, Owners
<1>7. Residue'
  BY <1>1, <1>2, <1>3, <1>4 DEF IInv, Residue
<1> QED BY <1>3, <1>4, <1>5, <1>6, <1>7 DEF IInv, MemoryIsItsOwn

LEMMA ConfigureKeeps ==
  ASSUME IInv, ResidentsAssumption, Configure \/ ConfigureFails
  PROVE  IInv'
<1>1. /\ run.at = "configure" /\ run \in Fields /\ run # Idle
      /\ owner[run.psp] = run.psp
      /\ ~ Hooked(run.psp) /\ owner[run.env] = FREE
      /\ owner[run.to] = run.to /\ code[run.to] = run.prog
      /\ run.high <=> run.to # run.psp
      /\ ~ Hooked(run.to)
  BY Running DEF IInv, RunShape, Configure, ConfigureFails
<1>2. CASE Configure
  <2>1. /\ run'.at = "hook" /\ run'.psp = run.psp /\ run'.env = run.env
        /\ run'.to = run.to /\ run'.prog = run.prog /\ run'.high = run.high
        /\ run' \in Fields /\ run' # Idle
    BY <1>1, <1>2 DEF Configure, Fields, Places, Idle
  <2>2. /\ UNCHANGED <<owner, code, vect, prev, chain>> /\ ready' = ready \cup {run.to}
        /\ amiss' = amiss
    BY <1>1, <1>2 DEF Configure
  <2>3. /\ TypeOK' /\ ChainsAreWhole' /\ Once'
        /\ \A b : (Hooked(b)' <=> Hooked(b)) /\ (Settled(b)' <=> Settled(b))
    BY <1>1, <2>1, <2>2, StillFacts DEF IInv, TypeOK, Fields
  <2>4. RunShape'
    BY <1>1, <2>1, <2>2, <2>3 DEF RunShape
  <2>5. Owners'
    BY <1>1, <2>1, <2>2 DEF IInv, Owners
  <2>6. Residue'
    BY <1>1, <2>1, <2>2, <2>3 DEF IInv, Residue
  <2> QED BY <2>2, <2>3, <2>4, <2>5, <2>6 DEF IInv, MemoryIsItsOwn
<1>3. CASE ConfigureFails
  <2>1. /\ run'.at = IF run.high THEN "cancel" ELSE "exit"
        /\ run'.psp = run.psp /\ run'.env = run.env
        /\ run'.to = run.to /\ run'.prog = run.prog /\ run'.high = run.high
        /\ run' \in Fields /\ run' # Idle
    BY <1>1, <1>3 DEF ConfigureFails, Fields, Places, Idle
  <2>2. UNCHANGED <<owner, code, ready, vect, prev, chain, amiss>>
    BY <1>3 DEF ConfigureFails
  <2>3. /\ TypeOK' /\ ChainsAreWhole' /\ Once'
        /\ \A b : (Hooked(b)' <=> Hooked(b)) /\ (Settled(b)' <=> Settled(b))
    BY <2>1, <2>2, StillFacts DEF IInv, TypeOK
  <2>4. RunShape'
    BY <1>1, <2>1, <2>2, <2>3 DEF RunShape
  <2>5. Owners'
    BY <1>1, <2>1, <2>2 DEF IInv, Owners
  <2>6. Residue'
    BY <1>1, <2>1, <2>2, <2>3 DEF IInv, Residue
  <2> QED BY <2>2, <2>3, <2>4, <2>5, <2>6 DEF IInv, MemoryIsItsOwn
<1> QED BY <1>2, <1>3

LEMMA KeepKeeps ==
  ASSUME IInv, ResidentsAssumption, Keep
  PROVE  IInv'
<1>1. /\ run.at = "keep" /\ run \in Fields /\ Settled(run.to) /\ run.to = run.psp
  BY Running DEF IInv, RunShape, Keep
<1>2. UNCHANGED <<owner, code, ready, vect, prev, chain, amiss>> /\ run' = Idle
  BY DEF Keep
<1>3. /\ TypeOK' /\ ChainsAreWhole' /\ Once'
      /\ \A b : (Hooked(b)' <=> Hooked(b)) /\ (Settled(b)' <=> Settled(b))
  BY <1>2, StillFacts DEF IInv, TypeOK
<1>4. RunShape'
  BY <1>2 DEF RunShape, Idle
<1>5. Owners'
  BY <1>1, <1>2 DEF IInv, Owners
<1>6. ASSUME NEW b \in Blocks, owner[b] = run.psp
      PROVE  Settled(b)
  <2>1. b = run.psp
    BY <1>1, <1>6, Running DEF IInv, Owners, Fields
  <2> QED BY <2>1, <1>1
<1>7. Residue'
  BY <1>1, <1>2, <1>3, <1>6 DEF IInv, Residue
<1> QED BY <1>2, <1>3, <1>4, <1>5, <1>7 DEF IInv, MemoryIsItsOwn

LEMMA UninstallKeeps ==
  ASSUME IInv, ResidentsAssumption, Uninstall
  PROVE  IInv'
<1>1. /\ run.at = "uninstall" /\ run \in Fields /\ run # Idle
      /\ owner[run.psp] = run.psp /\ ~ Hooked(run.psp)
      /\ owner[run.env] = run.psp /\ run.env # run.psp
  BY Running DEF IInv, RunShape, Uninstall
<1>2. UNCHANGED <<owner, code, ready, vect, prev, chain, amiss>>
  BY DEF Uninstall
<1>3. CASE run' = [run EXCEPT !.at = "exit"]
  <2>1. /\ run'.at = "exit" /\ run'.psp = run.psp /\ run'.env = run.env
        /\ run' \in Fields /\ run' # Idle
    BY <1>1, <1>3 DEF Fields, Places, Idle
  <2>2. /\ TypeOK' /\ ChainsAreWhole' /\ Once'
        /\ \A b : (Hooked(b)' <=> Hooked(b)) /\ (Settled(b)' <=> Settled(b))
    BY <1>2, <2>1, StillFacts DEF IInv, TypeOK
  <2>3. RunShape'
    BY <1>1, <1>2, <2>1, <2>2 DEF RunShape
  <2>4. Owners'
    BY <1>1, <1>2, <2>1 DEF IInv, Owners
  <2>5. Residue'
    BY <1>1, <1>2, <2>1, <2>2 DEF IInv, Residue
  <2> QED BY <1>2, <2>2, <2>3, <2>4, <2>5 DEF IInv, MemoryIsItsOwn
<1>4. ASSUME NEW b \in Found(run.prog), Uninstallable(run.prog, b),
             run' = [run EXCEPT !.at = "restore", !.to = b]
      PROVE  IInv'
  <2>1. b \in Blocks /\ code[b] = run.prog
    BY DEF Found
  <2>2. /\ run'.at = "restore" /\ run'.psp = run.psp /\ run'.env = run.env
        /\ run'.to = b /\ run'.prog = run.prog
        /\ run' \in Fields /\ run' # Idle
    BY <1>1, <1>4, <2>1 DEF Fields, Places, Idle
  <2>3. /\ TypeOK' /\ ChainsAreWhole' /\ Once'
        /\ \A x : (Hooked(x)' <=> Hooked(x)) /\ (Settled(x)' <=> Settled(x))
    BY <1>2, <2>2, StillFacts DEF IInv, TypeOK
  <2>4. Hooked(b)
    <3>1. Asks(run.prog) \in Vectors /\ vect[Asks(run.prog)] = b
      BY <1>1, <1>4, HooksAreVectors DEF Fields, Uninstallable
    <3> QED BY <2>1, <3>1, FirstIsVector DEF IInv, Hooked
  <2>5. owner[b] = b /\ b # run.psp
    BY <1>1, <2>4, HookedFacts DEF IInv
  <2>6. Uninstallable(run.prog, b)'
    BY <1>2, <1>4, <2>2 DEF Uninstallable
  <2>7. RunShape'
    BY <1>1, <1>2, <2>1, <2>2, <2>3, <2>5, <2>6 DEF RunShape, Uninstallable
  <2>8. Owners'
    BY <1>1, <1>2, <2>2 DEF IInv, Owners
  <2>9. Residue'
    BY <1>1, <1>2, <2>2, <2>3 DEF IInv, Residue
  <2> QED BY <1>2, <2>3, <2>7, <2>8, <2>9 DEF IInv, MemoryIsItsOwn
<1> QED BY <1>3, <1>4 DEF Uninstall

\* What is freed is the copy, the original or the driver that was uninstalled.
LEMMA DosFreeKeeps ==
  ASSUME IInv, ResidentsAssumption, Cancel \/ Finish \/ Free
  PROVE  IInv'
<1> DEFINE b == IF run.at = "finish" THEN run.psp ELSE run.to
<1>1. /\ run.at \in {"cancel", "finish", "free"} /\ run \in Fields /\ run # Idle
      /\ owner[run.psp] = run.psp /\ ~ Hooked(run.psp)
      /\ owner[run.to] = run.to /\ run.to # run.psp
      /\ run.at # "finish" => ~ Hooked(run.to)
      /\ run.at = "finish" => Settled(run.to) /\ run.to \in ready
  BY Running DEF IInv, RunShape, Cancel, Finish, Free
<1>2. b \in Blocks /\ owner[b] = b /\ ~ Hooked(b)
  BY <1>1 DEF Fields
<1>3. /\ Released({b}) /\ amiss' = amiss /\ UNCHANGED <<vect, chain>>
      /\ run' \in Fields /\ run' # Idle /\ run'.env = run.env /\ run'.to = run.to
      /\ run'.at = IF run.at = "finish" THEN "keep" ELSE "exit"
      /\ run'.psp = IF run.at = "finish" THEN run.to ELSE run.psp
  <2>1. CASE Finish
    <3>1. run.at = "finish" /\ run.psp \in Own(run.psp)
      BY <1>1, <2>1 DEF Finish, Own, Fields
    <3>2. DosFree(run.psp, run.psp) /\ b = run.psp
      BY <2>1, <3>1 DEF Finish
    <3>3. Released({b}) /\ amiss' = amiss /\ UNCHANGED <<vect, chain>>
      BY <2>1, <3>1, <3>2 DEF DosFree, Finish
    <3> QED BY <1>1, <2>1, <3>1, <3>3 DEF Finish, Fields, Places, Idle
  <2>2. CASE Cancel \/ Free
    <3>1. run.at # "finish" /\ run.to \in Own(run.to)
      BY <1>1, <2>2 DEF Cancel, Free, Own, Fields
    <3>2. DosFree(run.to, run.to) /\ b = run.to
      BY <2>2, <3>1 DEF Cancel, Free
    <3>3. Released({b}) /\ amiss' = amiss /\ UNCHANGED <<vect, chain>>
      BY <2>2, <3>1, <3>2 DEF DosFree, Cancel, Free
    <3> QED BY <1>1, <2>2, <3>1, <3>3 DEF Cancel, Free, Fields, Places, Idle
  <2> QED BY <2>1, <2>2
<1> HIDE DEF b
<1>4. /\ owner'[b] = FREE
      /\ \A x \in Blocks \ {b} : owner'[x] = owner[x] /\ code'[x] = code[x]
      /\ \A x \in ready : x # b => x \in ready'
  BY <1>2, <1>3, ReleasedFacts DEF IInv
<1>5. TypeOK'
  BY <1>3, ReleasedFacts DEF IInv, TypeOK, Fields
<1>6. ChainsAreWhole' /\ Once'
  BY <1>2, <1>3, ReleaseKeepsChains DEF IInv
<1>7. ASSUME NEW x \in Blocks, x # b, Settled(x) PROVE Settled(x)'
  BY <1>3, <1>4, <1>7, SameChains DEF Settled
<1>8. RunShape'
  <2>1. CASE run.at = "finish"
    <3>1. b = run.psp /\ run.to # b /\ run.to \in Blocks
      BY <1>1, <2>1 DEF b, Fields
    <3>2. run.to \in ready' /\ owner'[run.to] = run.to
      BY <1>1, <1>4, <2>1, <3>1
    <3>3. \A x : x = run.to => Settled(x)'
      BY <1>1, <1>7, <2>1, <3>1
    <3> QED BY <2>1, <3>1, <3>2, <3>3, <1>3 DEF RunShape, Settled
  <2>2. CASE run.at # "finish"
    <3>1. b = run.to /\ owner'[run.psp] = run.psp
      BY <1>1, <1>4, <2>2 DEF b, Fields
    <3> QED BY <2>2, <3>1, <1>1, <1>3, SameChains DEF RunShape
  <2> QED BY <2>1, <2>2
<1>9. Owners'
  <2> SUFFICES ASSUME NEW x \in Blocks, owner'[x] # FREE
               PROVE  \/ owner'[x] = x
                      \/ /\ run'.at = "exit" /\ x = run'.env /\ owner'[x] = run'.psp
    BY DEF Owners
  <2>1. x # b /\ owner'[x] = owner[x]
    BY <1>4
  <2> QED BY <2>1, <1>1, <1>3 DEF IInv, Owners
<1>10. Residue'
  <2> SUFFICES ASSUME NEW x \in Blocks, owner'[x] # FREE, code'[x] \notin Others
               PROVE  Settled(x)' \/ owner'[x] = run'.psp
    BY <1>3 DEF Residue
  <2>1. x # b /\ owner'[x] = owner[x] /\ code'[x] = code[x]
    BY <1>4
  <2>2. Settled(x) \/ owner[x] = run.psp \/ x = run.to
    BY <2>1 DEF IInv, Residue
  <2>3. CASE Settled(x)
    BY <2>1, <2>3, <1>7
  <2>4. CASE run.at = "finish"
    <3>1. owner[x] = run.psp => x = run.psp
      BY <2>1, <2>4 DEF IInv, Owners
    <3>2. x = run.to => Settled(x)
      BY <1>1, <2>4
    <3> QED BY <2>1, <2>2, <2>4, <3>1, <3>2, <1>7 DEF b
  <2>5. CASE run.at # "finish"
    BY <2>1, <2>2, <2>5, <1>3, <1>7 DEF b
  <2> QED BY <2>4, <2>5
<1> QED BY <1>3, <1>5, <1>6, <1>8, <1>9, <1>10 DEF IInv, MemoryIsItsOwn

LEMMA HookKeeps ==
  ASSUME IInv, ResidentsAssumption, Hook
  PROVE  IInv'
<1>1. /\ run.at = "hook" /\ run \in Fields /\ run # Idle
      /\ owner[run.psp] = run.psp /\ ~ Hooked(run.psp)
      /\ owner[run.to] = run.to /\ code[run.to] = run.prog
      /\ run.high <=> run.to # run.psp
      /\ ~ Hooked(run.to) /\ run.to \in ready
  BY Running DEF IInv, RunShape, Hook
<1>2. /\ SetVectors(run.to, Hooks(run.prog)) /\ UNCHANGED <<owner, code, ready, amiss>>
      /\ run'.at = IF run.high THEN "finish" ELSE "keep"
      /\ run'.psp = run.psp /\ run'.env = run.env
      /\ run'.to = run.to /\ run'.prog = run.prog /\ run'.high = run.high
      /\ run' \in Fields /\ run' # Idle
  BY <1>1 DEF Hook, Fields, Places, Idle
<1>3. Hooks(run.prog) \in SUBSET Vectors /\ run.prog \in Ours /\ run.to \in Blocks
  BY <1>1, HooksAreVectors DEF Fields
<1>4. /\ ChainsAreWhole' /\ Once' /\ chain' \in [Vectors -> Seq(Blocks)]
      /\ \A x : \A v \in Vectors :
           Within(x, chain'[v]) <=>
             (Within(x, chain[v]) \/ (x = run.to /\ v \in Hooks(run.prog)))
  BY <1>1, <1>2, <1>3, HookingKeepsChains DEF IInv
<1>5. vect' \in [Vectors -> Blocks \cup {BIOS}]
  BY <1>2, <1>3 DEF SetVectors, IInv, TypeOK
<1>6. prev' \in [Blocks -> [Vectors -> Blocks \cup {BIOS}]]
  BY <1>2, <1>3 DEF SetVectors, IInv, TypeOK
<1>7. TypeOK'
  BY <1>2, <1>4, <1>5, <1>6 DEF IInv, TypeOK, Fields
<1>8. \A x : Settled(x) => Settled(x)'
  BY <1>2, <1>4, HooksAreVectors DEF Settled
<1>9. \A x : x = run.to => Settled(x)'
  BY <1>1, <1>2, <1>3, <1>4, HooksAreVectors DEF Settled
<1>10. RunShape'
  <2>1. \A x : x = run.psp /\ run.high => ~ Hooked(x)'
    BY <1>1, <1>4 DEF Hooked
  <2> QED BY <1>1, <1>2, <1>9, <2>1 DEF RunShape, Settled
<1>11. Owners'
  BY <1>1, <1>2 DEF IInv, Owners
<1>12. Residue'
  <2> SUFFICES ASSUME NEW x \in Blocks, owner[x] # FREE, code[x] \notin Others
               PROVE  Settled(x)' \/ owner[x] = run.psp
    BY <1>2 DEF Residue
  <2> QED BY <1>8, <1>9 DEF IInv, Residue
<1> QED BY <1>2, <1>4, <1>7, <1>10, <1>11, <1>12 DEF IInv, MemoryIsItsOwn

LEMMA RestoreKeeps ==
  ASSUME IInv, ResidentsAssumption, Restore
  PROVE  IInv'
<1>1. /\ run.at = "restore" /\ run \in Fields /\ run # Idle
      /\ owner[run.psp] = run.psp /\ ~ Hooked(run.psp)
      /\ owner[run.env] = run.psp /\ run.env # run.psp
      /\ owner[run.to] = run.to /\ code[run.to] = run.prog /\ run.to # run.psp
      /\ Uninstallable(run.prog, run.to)
  BY Running DEF IInv, RunShape, Restore
<1>2. /\ PutBack(run.to, Hooks(run.prog)) /\ UNCHANGED <<owner, code, ready, prev, amiss>>
      /\ run'.at = "free" /\ run'.psp = run.psp /\ run'.env = run.env
      /\ run'.to = run.to /\ run'.prog = run.prog
      /\ run' \in Fields /\ run' # Idle
  BY <1>1 DEF Restore, Fields, Places, Idle
<1>3. Hooks(run.prog) \in SUBSET Vectors /\ run.prog \in Ours /\ run.to \in Blocks
  BY <1>1, HooksAreVectors DEF Fields
<1>4. \A v \in Vectors : Within(run.to, chain[v]) => v \in Hooks(run.prog)
  <2> SUFFICES ASSUME NEW v \in Vectors, Within(run.to, chain[v])
               PROVE  v \in Hooks(run.prog)
    OBVIOUS
  <2>1. Hooked(run.to)
    BY DEF Hooked
  <2> QED BY <2>1, <1>1, <1>3, HookedFacts DEF IInv
<1>5. /\ ChainsAreWhole' /\ Once' /\ chain' \in [Vectors -> Seq(Blocks)]
      /\ \A x : \A v \in Vectors :
           Within(x, chain'[v]) <=> (Within(x, chain[v]) /\ x # run.to)
  BY <1>1, <1>2, <1>3, <1>4, UnhookingKeepsChains DEF IInv, Uninstallable
<1>6. vect' \in [Vectors -> Blocks \cup {BIOS}]
  BY <1>2, <1>3 DEF PutBack, IInv, TypeOK
<1>7. TypeOK'
  BY <1>2, <1>5, <1>6 DEF IInv, TypeOK, Fields
<1>8. \A x : Settled(x) /\ x # run.to => Settled(x)'
  BY <1>2, <1>5, HooksAreVectors DEF Settled
<1>9. \A x : x \in {run.to, run.psp} => ~ Hooked(x)'
  BY <1>1, <1>5 DEF Hooked
<1>10. RunShape'
  BY <1>1, <1>2, <1>9 DEF RunShape
<1>11. Owners'
  BY <1>1, <1>2 DEF IInv, Owners
<1>12. Residue'
  <2> SUFFICES ASSUME NEW x \in Blocks, owner[x] # FREE, code[x] \notin Others
               PROVE  Settled(x)' \/ owner[x] = run.psp \/ x = run.to
    BY <1>2 DEF Residue
  <2> QED BY <1>1, <1>8 DEF IInv, Residue
<1> QED BY <1>2, <1>5, <1>7, <1>10, <1>11, <1>12 DEF IInv, MemoryIsItsOwn

LEMMA InstallOtherKeeps ==
  ASSUME IInv, ResidentsAssumption, NEW p \in Others, NEW b \in Blocks,
         NEW V \in SUBSET Vectors, InstallOther(p, b, V)
  PROVE  IInv'
<1>1. /\ run = Idle /\ owner[b] = FREE /\ SetVectors(b, V)
      /\ ready' = ready \cup {b} /\ UNCHANGED <<run, amiss>>
      /\ owner' = [owner EXCEPT ![b] = b] /\ code' = [code EXCEPT ![b] = p]
  BY DEF InstallOther, Unused
<1>2. /\ owner'[b] = b /\ code'[b] = p
      /\ \A x \in Blocks \ {b} : owner'[x] = owner[x] /\ code'[x] = code[x]
  BY <1>1 DEF IInv, TypeOK
<1>3. ~ Hooked(b)
  BY <1>1, HookedFacts DEF IInv
<1>4. /\ ChainsAreWhole' /\ Once' /\ chain' \in [Vectors -> Seq(Blocks)]
      /\ \A x : \A v \in Vectors :
           Within(x, chain'[v]) <=> (Within(x, chain[v]) \/ (x = b /\ v \in V))
  BY <1>1, <1>2, <1>3, HookingKeepsChains DEF IInv
<1>5. vect' \in [Vectors -> Blocks \cup {BIOS}]
  BY <1>1 DEF SetVectors, IInv, TypeOK
<1>6. prev' \in [Blocks -> [Vectors -> Blocks \cup {BIOS}]]
  BY <1>1 DEF SetVectors, IInv, TypeOK
<1>7. TypeOK'
  BY <1>1, <1>4, <1>5, <1>6 DEF IInv, TypeOK, Programs
<1>8. RunShape'
  BY <1>1 DEF RunShape, Idle
<1>9. Owners'
  BY <1>1, <1>2 DEF IInv, Owners
<1>10. \A x \in Blocks : Settled(x) => Settled(x)'
  <2> SUFFICES ASSUME NEW x \in Blocks, Settled(x) PROVE Settled(x)'
    OBVIOUS
  <2>1. x # b
    BY <1>1, Running DEF IInv, Settled
  <2> QED BY <2>1, <1>2, <1>4, HooksAreVectors DEF Settled
<1>11. Residue'
  BY <1>1, <1>2, <1>10 DEF IInv, Residue, Idle
<1> QED BY <1>1, <1>4, <1>7, <1>8, <1>9, <1>11 DEF IInv, MemoryIsItsOwn

LEMMA UninstallOtherKeeps ==
  ASSUME IInv, ResidentsAssumption, NEW b \in Blocks, NEW V \in SUBSET Vectors,
         UninstallOther(b, V)
  PROVE  IInv'
<1>1. /\ run = Idle /\ owner[b] = b /\ code[b] \in Others
      /\ V = {v \in Vectors : Within(b, chain[v])} /\ \A v \in V : vect[v] = b
      /\ PutBack(b, V) /\ Released({b}) /\ UNCHANGED <<run, amiss>>
  BY DEF UninstallOther
<1>2. /\ owner'[b] = FREE
      /\ \A x \in Blocks \ {b} : /\ owner'[x] = owner[x] /\ code'[x] = code[x]
                                 /\ prev'[x] = prev[x] /\ (x \in ready => x \in ready')
  BY <1>1 DEF IInv, TypeOK, Released
<1>3. /\ ChainsAreWhole' /\ Once' /\ chain' \in [Vectors -> Seq(Blocks)]
      /\ \A x : \A v \in Vectors :
           Within(x, chain'[v]) <=> (Within(x, chain[v]) /\ x # b)
  <2>1. \A v \in Vectors : Within(b, chain[v]) => v \in V
    BY <1>1
  <2>2. PutBack(b, V) /\ \A v \in V : vect[v] = b
    BY <1>1
  <2> QED BY <1>2, <2>1, <2>2, UnhookingKeepsChains DEF IInv
<1>4. vect' \in [Vectors -> Blocks \cup {BIOS}]
  BY <1>1 DEF PutBack, IInv, TypeOK
<1>5. TypeOK'
  BY <1>1, <1>3, <1>4, ReleasedFacts DEF IInv, TypeOK
<1>6. RunShape'
  BY <1>1 DEF RunShape, Idle
<1>7. Owners'
  BY <1>1, <1>2 DEF IInv, Owners
<1>8. \A x \in Blocks \ {b} : Settled(x) => Settled(x)'
  BY <1>2, <1>3, HooksAreVectors DEF Settled
<1>9. Residue'
  BY <1>1, <1>2, <1>8 DEF IInv, Residue, Idle
<1> QED BY <1>1, <1>3, <1>5, <1>6, <1>7, <1>9 DEF IInv, MemoryIsItsOwn

-----------------------------------------------------------------------------
(* Theorems *)

LEMMA InitIInv ==
  ASSUME Init, ResidentsAssumption PROVE IInv
<1>1. TypeOK
  BY DEF Init, TypeOK, Nobody, Nowhere
<1>2. ChainsAreWhole /\ Once
  BY DEF Init, ChainsAreWhole, Once, Behind, Nowhere
<1>3. RunShape /\ Owners /\ Residue /\ MemoryIsItsOwn
  BY DEF Init, RunShape, Owners, Residue, MemoryIsItsOwn, Idle, Nobody
<1> QED BY <1>1, <1>2, <1>3 DEF IInv

LEMMA NextIInv ==
  ASSUME IInv, ResidentsAssumption, [Next]_vars PROVE IInv'
<1>1. CASE UNCHANGED vars
  BY <1>1 DEF vars, IInv, TypeOK, ChainsAreWhole, Once, RunShape, Owners, Residue,
              MemoryIsItsOwn, Hooked, Settled, Within, Behind, Uninstallable
<1>2. CASE Next
  BY <1>2, StartKeeps, ExitKeeps, InstallKeeps, MoveUpKeeps, StayDownKeeps,
     ConfigureKeeps, DosFreeKeeps, HookKeeps, KeepKeeps, UninstallKeeps,
     RestoreKeeps, InstallOtherKeeps, UninstallOtherKeeps DEF Next
<1> QED BY <1>1, <1>2

LEMMA IInvLeaksNothing ==
  ASSUME IInv PROVE NothingIsLeaked
  BY DEF IInv, NothingIsLeaked, Residue, Settled, Idle

THEOREM InvCorrect == Spec => []IInv
<1>1. Init => IInv
  BY InitIInv, ResidentsAssumption
<1>2. IInv /\ [Next]_vars => IInv'
  BY NextIInv, ResidentsAssumption
<1> QED BY <1>1, <1>2, PTL DEF Spec

\* The state of memory, vectors and commands has its type
\* (sfmain.c:543-620, mousmain.c:279-376).
THEOREM TypeCorrect == Spec => []TypeOK
<1>1. IInv => TypeOK
  BY DEF IInv
<1> QED BY InvCorrect, <1>1, PTL

\* An interrupt finds its way whatever is installed, moved and uninstalled.
THEOREM ChainsCorrect == Spec => []ChainsAreWhole
<1>1. IInv => ChainsAreWhole
  BY DEF IInv
<1> QED BY InvCorrect, <1>1, PTL

\* No way through install and uninstall leaves memory behind.
THEOREM NoLeaks == Spec => []NothingIsLeaked
<1>1. IInv => NothingIsLeaked
  BY IInvLeaksNothing
<1> QED BY InvCorrect, <1>1, PTL

\* Nothing is freed that is not the program's own but the 11 of dos_alloc.
THEOREM MemoryCorrect == Spec => []MemoryIsItsOwn
<1>1. IInv => MemoryIsItsOwn
  BY DEF IInv
<1> QED BY InvCorrect, <1>1, PTL

-----------------------------------------------------------------------------
(* The search for a driver *)

\* Numbers are well-founded: a set of them has a least one.
LEMMA Least ==
  ASSUME NEW T \in SUBSET Nat, T # {}
  PROVE  \E n \in T : \A m \in T : n <= m
<1>1. \E R : IsWellFoundedOn(R, Nat) /\ \A x, y \in Nat : x < y => <<x, y>> \in R
  <2>1. IsWellFoundedOn(OpToRel(<, Nat), Nat)
    BY NatLessThanWellFounded
  <2>2. \A x, y \in Nat : x < y => <<x, y>> \in OpToRel(<, Nat)
    BY DEF OpToRel
  <2> QED BY <2>1, <2>2
<1>2. PICK R : IsWellFoundedOn(R, Nat) /\ \A x, y \in Nat : x < y => <<x, y>> \in R
  BY <1>1
<1>3. PICK n \in T : \A m \in T : ~(<<m, n>> \in R)
  <2>1. IsWellFoundedOn(R, Nat)
    BY <1>2
  <2> HIDE <1>2
  <2> QED BY <2>1, WFMin, Zenon
<1>4. ASSUME NEW m \in T PROVE n <= m
  <2>1. ~(m < n)
    BY <1>2, <1>3
  <2>2. m \in Nat /\ n \in Nat
    OBVIOUS
  <2> QED BY <2>1, <2>2
<1> QED BY <1>4

\* The driver p lies behind a program that does not pass on the question.
Hidden(p) ==
  \A j \in 1 .. Len(chain[Asks(p)]) :
    code[chain[Asks(p)][j]] = p =>
      \E k \in 1 .. j : code[chain[Asks(p)][k]] \in Opaque

\* A driver that is not found is hidden or not there.
LEMMA NotFound ==
  ASSUME TypeOK, ChainsAreWhole, ResidentsAssumption, NEW p \in Ours, Found(p) = {}
  PROVE  Hidden(p)
<1> DEFINE v == Asks(p)
           c == chain[v]
<1>1. v \in Vectors /\ c \in Seq(Blocks) /\ Len(c) \in Nat
  BY HooksAreVectors DEF TypeOK
<1>2. \A i \in 1 .. Len(c) : c[i] \in Blocks /\ c[i] # BIOS
  BY <1>1 DEF ResidentsAssumption
<1>3. /\ Len(c) > 0 => vect[v] = c[1]
      /\ \A i \in 1 .. Len(c) : i < Len(c) => prev[c[i]][v] = c[i + 1]
  BY <1>1 DEF ChainsAreWhole, Behind
<1>a. p \notin Opaque
  BY DEF ResidentsAssumption
<1> SUFFICES ASSUME NEW j \in 1 .. Len(c), code[c[j]] = p,
                    \A k \in 1 .. j : code[c[k]] \notin Opaque
             PROVE  FALSE
  BY DEF Hidden
<1> HIDE DEF v, c
<1> DEFINE T == {n \in 1 .. Len(c) : code[c[n]] = p}
<1>4. PICK m \in T : \A n \in T : m <= n
  <2>1. j \in T /\ T \in SUBSET Nat
    BY <1>1
  <2> HIDE DEF T
  <2> QED BY <2>1, Least
<1>5. /\ m \in 1 .. Len(c) /\ code[c[m]] = p /\ c[m] \in Blocks
      /\ \A n \in 1 .. Len(c) : n < m => code[c[n]] \notin {p} \cup Opaque
  BY <1>1, <1>2, <1>4
<1>6. ASSUME NEW S \in SUBSET Blocks, Asked(p, S) PROVE c[m] \in S
  <2> SUFFICES ASSUME c[m] \notin S PROVE FALSE
    OBVIOUS
  <2> DEFINE U == {n \in 1 .. m : c[n] \notin S}
  <2>1. PICK n \in U : \A k \in U : n <= k
    <3>1. m \in U /\ U \in SUBSET Nat
      BY <1>1, <1>5
    <3> HIDE DEF U
    <3> QED BY <3>1, Least
  <2>2. n \in 1 .. Len(c) /\ n <= m /\ c[n] \notin S /\ c[n] # BIOS
    BY <1>1, <1>2, <1>5, <2>1
  <2>3. CASE n = 1
    BY <1>1, <1>3, <1>6, <2>2, <2>3 DEF Asked, v
  <2>4. CASE n # 1
    <3>1. n - 1 \in 1 .. Len(c) /\ n - 1 < Len(c) /\ n - 1 < m /\ (n - 1) + 1 = n
      BY <1>1, <1>5, <2>2, <2>4
    <3>2. c[n - 1] \in S
      BY <1>1, <1>5, <2>1, <3>1
    <3>3. prev[c[n - 1]][v] = c[n]
      BY <1>3, <3>1
    <3>4. code[c[n - 1]] \notin {p} \cup Opaque
      BY <1>5, <3>1
    <3> QED BY <1>6, <2>2, <3>2, <3>3, <3>4 DEF Asked, v
  <2> QED BY <2>3, <2>4
<1>7. c[m] \in Found(p)
  BY <1>5, <1>6 DEF Found
<1> QED BY <1>7

-----------------------------------------------------------------------------
(* Installing twice *)

\* The places between the search for the driver and the setting of its vectors
Searched == {"move", "configure", "hook"}

\* A driver that was not found stays hidden until its vectors are set.
Behindhand == run.at \in Searched => Hidden(run.prog)

Apart == OneOfEach /\ Behindhand

\* As long as chains and what lies in their blocks stay
LEMMA CodeStays ==
  ASSUME TypeOK, ResidentsAssumption, Apart, chain' = chain,
         \A b \in Blocks : Hooked(b) => code'[b] = code[b],
         run'.at \in Searched =>
           /\ run'.prog \in Ours
           /\ Hidden(run'.prog)
  PROVE  Apart'
<1>1. ASSUME NEW v \in Vectors, NEW i \in 1 .. Len(chain[v])
      PROVE  code'[chain[v][i]] = code[chain[v][i]]
  <2>1. Hooked(chain[v][i]) /\ chain[v][i] \in Blocks
    BY DEF Hooked, Within, TypeOK
  <2> QED BY <2>1
<1>2. \A p \in Ours : Asks(p) \in Vectors
  BY HooksAreVectors
<1>3. OneOfEach'
  <2> SUFFICES ASSUME NEW p \in Ours,
                      NEW i \in 1 .. Len(chain[Asks(p)]),
                      NEW j \in 1 .. Len(chain[Asks(p)]),
                      i < j, code'[chain[Asks(p)][i]] = p,
                      code'[chain[Asks(p)][j]] = p
               PROVE  \E k \in i .. j : code'[chain[Asks(p)][k]] \in Opaque
    BY DEF OneOfEach
  <2>1. code[chain[Asks(p)][i]] = p /\ code[chain[Asks(p)][j]] = p
    BY <1>1, <1>2
  <2>2. PICK k \in i .. j : code[chain[Asks(p)][k]] \in Opaque
    BY <2>1 DEF Apart, OneOfEach
  <2>3. k \in 1 .. Len(chain[Asks(p)])
    <3>1. chain[Asks(p)] \in Seq(Blocks)
      BY <1>2 DEF TypeOK
    <3>2. Len(chain[Asks(p)]) \in Nat
      BY <3>1
    <3> QED BY <3>2
  <2> QED BY <1>1, <1>2, <2>2, <2>3
<1>4. ASSUME NEW p \in Ours, Hidden(p) PROVE Hidden(p)'
  <2> DEFINE c == chain[Asks(p)]
  <2>0. c \in Seq(Blocks) /\ Len(c) \in Nat
    BY <1>2 DEF TypeOK
  <2>1. c' = c
    OBVIOUS
  <2> SUFFICES ASSUME NEW j \in 1 .. Len(c), code'[c[j]] = p
               PROVE  \E k \in 1 .. j : code'[c[k]] \in Opaque
    BY DEF Hidden
  <2>2. code[c[j]] = p
    BY <1>1, <1>2
  <2>3. PICK k \in 1 .. j : code[c[k]] \in Opaque
    BY <1>4, <2>2 DEF Hidden
  <2>4. k \in 1 .. Len(c)
    BY <2>0
  <2> QED BY <1>1, <1>2, <2>3, <2>4
<1>5. Behindhand'
  BY <1>4 DEF Behindhand, Hidden
<1> QED BY <1>3, <1>5 DEF Apart

\* Two blocks of c with p's code have an opaque program between them.
Alone(c, h, p) ==
  \A i, j \in 1 .. Len(c) :
    i < j /\ h[c[i]] = p /\ h[c[j]] = p => \E k \in i .. j : h[c[k]] \in Opaque

\* An opaque program stands in c at or before every block with p's code.
Covered(c, h, p) ==
  \A j \in 1 .. Len(c) : h[c[j]] = p => \E k \in 1 .. j : h[c[k]] \in Opaque

LEMMA AloneAfterPut ==
  ASSUME NEW c \in Seq(Blocks), NEW d, NEW h, NEW g, NEW p,
         Len(d) = Len(c) + 1, \A i \in 1 .. Len(c) : d[i + 1] = c[i],
         \A i \in 1 .. Len(c) : g[c[i]] = h[c[i]],
         Alone(c, h, p), g[d[1]] = p => Covered(c, h, p)
  PROVE  Alone(d, g, p)
<1> SUFFICES ASSUME NEW i \in 1 .. Len(d), NEW j \in 1 .. Len(d), i < j,
                    g[d[i]] = p, g[d[j]] = p
             PROVE  \E k \in i .. j : g[d[k]] \in Opaque
  BY DEF Alone
<1>1. Len(c) \in Nat /\ i \in Int /\ j \in Int /\ j - 1 \in 1 .. Len(c) /\ (j - 1) + 1 = j
  OBVIOUS
<1>2. h[c[j - 1]] = p
  <2>1. d[(j - 1) + 1] = c[j - 1]
    BY <1>1
  <2> QED BY <1>1, <2>1
<1>3. ASSUME NEW k \in 1 .. j - 1, h[c[k]] \in Opaque, i <= k + 1
      PROVE  \E m \in i .. j : g[d[m]] \in Opaque
  <2>1. k \in 1 .. Len(c) /\ k + 1 \in i .. j
    BY <1>1, <1>3
  <2>2. d[k + 1] = c[k] /\ g[c[k]] = h[c[k]]
    BY <2>1
  <2>3. g[d[k + 1]] \in Opaque
    BY <1>3, <2>2
  <2> QED BY <2>1, <2>3
<1>4. CASE i = 1
  <2>1. PICK k \in 1 .. j - 1 : h[c[k]] \in Opaque
    BY <1>1, <1>2, <1>4 DEF Covered
  <2> QED BY <1>1, <1>3, <1>4, <2>1
<1>5. CASE i # 1
  <2>1. i - 1 \in 1 .. Len(c) /\ (i - 1) + 1 = i /\ i - 1 < j - 1
    BY <1>1, <1>5
  <2>2. h[c[i - 1]] = p
    <3>1. d[(i - 1) + 1] = c[i - 1]
      BY <2>1
    <3> QED BY <2>1, <3>1
  <2>3. PICK k \in i - 1 .. j - 1 : h[c[k]] \in Opaque
    BY <1>1, <1>2, <2>1, <2>2 DEF Alone
  <2>4. k \in 1 .. j - 1 /\ i <= k + 1
    BY <1>1, <2>1
  <2> QED BY <1>3, <2>3, <2>4
<1> QED BY <1>4, <1>5

LEMMA AloneAfterCut ==
  ASSUME NEW c \in Seq(Blocks), NEW d, NEW h, NEW g, NEW p,
         Len(c) >= 1, Len(d) = Len(c) - 1, \A i \in 1 .. Len(d) : d[i] = c[i + 1],
         \A i \in 1 .. Len(d) : g[d[i]] = h[d[i]],
         Alone(c, h, p)
  PROVE  Alone(d, g, p)
<1> SUFFICES ASSUME NEW i \in 1 .. Len(d), NEW j \in 1 .. Len(d), i < j,
                    g[d[i]] = p, g[d[j]] = p
             PROVE  \E k \in i .. j : g[d[k]] \in Opaque
  BY DEF Alone
<1>1. /\ Len(c) \in Nat /\ i \in Int /\ j \in Int /\ i + 1 < j + 1
      /\ i + 1 \in 1 .. Len(c) /\ j + 1 \in 1 .. Len(c)
  OBVIOUS
<1>2. h[c[i + 1]] = p /\ h[c[j + 1]] = p
  OBVIOUS
<1>3. PICK k \in i + 1 .. j + 1 : h[c[k]] \in Opaque
  BY <1>1, <1>2 DEF Alone
<1>4. k - 1 \in i .. j /\ k - 1 \in 1 .. Len(d) /\ (k - 1) + 1 = k
  BY <1>1
<1>5. d[k - 1] = c[(k - 1) + 1]
  BY <1>4
<1>6. g[d[k - 1]] = h[c[k]]
  BY <1>4, <1>5
<1> QED BY <1>3, <1>4, <1>6

LEMMA ApartIs ==
  /\ OneOfEach <=> \A p \in Ours : Alone(chain[Asks(p)], code, p)
  /\ OneOfEach' <=> \A p \in Ours : Alone(chain'[Asks(p)], code', p)
  /\ \A p : Hidden(p) <=> Covered(chain[Asks(p)], code, p)
  BY DEF OneOfEach, Alone, Hidden, Covered, Asks, Ours

\* What the blocks in the chains hold does not change when that of b does.
LEMMA OthersKeepCode ==
  ASSUME TypeOK, NEW b, ~ Hooked(b), \A x \in Blocks \ {b} : code'[x] = code[x]
  PROVE  \A v \in Vectors : \A i \in 1 .. Len(chain[v]) :
           code'[chain[v][i]] = code[chain[v][i]]
<1> SUFFICES ASSUME NEW v \in Vectors, NEW i \in 1 .. Len(chain[v])
             PROVE  code'[chain[v][i]] = code[chain[v][i]]
  OBVIOUS
<1>1. Hooked(chain[v][i]) /\ chain[v][i] \in Blocks
  BY DEF Hooked, Within, TypeOK
<1>2. chain[v][i] # b
  BY <1>1
<1> QED BY <1>1, <1>2

LEMMA HookingApart ==
  ASSUME TypeOK, ResidentsAssumption, OneOfEach,
         NEW b \in Blocks, NEW V \in SUBSET Vectors, SetVectors(b, V), ~ Hooked(b),
         \A x \in Blocks \ {b} : code'[x] = code[x],
         code'[b] \in Ours => Hidden(code'[b])
  PROVE  OneOfEach'
<1> SUFFICES ASSUME NEW p \in Ours
             PROVE  Alone(chain'[Asks(p)], code', p)
  BY ApartIs
<1> DEFINE v == Asks(p)
<1>1. v \in Vectors /\ chain[v] \in Seq(Blocks)
  BY HooksAreVectors DEF TypeOK
<1>2. Alone(chain[v], code, p)
  BY ApartIs
<1>3. \A i \in 1 .. Len(chain[v]) : code'[chain[v][i]] = code[chain[v][i]]
  BY <1>1, OthersKeepCode
<1>4. CASE v \notin V
  <2>1. chain'[v] = chain[v]
    BY <1>1, <1>4 DEF SetVectors
  <2>2. Len(chain[v]) \in Nat
    BY <1>1
  <2>3. \A i, j \in 1 .. Len(chain[v]) : \A k \in i .. j : k \in 1 .. Len(chain[v])
    BY <2>2
  <2> QED BY <1>2, <1>3, <2>1, <2>3 DEF Alone
<1>5. CASE v \in V
  <2>1. chain'[v] = <<b>> \o chain[v]
    BY <1>1, <1>5 DEF SetVectors
  <2>2. /\ Len(chain'[v]) = Len(chain[v]) + 1 /\ chain'[v][1] = b
        /\ \A i \in 1 .. Len(chain[v]) : chain'[v][i + 1] = chain[v][i]
    BY <1>1, <2>1, PutFirst
  <2>3. code'[b] = p => Covered(chain[v], code, p)
    BY ApartIs
  <2> DEFINE c == chain[v]
             d == chain'[v]
             g == code'
  <2>4. /\ c \in Seq(Blocks) /\ Alone(c, code, p)
        /\ Len(d) = Len(c) + 1 /\ \A i \in 1 .. Len(c) : d[i + 1] = c[i]
        /\ \A i \in 1 .. Len(c) : g[c[i]] = code[c[i]]
        /\ g[d[1]] = p => Covered(c, code, p)
    BY <1>1, <1>2, <1>3, <2>2, <2>3
  <2> HIDE DEF v, c, d, g
  <2>5. Alone(d, g, p)
    BY <2>4, AloneAfterPut
  <2> QED BY <2>5 DEF d, g, v
<1> QED BY <1>4, <1>5

LEMMA UnhookingApart ==
  ASSUME TypeOK, ChainsAreWhole, Once, ResidentsAssumption, OneOfEach,
         NEW b \in Blocks, NEW V \in SUBSET Vectors, PutBack(b, V),
         \A v \in V : vect[v] = b,
         \A v \in Vectors : Within(b, chain[v]) => v \in V,
         \A x \in Blocks \ {b} : code'[x] = code[x]
  PROVE  OneOfEach'
<1> SUFFICES ASSUME NEW p \in Ours
             PROVE  Alone(chain'[Asks(p)], code', p)
  BY ApartIs
<1> DEFINE v == Asks(p)
           c == chain[v]
<1>1. v \in Vectors /\ c \in Seq(Blocks) /\ Len(c) \in Nat
  BY HooksAreVectors DEF TypeOK
<1>2. Alone(c, code, p)
  BY ApartIs
<1>3. \A i \in 1 .. Len(c) : c[i] \in Blocks
  BY <1>1
<1>4. CASE v \notin V
  <2>1. chain'[v] = c
    BY <1>1, <1>4 DEF PutBack
  <2>2. \A i \in 1 .. Len(c) : c[i] # b
    BY <1>1, <1>4 DEF Within
  <2>3. \A i \in 1 .. Len(c) : code'[c[i]] = code[c[i]]
    BY <1>3, <2>2
  <2>4. \A i, j \in 1 .. Len(c) : \A k \in i .. j : k \in 1 .. Len(c)
    BY <1>1
  <2> QED BY <1>2, <2>1, <2>3, <2>4 DEF Alone
<1>5. CASE v \in V
  <2> DEFINE d == chain'[v]
  <2>1. c # <<>> /\ c[1] = b
    BY <1>1, <1>5, FirstIsVector
  <2>2. \A i, j \in 1 .. Len(c) : c[i] = c[j] => i = j
    BY <1>1 DEF Once
  <2>3. d = Without(c, b)
    BY <1>1, <1>5 DEF PutBack
  <2>4. Len(d) = Len(c) - 1 /\ \A i \in 1 .. Len(d) : d[i] = c[i + 1]
    <3> HIDE DEF c
    <3> QED BY <1>1, <2>1, <2>2, <2>3, WithoutFirst
  <2>5. Len(c) >= 1
    BY <1>1, <2>1
  <2> HIDE DEF d, c
  <2>6. ASSUME NEW i \in 1 .. Len(d) PROVE code'[d[i]] = code[d[i]]
    <3>1. i + 1 \in 1 .. Len(c) /\ i + 1 # 1 /\ 1 \in 1 .. Len(c)
      BY <1>1, <2>4, <2>5
    <3>2. c[i + 1] # b
      BY <2>1, <2>2, <3>1
    <3> QED BY <1>3, <2>4, <3>1, <3>2
  <2>7. Alone(d, code', p)
    BY <1>1, <1>2, <2>4, <2>5, <2>6, AloneAfterCut
  <2> QED BY <2>7 DEF d
<1> QED BY <1>4, <1>5

\* Commands that do not touch the chains
LEMMA MemoryApart ==
  ASSUME IInv, ResidentsAssumption, Apart,
         \/ \E p \in Ours, at \in {"install", "uninstall"}, high \in BOOLEAN :
              Start(p, at, high)
         \/ Exit \/ StayDown \/ Configure \/ ConfigureFails \/ Cancel
         \/ Finish \/ Keep \/ Uninstall \/ Free
         \/ \E b \in Blocks : MoveUp(b)
  PROVE  Apart'
<1>1. chain' = chain
  BY DEF Start, Exit, StayDown, Configure, ConfigureFails, Cancel, Finish, Keep,
         Uninstall, Free, MoveUp
<1>2. /\ \A b \in Blocks : Hooked(b) => code'[b] = code[b]
      /\ run'.at \in Searched => run.at \in Searched /\ run'.prog = run.prog
  <2>1. ASSUME NEW p \in Ours, NEW at \in {"install", "uninstall"},
               NEW high \in BOOLEAN, Start(p, at, high)
        PROVE  <1>2!:
    <3>1. PICK psp \in Blocks : owner[psp] = FREE /\ code' = [code EXCEPT ![psp] = p]
      BY <2>1 DEF Start, Unused, Blocks
    <3>2. \A b \in Blocks : Hooked(b) => b # psp
      BY <3>1, HookedFacts DEF IInv
    <3>3. \A b \in Blocks : b # psp => code'[b] = code[b]
      BY <3>1 DEF IInv, TypeOK
    <3>4. run'.at = at
      BY <2>1 DEF Start
    <3> QED BY <3>2, <3>3, <3>4 DEF Searched
  <2>2. CASE Exit
    <3>1. \A b \in Blocks : b \notin Own(run.psp) => code'[b] = code[b]
      BY <2>2, ReleasedFacts DEF IInv, Exit
    <3>2. run.psp \in Blocks /\ ~ Hooked(run.psp)
      BY <2>2, Running DEF IInv, RunShape, Exit, Fields
    <3>3. \A b \in Blocks : Hooked(b) => b \notin Own(run.psp)
      BY <3>2, HookedFacts DEF IInv, Own
    <3> QED BY <2>2, <3>1, <3>3 DEF Exit, Idle, Searched
  <2>3. CASE StayDown \/ Configure \/ ConfigureFails \/ Keep \/ Uninstall
    <3>1. code' = code
      BY <2>3 DEF StayDown, Configure, ConfigureFails, Keep, Uninstall
    <3>2. run \in Fields
      BY <2>3, Running DEF IInv, StayDown, Configure, ConfigureFails, Keep, Uninstall
    <3>3. run'.at \in Searched => run.at \in Searched /\ run'.prog = run.prog
      <4>1. CASE StayDown \/ Configure \/ ConfigureFails
        BY <3>2, <4>1 DEF StayDown, Configure, ConfigureFails, Searched, Fields
      <4>2. CASE Keep
        BY <4>2 DEF Keep, Searched, Idle
      <4>3. CASE Uninstall
        <5>1. run'.at \in {"exit", "restore"}
          BY <3>2, <4>3 DEF Uninstall, Fields
        <5> QED BY <5>1 DEF Searched
      <4> QED BY <2>3, <4>1, <4>2, <4>3
    <3> QED BY <3>1, <3>3
  <2>4. CASE Cancel \/ Finish \/ Free
    <3>1. /\ run \in Fields /\ ~ Hooked(run.psp) /\ (run.at # "finish" => ~ Hooked(run.to))
          /\ run'.at \in {"keep", "exit"}
      BY <2>4, Running DEF IInv, RunShape, Cancel, Finish, Free, Fields
    <3>2. PICK b \in {run.psp, run.to} : Released({b}) /\ ~ Hooked(b)
      BY <2>4, <3>1 DEF Cancel, Finish, Free, DosFree
    <3>3. \A x \in Blocks : x # b => code'[x] = code[x]
      BY <3>2, ReleasedFacts DEF IInv
    <3> QED BY <3>1, <3>2, <3>3 DEF Searched
  <2>5. ASSUME NEW b \in Blocks, MoveUp(b)
        PROVE  <1>2!:
    <3>1. owner[b] = FREE /\ code' = [code EXCEPT ![b] = run.prog]
      BY <2>5 DEF MoveUp, Allocated, Unused, ResidentsAssumption, Blocks
    <3>2. run \in Fields
      BY <2>5, Running DEF IInv, MoveUp
    <3>3. run.at = "move" /\ run'.prog = run.prog
      BY <2>5, <3>2 DEF MoveUp, Fields
    <3>4. \A x \in Blocks : Hooked(x) => x # b
      BY <3>1, HookedFacts DEF IInv
    <3>5. \A x \in Blocks : x # b => code'[x] = code[x]
      BY <3>1 DEF IInv, TypeOK
    <3> QED BY <3>3, <3>4, <3>5 DEF Searched
  <2> QED BY <2>5, <2>4, <2>3, <2>2, <2>1
<1>3. run'.at \in Searched => run'.prog \in Ours /\ Hidden(run'.prog)
  <2>1. run.at \in Searched => run.prog \in Ours
    BY Running DEF IInv, Searched, Fields
  <2> QED BY <1>2, <2>1 DEF Apart, Behindhand, Searched
<1> QED BY <1>1, <1>2, <1>3, CodeStays DEF IInv, Searched

LEMMA InstallApart ==
  ASSUME IInv, ResidentsAssumption, Apart, Install
  PROVE  Apart'
<1>1. /\ run.at = "install" /\ run \in Fields /\ chain' = chain
      /\ owner[run.psp] = run.psp /\ owner[run.env] = run.psp /\ run.env # run.psp
  BY Running DEF IInv, RunShape, Install
<1>2. \A b \in Blocks : Hooked(b) => code'[b] = code[b]
  <2>1. CASE code' = code
    BY <2>1
  <2>2. CASE Released({run.env})
    <3>1. ~ Hooked(run.env)
      BY <1>1, HookedFacts DEF IInv
    <3> QED BY <2>2, <3>1, ReleasedFacts DEF IInv
  <2> QED BY <2>1, <2>2 DEF Install, DosFree
<1>3. run'.at \in Searched => run'.prog \in Ours /\ Hidden(run'.prog)
  <2>1. run'.prog = run.prog /\ run.prog \in Ours
    BY <1>1 DEF Install, Fields
  <2>2. run'.at \in Searched => Found(run.prog) = {}
    BY <1>1 DEF Install, Searched, Fields
  <2> QED BY <2>1, <2>2, NotFound DEF IInv
<1> QED BY <1>1, <1>2, <1>3, CodeStays DEF IInv, Searched

LEMMA ChainsApart ==
  ASSUME IInv, ResidentsAssumption, Apart,
         \/ Hook \/ Restore
         \/ \E p \in Others, b \in Blocks, V \in SUBSET Vectors : InstallOther(p, b, V)
         \/ \E b \in Blocks, V \in SUBSET Vectors : UninstallOther(b, V)
  PROVE  Apart'
<1>1. CASE Hook
  <2>1. /\ run.at = "hook" /\ run \in Fields /\ ~ Hooked(run.to)
        /\ code[run.to] = run.prog
    BY <1>1, Running DEF IInv, RunShape, Hook
  <2>2. SetVectors(run.to, Hooks(run.prog)) /\ code' = code /\ run'.at \notin Searched
    BY <1>1, <2>1 DEF Hook, Searched, Fields
  <2>3. run.to \in Blocks /\ Hooks(run.prog) \in SUBSET Vectors
    BY <2>1, HooksAreVectors DEF Fields
  <2>4. Hidden(code'[run.to])
    BY <2>1, <2>2 DEF Apart, Behindhand, Searched
  <2>5. OneOfEach'
    BY <2>1, <2>2, <2>3, <2>4, HookingApart DEF IInv, Apart
  <2> QED BY <2>2, <2>5 DEF Apart, Behindhand, Searched
<1>2. CASE Restore
  <2>1. /\ run.at = "restore" /\ run \in Fields /\ owner[run.to] = run.to
        /\ code[run.to] = run.prog /\ Uninstallable(run.prog, run.to)
    BY <1>2, Running DEF IInv, RunShape, Restore
  <2>2. PutBack(run.to, Hooks(run.prog)) /\ code' = code /\ run'.at \notin Searched
    BY <1>2, <2>1 DEF Restore, Searched, Fields
  <2>3. /\ run.to \in Blocks /\ Hooks(run.prog) \in SUBSET Vectors
        /\ run.prog \in Ours
    BY <2>1, HooksAreVectors DEF Fields
  <2>4. \A v \in Vectors : Within(run.to, chain[v]) => v \in Hooks(run.prog)
    <3> SUFFICES ASSUME NEW v \in Vectors, Within(run.to, chain[v])
                 PROVE  v \in Hooks(run.prog)
      OBVIOUS
    <3>1. Hooked(run.to)
      BY DEF Hooked
    <3> QED BY <3>1, <2>1, <2>3, HookedFacts DEF IInv
  <2>5. \A v \in Hooks(run.prog) : vect[v] = run.to
    BY <2>1 DEF Uninstallable
  <2>6. OneOfEach'
    BY <2>2, <2>3, <2>4, <2>5, UnhookingApart DEF IInv, Apart
  <2> QED BY <2>2, <2>6 DEF Apart, Behindhand, Searched
<1>3. ASSUME NEW p \in Others, NEW b \in Blocks, NEW V \in SUBSET Vectors,
             InstallOther(p, b, V)
      PROVE  Apart'
  <2>1. /\ run' = Idle /\ owner[b] = FREE /\ SetVectors(b, V)
        /\ code' = [code EXCEPT ![b] = p]
    BY <1>3 DEF InstallOther, Unused
  <2>2. code'[b] \notin Ours /\ \A x \in Blocks \ {b} : code'[x] = code[x]
    BY <2>1 DEF IInv, TypeOK, ResidentsAssumption
  <2>3. ~ Hooked(b)
    BY <2>1, HookedFacts DEF IInv
  <2>4. OneOfEach'
    BY <2>1, <2>2, <2>3, HookingApart DEF IInv, Apart
  <2> QED BY <2>1, <2>4 DEF Apart, Behindhand, Searched, Idle
<1>4. ASSUME NEW b \in Blocks, NEW V \in SUBSET Vectors, UninstallOther(b, V)
      PROVE  Apart'
  <2>1. /\ run' = Idle /\ PutBack(b, V) /\ Released({b})
        /\ V = {v \in Vectors : Within(b, chain[v])} /\ \A v \in V : vect[v] = b
    BY <1>4 DEF UninstallOther
  <2>2. \A x \in Blocks \ {b} : code'[x] = code[x]
    BY <2>1 DEF Released
  <2>3. \A v \in Vectors : Within(b, chain[v]) => v \in V
    BY <2>1
  <2>4. OneOfEach'
    BY <2>1, <2>2, <2>3, UnhookingApart DEF IInv, Apart
  <2> QED BY <2>1, <2>4 DEF Apart, Behindhand, Searched, Idle
<1> QED BY <1>1, <1>2, <1>3, <1>4

\* A driver comes in front of another copy of itself only if a program between
\* them keeps the question to itself: nothing happens between the search of
\* get_tsr_data and install_driver that could hide or bring another copy
\* (mousmain.c:279-376, sfmain.c:543-620).
THEOREM DriversAreUnique == Spec => []OneOfEach
<1>1. Init => Apart
  BY DEF Init, Apart, OneOfEach, Behindhand, Searched, Idle, Asks, Vectors, Ours
<1>2. IInv /\ Apart /\ [Next]_vars => Apart'
  <2> SUFFICES ASSUME IInv, Apart, [Next]_vars PROVE Apart'
    OBVIOUS
  <2>1. CASE UNCHANGED vars
    BY <2>1 DEF vars, Apart, OneOfEach, Behindhand, Hidden
  <2>2. CASE Next
    BY <2>2, MemoryApart, InstallApart, ChainsApart, ResidentsAssumption DEF Next
  <2> QED BY <2>1, <2>2
<1>3. Apart => OneOfEach
  BY DEF Apart
<1> QED BY InvCorrect, <1>1, <1>2, <1>3, PTL DEF Spec

=============================================================================
