--------------------------- MODULE ConnectorProofs ---------------------------
(***************************************************************************)
(* Proofs about the connector, for any number of clients and workers: its  *)
(* types, that the conflicts of a stage go to different clients, and that  *)
(* the clients take turns while the list stays as it is.                   *)
(***************************************************************************)
EXTENDS Connector, TLAPS

\* A list without its element i.
Cut(s, i) == SubSeq(s, 1, i - 1) \o SubSeq(s, i + 1, Len(s))

\* Cutting a client out of the list leaves the others, in their order.
LEMMA CutElements ==
    ASSUME NEW s \in Seq(Client), NEW i \in 1 .. Len(s)
    PROVE  /\ Cut(s, i) \in Seq(Client)
           /\ Len(Cut(s, i)) = Len(s) - 1
           /\ \A j \in 1 .. Len(s) - 1 : Cut(s, i)[j] = IF j < i THEN s[j] ELSE s[j + 1]
<1> DEFINE front == SubSeq(s, 1, i - 1)
           back == SubSeq(s, i + 1, Len(s))
<1>1. front \in Seq(Client) /\ Len(front) = i - 1
  OBVIOUS
<1>2. back \in Seq(Client) /\ Len(back) = Len(s) - i
  OBVIOUS
<1>3. \A j \in 1 .. i - 1 : front[j] = s[j]
  OBVIOUS
<1>4. \A j \in 1 .. Len(s) - i : back[j] = s[i + j]
  OBVIOUS
<1>5. Cut(s, i) \in Seq(Client) /\ Len(Cut(s, i)) = Len(s) - 1
  <2>1. Cut(s, i) = front \o back
    BY DEF Cut
  <2>2. front \o back \in Seq(Client) /\ Len(front \o back) = Len(front) + Len(back)
    <3> HIDE DEF front, back
    <3> QED
      BY <1>1, <1>2
  <2>3. Len(front) + Len(back) = Len(s) - 1
    <3> HIDE DEF front, back
    <3> QED
      BY <1>1, <1>2
  <2> QED
    BY <2>1, <2>2, <2>3
<1>6. ASSUME NEW j \in 1 .. Len(s) - 1
      PROVE  Cut(s, i)[j] = IF j < i THEN s[j] ELSE s[j + 1]
  <2>0. Cut(s, i)[j] = (front \o back)[j]
    BY DEF Cut
  <2>1. CASE j < i
    <3>1. (front \o back)[j] = front[j]
      <4> HIDE DEF front, back
      <4> QED
        BY <1>1, <1>2, <2>1
    <3> QED
      BY <1>3, <2>0, <2>1, <3>1
  <2>2. CASE j >= i
    <3>1. Cut(s, i)[j] = back[j - (i - 1)]
      <4> HIDE DEF front, back
      <4> QED
        BY <1>1, <1>2, <2>0, <2>2
    <3>2. back[j - (i - 1)] = s[j + 1]
      BY <1>4, <2>2
    <3> QED
      BY <2>2, <3>1, <3>2
  <2> QED
    BY <2>1, <2>2
<1> QED
  BY <1>5, <1>6

\* A cut keeps every client once.
LEMMA CutKeepsOneOfEach ==
    ASSUME NEW s \in Seq(Client), OneOfEach(s), NEW i \in 1 .. Len(s)
    PROVE  OneOfEach(Cut(s, i))
<1> SUFFICES ASSUME NEW j \in 1 .. Len(Cut(s, i)), NEW k \in 1 .. Len(Cut(s, i)),
                    Cut(s, i)[j] = Cut(s, i)[k]
             PROVE  j = k
  BY DEF OneOfEach
<1> DEFINE old(m) == IF m < i THEN m ELSE m + 1
<1>1. Len(Cut(s, i)) = Len(s) - 1
  BY CutElements
<1>2. s[old(j)] = s[old(k)]
  BY <1>1, CutElements
<1>3. old(j) \in 1 .. Len(s) /\ old(k) \in 1 .. Len(s)
  BY <1>1
<1>4. old(j) = old(k)
  BY <1>2, <1>3 DEF OneOfEach
<1> QED
  BY <1>1, <1>4

\* The connector of NewWebClients has the types.
LEMMA InitTyped == Init => TypeOK
<1> SUFFICES ASSUME Init PROVE TypeOK
  OBVIOUS
<1>1. clients \in Seq(Client) /\ OneOfEach(clients)
  BY ConnectorAssumption DEF Init
<1>2. lastUsed \in Int /\ lastUsed >= -1
  BY DEF Init
<1>3. wanted \in [Worker -> 0 .. MaxBatch]
  BY ConnectorAssumption DEF Init
<1>4. taken \in [Worker -> Seq(Client)]
  BY DEF Init
<1>5. window \in Seq(Client)
  BY DEF Init
<1> QED
  BY <1>1, <1>2, <1>3, <1>4, <1>5 DEF Init, TypeOK

\* The connector's variables keep their types: no client is in the list twice,
\* whatever is added and removed, and getClient's index is in the list.
THEOREM ConnectorTypeCorrect == Spec => []TypeOK
<1>1. Init => TypeOK
  BY InitTyped
<1>2. TypeOK /\ [Next]_vars => TypeOK'
  <2> SUFFICES ASSUME TypeOK, [Next]_vars PROVE TypeOK'
    OBVIOUS
  <2> USE ConnectorAssumption DEF TypeOK
  <2>1. ASSUME NEW w \in Worker, NEW n \in 1 .. MaxBatch, GetClients(w, n) PROVE TypeOK'
    BY <2>1 DEF GetClients
  <2>2. ASSUME NEW w \in Worker, getClient(w) PROVE TypeOK'
    <3>1. Turn \in 0 .. Len(clients) - 1 /\ clients[Turn + 1] \in Client
      BY <2>2 DEF getClient, Turn
    <3>2. Len(window) = Len(clients) => window # <<>>
      BY <2>2 DEF getClient
    <3>3. window' \in Seq(Client)
      BY <2>2, <3>1, <3>2 DEF getClient
    <3>4. taken' \in [Worker -> Seq(Client)]
      BY <2>2, <3>1 DEF getClient
    <3> QED
      BY <2>2, <3>1, <3>3, <3>4 DEF getClient
  <2>3. ASSUME NEW w \in Worker, getClientPanics(w) PROVE TypeOK'
    BY <2>3 DEF getClientPanics
  <2>4. ASSUME NEW w \in Worker, Return(w) PROVE TypeOK'
    BY <2>4 DEF Return
  <2>5. ASSUME NEW c \in Client, AddClient(c) PROVE TypeOK'
    <3>1. Append(clients, c) \in Seq(Client) /\ Len(Append(clients, c)) = Len(clients) + 1
      OBVIOUS
    <3>2. \A j \in 1 .. Len(clients) + 1 :
            Append(clients, c)[j] = IF j <= Len(clients) THEN clients[j] ELSE c
      OBVIOUS
    <3>3. OneOfEach(Append(clients, c))
      BY <2>5, <3>1, <3>2 DEF AddClient, OneOfEach
    <3> QED
      BY <2>5, <3>1, <3>3 DEF AddClient
  <2>6. ASSUME NEW u \in Url, RemoveClient(u) PROVE TypeOK'
    <3>1. PICK i \in 1 .. Len(clients) : clients' = Without(i)
      BY <2>6 DEF RemoveClient
    <3>2. clients' = Cut(clients, i)
      BY <3>1 DEF Without, Cut
    <3>3. clients' \in Seq(Client) /\ OneOfEach(clients')
      BY <3>2, CutElements, CutKeepsOneOfEach
    <3> QED
      BY <2>6, <3>3 DEF RemoveClient, OneOfEach
  <2>7. CASE UNCHANGED vars
    BY <2>7 DEF vars, OneOfEach
  <2> QED
    BY <2>1, <2>2, <2>3, <2>4, <2>5, <2>6, <2>7 DEF Next
<1> QED
  BY <1>1, <1>2, PTL DEF Spec

-----------------------------------------------------------------------------
(* The conflicts of a stage go to different clients *)

\* The place in a list of n clients of the one that was used d uses before the
\* one with index last.
Back(last, n, d) == IF last + 1 - d >= 1 THEN last + 1 - d ELSE last + 1 - d + n

\* These are the last uses of a list, going back from the one with index last.
LastUses(uses, list, last) ==
    /\ last \in 0 .. Len(list) - 1
    /\ \A j \in 1 .. Len(uses) : uses[j] = list[Back(last, Len(list), Len(uses) - j)]

InTurn(uses) == uses # <<>> => LastUses(uses, clients, lastUsed)

\* One worker has the mutex, the others have taken nothing.
MutexHeld ==
    /\ \A v, w \in Worker : wanted[v] > 0 /\ wanted[w] > 0 => v = w
    /\ \A w \in Worker : Len(taken[w]) <= wanted[w]

TakenInTurn == \A w \in Worker : wanted[w] <= Len(clients) => InTurn(taken[w])

WindowInTurn == Len(window) <= Len(clients) /\ InTurn(window)

ConnectorInv == TypeOK /\ MutexHeld /\ TakenInTurn /\ WindowInTurn

\* Fewer uses back than there are clients, no client comes twice.
LEMMA InTurnSpreads ==
    ASSUME TypeOK, NEW uses \in Seq(Client), Len(uses) <= Len(clients), InTurn(uses)
    PROVE  OneOfEach(uses)
<1> SUFFICES ASSUME NEW i \in 1 .. Len(uses), NEW j \in 1 .. Len(uses), uses[i] = uses[j]
             PROVE  i = j
  BY DEF OneOfEach
<1> DEFINE m == Len(uses)
           n == Len(clients)
<1>1. m \in Nat /\ n \in Nat /\ m <= n /\ i \in 1 .. m /\ j \in 1 .. m
  BY DEF TypeOK
<1>2. lastUsed \in 0 .. n - 1
  BY <1>1 DEF InTurn, LastUses
<1>3. clients[Back(lastUsed, n, m - i)] = clients[Back(lastUsed, n, m - j)]
  BY <1>1 DEF InTurn, LastUses
<1>4. Back(lastUsed, n, m - i) \in 1 .. n /\ Back(lastUsed, n, m - j) \in 1 .. n
  <2> HIDE DEF m, n
  <2> QED
    BY <1>1, <1>2 DEF Back
<1>5. Back(lastUsed, n, m - i) = Back(lastUsed, n, m - j)
  BY <1>3, <1>4 DEF TypeOK, OneOfEach
<1>6. i = j
  <2> HIDE DEF m, n
  <2> QED
    BY <1>1, <1>2, <1>5 DEF Back
<1> QED
  BY <1>6

\* getClient adds the next use to fewer than a round of them.
LEMMA NextInTurn ==
    ASSUME TypeOK, clients # <<>>,
           NEW uses \in Seq(Client), Len(uses) < Len(clients), InTurn(uses)
    PROVE  /\ Len(Append(uses, clients[Turn + 1])) = Len(uses) + 1
           /\ LastUses(Append(uses, clients[Turn + 1]), clients, Turn)
<1> DEFINE more == Append(uses, clients[Turn + 1])
           m == Len(uses)
           n == Len(clients)
<1>1. m \in Nat /\ n \in Nat /\ m < n
  BY DEF TypeOK
<1>2. Turn \in 0 .. n - 1 /\ clients[Turn + 1] \in Client
  BY DEF Turn, TypeOK
<1>3. /\ Len(more) = m + 1
      /\ \A j \in 1 .. m + 1 : more[j] = IF j <= m THEN uses[j] ELSE clients[Turn + 1]
  BY <1>2
<1> HIDE DEF more
<1>4. ASSUME NEW j \in 1 .. m + 1
      PROVE  more[j] = clients[Back(Turn, n, m + 1 - j)]
  <2>1. CASE j = m + 1
    <3>1. Back(Turn, n, m + 1 - j) = Turn + 1
      <4> HIDE DEF m, n
      <4>1. m + 1 - j = 0
        BY <1>1, <2>1
      <4> QED
        BY <1>2, <4>1 DEF Back
    <3>2. ~(j <= m)
      BY <1>1, <2>1
    <3> QED
      BY <1>3, <3>1, <3>2
  <2>2. CASE j <= m
    <3>1. more[j] = uses[j] /\ uses # <<>>
      BY <1>1, <1>3, <2>2
    <3>2. uses[j] = clients[Back(lastUsed, n, m - j)] /\ lastUsed \in 0 .. n - 1
      BY <1>1, <2>2, <3>1 DEF InTurn, LastUses
    <3>3. Back(Turn, n, m + 1 - j) = Back(lastUsed, n, m - j)
      <4>1. Turn = IF lastUsed >= n - 1 THEN 0 ELSE lastUsed + 1
        BY DEF Turn
      <4> HIDE DEF m, n
      <4> QED
        BY <1>1, <1>2, <2>2, <3>2, <4>1 DEF Back
    <3> QED
      BY <3>1, <3>2, <3>3
  <2> QED
    BY <1>1, <2>1, <2>2
<1>5. LastUses(more, clients, Turn)
  BY <1>2, <1>3, <1>4 DEF LastUses
<1> QED
  BY <1>3, <1>5 DEF more

\* getClient is the next use for the worker that has the mutex and for all.
LEMMA getClientInTurn ==
    ASSUME ConnectorInv, NEW w \in Worker, getClient(w)
    PROVE  MutexHeld' /\ TakenInTurn' /\ WindowInTurn'
<1>1. /\ TypeOK /\ clients # <<>> /\ clients' = clients /\ lastUsed' = Turn
      /\ wanted' = wanted
      /\ Len(taken[w]) < wanted[w] /\ wanted[w] \in Nat /\ taken[w] \in Seq(Client)
      /\ Len(clients) \in Nat /\ Len(clients) > 0
  BY DEF ConnectorInv, TypeOK, getClient
<1>2. ASSUME NEW v \in Worker \ {w}
      PROVE  wanted[v] = 0 /\ taken[v] = <<>> /\ taken'[v] = taken[v]
  <2>1. wanted[w] > 0 /\ wanted[v] \in Nat /\ taken[v] \in Seq(Client)
    BY <1>1 DEF ConnectorInv, TypeOK
  <2>2. wanted[v] = 0 /\ Len(taken[v]) <= wanted[v]
    BY <2>1 DEF ConnectorInv, MutexHeld
  <2>3. taken'[v] = taken[v]
    BY DEF ConnectorInv, TypeOK, getClient
  <2> QED
    BY <2>1, <2>2, <2>3
<1>3. taken'[w] = Append(taken[w], clients[Turn + 1])
  BY DEF getClient, ConnectorInv, TypeOK
<1>4. Len(taken'[w]) = Len(taken[w]) + 1 /\ Len(taken[w]) \in Nat
  BY <1>1, <1>3
<1>5. MutexHeld'
  BY <1>1, <1>2, <1>4 DEF ConnectorInv, MutexHeld
<1>6. TakenInTurn'
  <2> SUFFICES ASSUME NEW v \in Worker, wanted'[v] <= Len(clients') PROVE InTurn(taken[v])'
    BY DEF TakenInTurn
  <2>1. CASE v = w
    <3>1. Len(taken[w]) < Len(clients) /\ InTurn(taken[w])
      BY <1>1, <2>1 DEF ConnectorInv, TakenInTurn
    <3>2. LastUses(Append(taken[w], clients[Turn + 1]), clients, Turn)
      BY <1>1, <3>1, NextInTurn
    <3>3. LastUses(taken'[w], clients', lastUsed')
      BY <1>1, <1>3, <3>2
    <3> QED
      BY <2>1, <3>3 DEF InTurn, LastUses
  <2>2. CASE v # w
    BY <1>2, <2>2 DEF InTurn
  <2> QED
    BY <2>1, <2>2
<1>7. PICK uses : uses = IF Len(window) = Len(clients) THEN Tail(window) ELSE window
  OBVIOUS
<1>8. uses \in Seq(Client) /\ Len(uses) < Len(clients) /\ InTurn(uses)
  <2>1. window \in Seq(Client) /\ Len(window) <= Len(clients) /\ InTurn(window)
    BY DEF ConnectorInv, TypeOK, WindowInTurn
  <2>2. CASE Len(window) # Len(clients)
    BY <1>1, <1>7, <2>1, <2>2
  <2>3. CASE Len(window) = Len(clients)
    <3>1. window # <<>> /\ uses = Tail(window)
      BY <1>1, <1>7, <2>3
    <3>2. /\ uses \in Seq(Client) /\ Len(uses) = Len(window) - 1
          /\ \A j \in 1 .. Len(uses) : uses[j] = window[j + 1]
      BY <2>1, <3>1
    <3>3. ASSUME NEW j \in 1 .. Len(uses)
          PROVE  uses[j] = clients[Back(lastUsed, Len(clients), Len(uses) - j)]
      <4>1. j + 1 \in 1 .. Len(window) /\ Len(window) - (j + 1) = Len(uses) - j
        BY <1>1, <2>3, <3>2
      <4> QED
        BY <2>1, <3>1, <3>2, <4>1 DEF InTurn, LastUses
    <3> QED
      BY <1>1, <2>1, <2>3, <3>1, <3>2, <3>3 DEF InTurn, LastUses
  <2> QED
    BY <2>2, <2>3
<1>9. WindowInTurn'
  <2>1. window' = Append(uses, clients[Turn + 1])
    BY <1>7 DEF getClient
  <2>2. /\ Len(Append(uses, clients[Turn + 1])) = Len(uses) + 1
        /\ LastUses(Append(uses, clients[Turn + 1]), clients, Turn)
    BY <1>1, <1>8, NextInTurn
  <2>3. Len(window') = Len(uses) + 1 /\ LastUses(window', clients', lastUsed')
    BY <1>1, <2>1, <2>2
  <2> QED
    BY <1>1, <1>8, <2>3 DEF WindowInTurn, InTurn, LastUses
<1> QED
  BY <1>5, <1>6, <1>9

\* Every step keeps the invariant; a change of the list begins a new round.
LEMMA ConnectorInvInductive == ConnectorInv /\ TypeOK' /\ [Next]_vars => ConnectorInv'
<1> SUFFICES ASSUME ConnectorInv, TypeOK', [Next]_vars
             PROVE  MutexHeld' /\ TakenInTurn' /\ WindowInTurn'
  BY DEF ConnectorInv
<1> USE DEF ConnectorInv
<1>1. ASSUME NEW w \in Worker, NEW n \in 1 .. MaxBatch, GetClients(w, n)
      PROVE  MutexHeld' /\ TakenInTurn' /\ WindowInTurn'
  <2>1. \A v \in Worker : taken[v] = <<>>
    BY <1>1 DEF GetClients, Free, MutexHeld, TypeOK
  <2> QED
    BY <1>1, <2>1 DEF GetClients, Free, MutexHeld, TakenInTurn, WindowInTurn, InTurn, TypeOK
<1>2. ASSUME NEW w \in Worker, getClient(w)
      PROVE  MutexHeld' /\ TakenInTurn' /\ WindowInTurn'
  BY <1>2, getClientInTurn
<1>3. ASSUME NEW w \in Worker, getClientPanics(w)
      PROVE  MutexHeld' /\ TakenInTurn' /\ WindowInTurn'
  BY <1>3 DEF getClientPanics, MutexHeld, TakenInTurn, WindowInTurn, InTurn
<1>4. ASSUME NEW w \in Worker, Return(w) PROVE MutexHeld' /\ TakenInTurn' /\ WindowInTurn'
  <2>1. taken'[w] = <<>> /\ wanted'[w] = 0
    BY <1>4 DEF Return, TypeOK
  <2>2. \A v \in Worker \ {w} : taken'[v] = taken[v] /\ wanted'[v] = wanted[v]
    BY <1>4 DEF Return, TypeOK
  <2>3. MutexHeld'
    BY <2>1, <2>2 DEF MutexHeld
  <2>4. TakenInTurn'
    BY <1>4, <2>1, <2>2 DEF Return, TakenInTurn, InTurn
  <2>5. WindowInTurn'
    BY <1>4 DEF Return, WindowInTurn, InTurn
  <2> QED
    BY <2>3, <2>4, <2>5
<1>5. ASSUME Free, UNCHANGED <<lastUsed, wanted, taken>>, window' = <<>>
      PROVE  MutexHeld' /\ TakenInTurn' /\ WindowInTurn'
  <2>1. \A v \in Worker : taken[v] = <<>>
    BY <1>5 DEF Free, MutexHeld, TypeOK
  <2>2. Len(window') <= Len(clients')
    BY <1>5 DEF TypeOK
  <2> QED
    BY <1>5, <2>1, <2>2 DEF MutexHeld, TakenInTurn, WindowInTurn, InTurn
<1>6. CASE UNCHANGED vars
  BY <1>6 DEF vars, MutexHeld, TakenInTurn, WindowInTurn, InTurn
<1> QED
  BY <1>1, <1>2, <1>3, <1>4, <1>5, <1>6 DEF Next, AddClient, RemoveClient

\* The uses are in turn for ever.
LEMMA ConnectorStaysInTurn == Spec => []ConnectorInv
<1>1. Init => ConnectorInv
  <2> SUFFICES ASSUME Init PROVE ConnectorInv
    OBVIOUS
  <2>1. TypeOK /\ window = <<>> /\ \A w \in Worker : taken[w] = <<>> /\ wanted[w] = 0
    BY InitTyped DEF Init
  <2> QED
    BY <2>1 DEF ConnectorInv, MutexHeld, TakenInTurn, WindowInTurn, InTurn, TypeOK
<1>2. ConnectorInv /\ TypeOK' /\ [Next]_vars => ConnectorInv'
  BY ConnectorInvInductive
<1> QED
  BY <1>1, <1>2, ConnectorTypeCorrect, PTL DEF Spec

\* While there are as many clients as a stage has transactions, GetClients
\* (connector.go) gives each of them a client of its own, for any number of
\* clients and workers, and whatever was added and removed before.
THEOREM ConflictsAreSpread == Spec => []ConflictsSpread
<1>1. ASSUME ConnectorInv, NEW w \in Worker, wanted[w] <= Len(clients)
      PROVE  OneOfEach(taken[w])
  <2>1. /\ taken[w] \in Seq(Client) /\ InTurn(taken[w])
        /\ Len(taken[w]) <= Len(clients)
    BY <1>1 DEF ConnectorInv, TypeOK, MutexHeld, TakenInTurn
  <2> QED
    BY <1>1, <2>1, InTurnSpreads DEF ConnectorInv
<1>2. ConnectorInv => ConflictsSpread
  BY <1>1 DEF ConflictsSpread
<1> QED
  BY ConnectorStaysInTurn, <1>2, PTL

\* "getClient returns the client instance that was used the longest time ago"
\* (connector.go), among the uses since the list last changed: none is used
\* again before all the others were, by any workers in any order.
THEOREM ClientsTakeTurns == Spec => []UsesInTurn
<1>1. ASSUME ConnectorInv PROVE OneOfEach(window)
  BY <1>1, InTurnSpreads DEF ConnectorInv, TypeOK, WindowInTurn
<1>2. ConnectorInv => UsesInTurn
  BY <1>1 DEF UsesInTurn
<1> QED
  BY ConnectorStaysInTurn, <1>2, PTL

=============================================================================
