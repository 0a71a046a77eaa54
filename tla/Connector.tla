------------------------------ MODULE Connector ------------------------------
(***************************************************************************)
(* The clients of the evil wallet (pkg/models/connector.go: WebClients).   *)
(*                                                                         *)
(* The transactions of a stage are posted in parallel, each by a client of *)
(* its own, so that double spends reach different nodes.  The clients are  *)
(* used in turn: lastUsed is an index into a list that clients are added   *)
(* to and removed from.  Workers of the spammer take as many clients as    *)
(* they have transactions, one after the other, under the mutex.           *)
(***************************************************************************)
EXTENDS Integers, Sequences

CONSTANTS Client,   \* the client instances
          Url,      \* what they may connect to
          url,      \* the url of each client; two may have the same
          Initial,  \* the clients of the urls the program is given
          Worker,   \* goroutines that take clients
          MaxBatch  \* transactions of a stage, at most

\* No client is in the list twice.
OneOfEach(s) == \A i, j \in 1 .. Len(s) : s[i] = s[j] => i = j

ASSUME ConnectorAssumption ==
    /\ Initial \in Seq(Client)
    /\ OneOfEach(Initial)
    /\ url \in [Client -> Url]
    /\ MaxBatch \in Nat \ {0}

VARIABLES
    clients,   \* WebClients.clients, in the order of WebClients.urls
    lastUsed,  \* index from 0 of the client that was used last
    wanted,    \* numOfClt of a worker in GetClients, 0 outside: it has the mutex
    taken,     \* the clients it has got from getClient so far
    panicked,  \* the empty list was indexed
    window     \* history: the uses since the list changed, the last Len(clients) of them

vars == <<clients, lastUsed, wanted, taken, panicked, window>>

\* NewWebClients.
Init ==
    /\ clients = Initial
    /\ lastUsed = -1
    /\ wanted = [w \in Worker |-> 0]
    /\ taken = [w \in Worker |-> <<>>]
    /\ panicked = FALSE
    /\ window = <<>>

\* Nobody has the mutex.
MutFree == TRUE
Free == \A w \in Worker : wanted[w] = 0

\* GetClients, and GetClient with n = 1.
GetClients(w, n) ==
    /\ ~panicked
    /\ Free
    /\ wanted[w] = 0
    /\ wanted' = [wanted EXCEPT ![w] = n]
    /\ UNCHANGED <<clients, lastUsed, taken, panicked, window>>

\* The index that comes after lastUsed: the list may have become shorter.
MutTurn == IF lastUsed > Len(clients) - 3 THEN 0 ELSE lastUsed + 1
Turn == IF lastUsed >= Len(clients) - 1 THEN 0 ELSE lastUsed + 1

getClient(w) ==
    /\ ~panicked
    /\ Len(taken[w]) < wanted[w]
    /\ clients # <<>>
    /\ lastUsed' = Turn
    /\ taken' = [taken EXCEPT ![w] = Append(@, clients[Turn + 1])]
    /\ window' = Append(IF Len(window) = Len(clients) THEN Tail(window) ELSE window,
                        clients[Turn + 1])
    /\ UNCHANGED <<clients, wanted, panicked>>

getClientPanics(w) ==
    /\ ~panicked
    /\ Len(taken[w]) < wanted[w]
    /\ clients = <<>>
    /\ panicked' = TRUE
    /\ UNCHANGED <<clients, lastUsed, wanted, taken, window>>

Return(w) ==
    /\ ~panicked
    /\ wanted[w] > 0
    /\ Len(taken[w]) = wanted[w]
    /\ wanted' = [wanted EXCEPT ![w] = 0]
    /\ taken' = [taken EXCEPT ![w] = <<>>]
    /\ UNCHANGED <<clients, lastUsed, panicked, window>>

\* A new instance is put at the end, whatever is connected to the same url.
AddClient(c) ==
    /\ ~panicked
    /\ Free
    /\ \A i \in 1 .. Len(clients) : clients[i] # c
    /\ clients' = Append(clients, c)
    /\ window' = <<>>
    /\ UNCHANGED <<lastUsed, wanted, taken, panicked>>

MutWithout(i) == SubSeq(clients, 1, i - 1) \o SubSeq(clients, i + 1, Len(clients))
                    \o SubSeq(clients, Len(clients), Len(clients))
Without(i) == SubSeq(clients, 1, i - 1) \o SubSeq(clients, i + 1, Len(clients))

\* The first client with the url is removed; lastUsed stays as it is.
RemoveClient(u) ==
    /\ ~panicked
    /\ Free
    /\ \E i \in 1 .. Len(clients) :
        /\ url[clients[i]] = u
        /\ \A j \in 1 .. i - 1 : url[clients[j]] # u
        /\ clients' = Without(i)
    /\ window' = <<>>
    /\ UNCHANGED <<lastUsed, wanted, taken, panicked>>

Next ==
    \/ \E w \in Worker :
        \/ \E n \in 1 .. MaxBatch : GetClients(w, n)
        \/ getClient(w) \/ getClientPanics(w) \/ Return(w)
    \/ \E c \in Client : AddClient(c)
    \/ \E u \in Url : RemoveClient(u)

Spec == Init /\ [][Next]_vars

-----------------------------------------------------------------------------
(* Properties *)

\* Type invariant of the connector.
TypeOK ==
    /\ clients \in Seq(Client)
    /\ OneOfEach(clients)
    /\ lastUsed \in Int /\ lastUsed >= -1
    /\ wanted \in [Worker -> 0 .. MaxBatch]
    /\ taken \in [Worker -> Seq(Client)]
    /\ panicked \in BOOLEAN
    /\ window \in Seq(Client)

\* What the conflicts of a stage are for: as long as there are as many clients
\* as transactions, no two of them go to the same client, although other
\* workers take clients at the same time and clients come and go.
ConflictsSpread ==
    \A w \in Worker : wanted[w] > 0 /\ wanted[w] <= Len(clients) => OneOfEach(taken[w])

\* "GetClient returns the client instance that was used the longest time ago",
\* while the list stays as it is: no client is used again before all others
\* were, whichever workers use them and however long that goes on.  Over a
\* change this is not so: lastUsed is not adjusted.
UsesInTurn == OneOfEach(window)

=============================================================================
