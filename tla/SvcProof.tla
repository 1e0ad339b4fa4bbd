------------------------------ MODULE SvcProof -------------------------------
(***************************************************************************)
(* Proofs about the server loop of libtirpc: the table of transports, the  *)
(* poll array and svc_maxfd agree whatever connections come and go, the    *)
(* scan of svc_getreq_poll stays inside the array it polled, and a freed   *)
(* transport is used only where a routine destroyed the one it serves, for *)
(* any number of descriptors, transports, services and requests; in a      *)
(* program that calls itself (RawRpc) every call gets its own result,      *)
(* however calls nest; and what threads register side by side (SvcGeneric) *)
(* has one live transport for each netid and can be called.                *)
(***************************************************************************)
EXTENDS MCServer, FiniteSetTheorems, SequenceTheorems, WellFoundedInduction, TLAPS

Safe == TypeOK /\ TablesAgree /\ NoUseAfterFree /\ ScanCounted /\ ExitStays

Registered == {f \in Fds : svc_xports[f] /= None}
Transport  == [fd : Fds, freed : BOOLEAN, died : BOOLEAN]
SockTyped  == sock = [f \in Fds |-> [open |-> sock[f].open, in |-> sock[f].in, eof |-> sock[f].eof]]
TableTypes ==
  /\ SockTyped /\ xprt \in Seq(Transport)
  /\ svc_xports \in [Fds -> 0 .. Len(xprt)]
  /\ svc_pollfd \in Seq(Fds \cup {-1}) /\ poll_null \in BOOLEAN
  /\ svc_maxfd \in Fds \cup {-1}
LoopTypes ==
  /\ my \in Seq([fd : Fds \cup {-1}, revents : BOOLEAN])
  /\ ret \in Nat /\ i \in Nat \ {0} /\ found \in Nat
  /\ fd \in Fds /\ x \in 0 .. Len(xprt)

-----------------------------------------------------------------------------
(* The walk that looks for the lowest free descriptor, or the first free   *)
(* slot, finds it.                                                         *)
LEMMA LeastExists ==
  ASSUME NEW S, S \subseteq Nat, S /= {}
  PROVE  \E k \in S : \A j \in S : k <= j
<1>1. PICK k \in S : \A j \in S : ~(<<j, k>> \in OpToRel(<, Nat))
  BY NatLessThanWellFounded, WFMin
<1>2. ASSUME NEW j \in S PROVE k <= j
  <2>1. ~(j < k)
    BY <1>1 DEF OpToRel
  <2> QED BY <2>1
<1> QED BY <1>2

(* svc_maxfd as the maximum over a set of descriptors.                     *)
LEMMA LargestIs ==
  ASSUME NEW S, S \subseteq Fds \cup {-1}, S /= {}
  PROVE  Largest(S) \in S /\ \A m \in S : m <= Largest(S)
<1> DEFINE T == {MaxFd - m : m \in S}
<1>1. T \subseteq Nat /\ T /= {}
  <2>1. \A m \in S : m \in Int /\ m <= MaxFd
    BY SvcAssumption DEF Fds
  <2>2. MaxFd \in Nat
    BY SvcAssumption
  <2> QED BY <2>1, <2>2
<1>2. PICK k \in T : \A j \in T : k <= j
  BY <1>1, LeastExists
<1>3. PICK n \in S : k = MaxFd - n
  BY <1>2
<1>4. ASSUME NEW m \in S PROVE m <= n
  <2>1. MaxFd - m \in T
    OBVIOUS
  <2>2. k <= MaxFd - m
    BY <1>2, <2>1
  <2>3. m \in Fds \cup {-1} /\ n \in Fds \cup {-1} /\ MaxFd \in Int
    BY SvcAssumption
  <2>4. m \in Int /\ n \in Int
    BY <2>3 DEF Fds
  <2> HIDE DEF T
  <2> QED BY <1>3, <2>2, <2>3, <2>4
<1> HIDE DEF T
<1> QED BY <1>3, <1>4 DEF Largest

(* It is the only one.                                                     *)
LEMMA LargestUnique ==
  ASSUME NEW S, S \subseteq Fds \cup {-1}, NEW n \in S, \A m \in S : m <= n
  PROVE  Largest(S) = n
<1>1. Largest(S) \in S /\ \A m \in S : m <= Largest(S)
  BY LargestIs
<1>2. /\ n \in Fds \cup {-1} /\ Largest(S) \in Fds \cup {-1}
      /\ n <= Largest(S) /\ Largest(S) <= n
  BY <1>1
<1> QED BY <1>2 DEF Fds

(* A transport of the table is a record with a descriptor in range.        *)
LEMMA TransportType ==
  ASSUME TypeOK, NEW n \in 1 .. Len(xprt)
  PROVE  /\ Len(xprt) \in Nat /\ DOMAIN xprt = 1 .. Len(xprt)
         /\ xprt[n] \in Transport /\ xprt[n].fd \in Fds
         /\ xprt[n].freed \in BOOLEAN /\ xprt[n].died \in BOOLEAN
<1>1. xprt \in Seq(Transport)
  BY DEF TypeOK, Transport
<1>2. xprt[n] \in Transport
  BY <1>1, ElementOfSeq
<1> QED BY <1>1, <1>2, LenProperties DEF Transport

-----------------------------------------------------------------------------
(* xprt_unregister of a live transport takes the branch that clears its    *)
(* entry, its slots and, when it was the largest, lowers svc_maxfd.        *)
LEMMA UnregisterTables ==
  ASSUME TypeOK, TablesAgree, NEW n \in 1 .. Len(xprt), ~xprt[n].freed, xprt_unregister(n)
  PROVE  LET f == xprt[n].fd IN
         /\ svc_xports[f] = n
         /\ svc_xports' = [svc_xports EXCEPT ![f] = None]
         /\ svc_pollfd' = [k \in 1 .. Len(svc_pollfd) |->
                             IF svc_pollfd[k] = f THEN -1 ELSE svc_pollfd[k]]
         /\ svc_pollfd' \in Seq(Fds \cup {-1}) /\ Len(svc_pollfd') = Len(svc_pollfd)
         /\ poll_null' = poll_null
         /\ Registered' = Registered \ {f}
         /\ svc_maxfd' \in Fds \cup {-1} /\ svc_maxfd' = Largest(Registered')
<1> DEFINE f == xprt[n].fd
<1>1. f \in Fds /\ svc_xports[f] = n /\ n /= None /\ f \in Registered
  <2>1. f \in Fds /\ svc_xports[f] = n
    BY TransportType DEF TablesAgree
  <2> QED BY <2>1 DEF Registered, None
<1>2. /\ svc_xports' = [svc_xports EXCEPT ![f] = None]
      /\ svc_maxfd' = IF f >= svc_maxfd
                      THEN Largest({g \in Fds : g < svc_maxfd /\ svc_xports[g] /= None})
                      ELSE svc_maxfd
      /\ svc_pollfd' = [k \in 1 .. Len(svc_pollfd) |->
                          IF svc_pollfd[k] = f THEN -1 ELSE svc_pollfd[k]]
      /\ poll_null' = poll_null
  BY <1>1 DEF xprt_unregister, tables
<1>3. Registered' = Registered \ {f}
  BY <1>1, <1>2 DEF Registered, TypeOK
<1> HIDE DEF f
<1>4. svc_pollfd' \in Seq(Fds \cup {-1}) /\ Len(svc_pollfd') = Len(svc_pollfd)
  <2>1. svc_pollfd \in Seq(Fds \cup {-1}) /\ Len(svc_pollfd) \in Nat
    BY LenProperties DEF TypeOK
  <2>2. \A k \in 1 .. Len(svc_pollfd) : svc_pollfd[k] \in Fds \cup {-1}
    BY <2>1, ElementOfSeq
  <2>3. svc_pollfd' \in [1 .. Len(svc_pollfd) -> Fds \cup {-1}]
    BY <1>2, <2>2
  <2>4. svc_pollfd' \in Seq(Fds \cup {-1})
    BY <2>1, <2>3, SeqDef
  <2>5. DOMAIN svc_pollfd' = 1 .. Len(svc_pollfd') /\ Len(svc_pollfd') \in Nat
    BY <2>4, LenProperties
  <2> QED BY <2>1, <2>3, <2>4, <2>5
<1>5. svc_maxfd = Largest(Registered) /\ Registered \subseteq Fds /\ MaxFd \in Nat
  BY SvcAssumption DEF TablesAgree, Registered
<1>6. svc_maxfd \in Registered /\ \A m \in Registered : m <= svc_maxfd
  BY <1>1, <1>5, LargestIs
<1>7. svc_maxfd' \in Fds \cup {-1} /\ svc_maxfd' = Largest(Registered')
  <2>1. CASE f >= svc_maxfd
    <3>1. f = svc_maxfd
      BY <1>1, <1>5, <1>6, <2>1 DEF Fds
    <3>2. {g \in Fds : g < svc_maxfd /\ svc_xports[g] /= None} = Registered \ {f}
      <4>1. ASSUME NEW g \in Fds PROVE g < svc_maxfd /\ svc_xports[g] /= None <=> g \in Registered \ {f}
        <5>1. g \in Int /\ svc_maxfd \in Int /\ (g \in Registered <=> svc_xports[g] /= None)
          BY <1>5, <1>6 DEF Registered, Fds
        <5> QED BY <1>6, <3>1, <5>1
      <4> QED BY <1>5, <4>1
    <3>3. svc_maxfd' = Largest(Registered \ {f})
      BY <1>2, <2>1, <3>2
    <3>4. CASE Registered \ {f} = {}
      BY <1>3, <3>3, <3>4 DEF Largest
    <3>5. CASE Registered \ {f} /= {}
      <4>1. Largest(Registered \ {f}) \in Registered \ {f}
        BY <1>5, <3>5, LargestIs
      <4> QED BY <1>3, <1>5, <3>3, <4>1
    <3> QED BY <3>4, <3>5
  <2>2. CASE ~(f >= svc_maxfd)
    <3>1. svc_maxfd' = svc_maxfd /\ svc_maxfd \in Fds
      BY <1>2, <1>5, <1>6, <2>2
    <3>2. svc_maxfd \in Registered \ {f}
      BY <1>1, <1>6, <2>2, <3>1, <1>5 DEF Fds
    <3>3. Largest(Registered \ {f}) = svc_maxfd
      BY <1>5, <1>6, <3>2, LargestUnique
    <3> QED BY <1>3, <3>1, <3>3
  <2> QED BY <2>1, <2>2
<1> QED BY <1>1, <1>2, <1>3, <1>4, <1>7 DEF f

(* One socket changes: it stays a socket.                                  *)
LEMMA SockWrite ==
  ASSUME SockTyped, NEW f \in Fds, NEW r, r = [open |-> r.open, in |-> r.in, eof |-> r.eof],
         sock' = [sock EXCEPT ![f] = r]
  PROVE  /\ SockTyped' /\ sock'[f] = r
         /\ \A g \in Fds : g /= f => sock'[g] = sock[g]
<1>1. /\ sock'[f] = r
      /\ \A g \in Fds : g /= f => sock'[g] = sock[g]
      /\ sock' = [g \in Fds |-> sock'[g]]
  BY DEF SockTyped
<1>2. ASSUME NEW g \in Fds
      PROVE  sock'[g] = [open |-> sock'[g].open, in |-> sock'[g].in, eof |-> sock'[g].eof]
  <2>1. sock[g] = [open |-> sock[g].open, in |-> sock[g].in, eof |-> sock[g].eof]
    BY DEF SockTyped
  <2> QED BY <1>1, <2>1
<1> QED BY <1>1, <1>2 DEF SockTyped

(* svc_vc_destroy of a live transport (SVC_DESTROY): the table, the poll   *)
(* array, svc_maxfd and the transports agree afterwards, and no other      *)
(* transport has changed.                                                  *)
LEMMA DestroyTables ==
  ASSUME TypeOK, TablesAgree, NEW n \in 1 .. Len(xprt), ~xprt[n].freed, svc_vc_destroy(n)
  PROVE  /\ TableTypes' /\ TablesAgree'
         /\ Len(xprt') = Len(xprt) /\ Len(svc_pollfd') = Len(svc_pollfd)
         /\ poll_null' = poll_null
         /\ \A m \in 1 .. Len(xprt) : xprt'[m].fd = xprt[m].fd /\ (m /= n => xprt'[m] = xprt[m])
<1> DEFINE f == xprt[n].fd
<1>1. /\ svc_xports[f] = n
      /\ svc_xports' = [svc_xports EXCEPT ![f] = None]
      /\ svc_pollfd' = [k \in 1 .. Len(svc_pollfd) |->
                           IF svc_pollfd[k] = f THEN -1 ELSE svc_pollfd[k]]
      /\ svc_pollfd' \in Seq(Fds \cup {-1}) /\ Len(svc_pollfd') = Len(svc_pollfd)
      /\ poll_null' = poll_null
      /\ Registered' = Registered \ {f}
      /\ svc_maxfd' \in Fds \cup {-1} /\ svc_maxfd' = Largest(Registered')
  <2>1. xprt_unregister(n)
    BY DEF svc_vc_destroy
  <2> QED BY <2>1, UnregisterTables
<1>2. f \in Fds /\ n /= 0 /\ Len(xprt) \in Nat /\ DOMAIN xprt = 1 .. Len(xprt)
  BY TransportType
<1>3. /\ xprt' \in Seq(Transport) /\ Len(xprt') = Len(xprt)
      /\ \A m \in 1 .. Len(xprt) :
           /\ xprt'[m].fd = xprt[m].fd
           /\ m /= n => xprt'[m] = xprt[m]
      /\ xprt'[n].freed
  <2> DEFINE r == [xprt[n] EXCEPT !.freed = TRUE]
  <2>1. r \in Transport /\ r.fd = f /\ r.freed
    BY TransportType DEF Transport
  <2>2. xprt' = [xprt EXCEPT ![n] = r]
    BY DEF svc_vc_destroy
  <2> HIDE DEF r
  <2>3. xprt \in Seq(Transport)
    BY DEF TypeOK, Transport
  <2>4. xprt' \in Seq(Transport) /\ Len(xprt') = Len(xprt)
    BY <2>1, <2>2, <2>3, ExceptSeq
  <2> QED BY <1>2, <2>1, <2>2, <2>4
<1>4. SockTyped' /\ \A g \in Fds : g /= f => sock'[g] = sock[g]
  <2>1. /\ sock' = [sock EXCEPT ![f] = Closed]
        /\ Closed = [open |-> Closed.open, in |-> Closed.in, eof |-> Closed.eof]
    BY DEF svc_vc_destroy, Closed
  <2>2. SockTyped
    BY DEF TypeOK, SockTyped
  <2> HIDE DEF f
  <2> QED BY <1>2, <2>1, <2>2, SockWrite
<1> HIDE DEF f
<1>5. TableTypes'
  <2>1. svc_xports' \in [Fds -> 0 .. Len(xprt')]
    BY <1>1, <1>2, <1>3 DEF TypeOK, None
  <2>2. poll_null' \in BOOLEAN
    BY <1>1 DEF TypeOK
  <2> QED BY <1>1, <1>3, <1>4, <2>1, <2>2 DEF TableTypes
<1>6. \A g \in Fds : svc_xports'[g] = IF g = f THEN None ELSE svc_xports[g]
  BY <1>1, <1>2 DEF TypeOK
<1>7. \A k \in 1 .. Len(svc_pollfd) : svc_pollfd'[k] = IF svc_pollfd[k] = f THEN -1 ELSE svc_pollfd[k]
  BY <1>1
<1>8. f /= -1 /\ -1 \notin Fds
  BY <1>2, SvcAssumption DEF Fds
<1>9. TablesAgree'
  <2>1. ASSUME ~poll_null', NEW g \in Fds PROVE svc_xports'[g] /= None <=> InPoll(g)'
    <3>1. svc_xports[g] /= None <=> InPoll(g)
      BY <1>1, <2>1 DEF TablesAgree
    <3>2. InPoll(g)' <=> g /= f /\ InPoll(g)
      BY <1>1, <1>7, <1>8 DEF InPoll
    <3> QED BY <1>6, <3>1, <3>2
  <2>2. ASSUME NEW j \in 1 .. Len(svc_pollfd'), NEW k \in 1 .. Len(svc_pollfd'),
               svc_pollfd'[j] = svc_pollfd'[k]
        PROVE  j = k \/ svc_pollfd'[j] = -1
    BY <1>1, <1>7, <2>2 DEF TablesAgree
  <2>3. ASSUME NEW g \in Fds, svc_xports'[g] /= None
        PROVE  sock'[g].open /\ ~xprt'[svc_xports'[g]].freed /\ xprt'[svc_xports'[g]].fd = g
    <3>1. g /= f /\ svc_xports'[g] = svc_xports[g] /\ svc_xports[g] /= None
      BY <1>6, <2>3
    <3>2. sock[g].open /\ ~xprt[svc_xports[g]].freed /\ xprt[svc_xports[g]].fd = g
      BY <3>1 DEF TablesAgree
    <3>3. svc_xports[g] \in 1 .. Len(xprt) /\ svc_xports[g] /= n
      BY <1>2, <3>1, <3>2 DEF TypeOK, None, f
    <3> QED BY <1>3, <1>4, <3>1, <3>2, <3>3
  <2>4. ASSUME NEW m \in 1 .. Len(xprt'), ~xprt'[m].freed
        PROVE  svc_xports'[xprt'[m].fd] = m
    <3>1. m \in 1 .. Len(xprt) /\ m /= n /\ xprt'[m] = xprt[m]
      BY <1>3, <2>4
    <3>2. svc_xports[xprt[m].fd] = m /\ xprt[m].fd \in Fds
      BY <2>4, <3>1, TransportType DEF TablesAgree
    <3>3. xprt[m].fd /= f
      BY <1>1, <3>1, <3>2
    <3> QED BY <1>6, <3>1, <3>2, <3>3
  <2>5. svc_maxfd' = Largest({g \in Fds : svc_xports[g] /= None})'
    BY <1>1 DEF Registered
  <2> QED BY <2>1, <2>2, <2>3, <2>4, <2>5 DEF TablesAgree
<1> QED BY <1>1, <1>3, <1>5, <1>9

(* xprt_register of a new transport on a descriptor that was closed: the   *)
(* first free slot of the poll array is taken, or one is appended, and     *)
(* everything agrees afterwards.  The poll array exists.                   *)
LEMMA AcceptTables ==
  ASSUME TypeOK, TablesAgree, ~poll_null, NEW f \in Fds, ~sock[f].open,
         xprt_register(f, Len(xprt) + 1),
         xprt' = Append(xprt, [fd |-> f, freed |-> FALSE, died |-> FALSE]),
         SockTyped', sock'[f].open, \A g \in Fds : g /= f => sock'[g].open = sock[g].open
  PROVE  /\ TableTypes' /\ TablesAgree' /\ ~poll_null'
         /\ Len(xprt') = Len(xprt) + 1
         /\ \A m \in 1 .. Len(xprt) : xprt'[m] = xprt[m]
<1> DEFINE r == [fd |-> f, freed |-> FALSE, died |-> FALSE]
           n == Len(xprt) + 1
<1>1. xprt \in Seq(Transport) /\ r \in Transport /\ r.fd = f /\ ~r.freed
  BY DEF TypeOK, Transport
<1> HIDE DEF r
<1>2. /\ xprt' \in Seq(Transport) /\ Len(xprt') = n /\ Len(xprt) \in Nat
      /\ \A m \in 1 .. Len(xprt) : xprt'[m] = xprt[m]
      /\ xprt'[n] = r
  <2>1. xprt' = Append(xprt, r)
    BY DEF r
  <2> QED BY <1>1, <2>1, AppendProperties, LenProperties
<1>3. n \in 1 .. Len(xprt') /\ n /= None /\ n \notin 0 .. Len(xprt)
  BY <1>2 DEF None
<1> HIDE DEF n
<1>4. /\ svc_xports' = [svc_xports EXCEPT ![f] = n] /\ ~poll_null'
      /\ svc_maxfd' = Largest({svc_maxfd, f})
      /\ svc_pollfd' = IF FreeSlot /= {}
                       THEN [svc_pollfd EXCEPT ![CHOOSE k \in FreeSlot : \A j \in FreeSlot : k <= j] = f]
                       ELSE Append(svc_pollfd, f)
  BY DEF xprt_register, n
<1>5. svc_xports[f] = None /\ ~InPoll(f) /\ f /= -1
  BY SvcAssumption DEF TablesAgree, Fds
<1>6. /\ svc_xports' \in [Fds -> 0 .. Len(xprt')]
      /\ \A g \in Fds : svc_xports'[g] = IF g = f THEN n ELSE svc_xports[g]
  <2>1. svc_xports \in [Fds -> 0 .. Len(xprt)]
    BY DEF TypeOK
  <2>2. \A g \in Fds : svc_xports'[g] = IF g = f THEN n ELSE svc_xports[g]
    BY <1>4, <2>1
  <2>3. \A g \in Fds : svc_xports'[g] \in 0 .. Len(xprt')
    BY <1>2, <1>3, <2>1, <2>2 DEF n
  <2>4. svc_xports' = [g \in Fds |-> svc_xports'[g]]
    BY <1>4, <2>1
  <2> QED BY <2>2, <2>3, <2>4
<1>7. /\ svc_pollfd' \in Seq(Fds \cup {-1})
      /\ \E s \in 1 .. Len(svc_pollfd') :
           /\ svc_pollfd'[s] = f
           /\ \A k \in 1 .. Len(svc_pollfd') \ {s} :
                k \in 1 .. Len(svc_pollfd) /\ svc_pollfd'[k] = svc_pollfd[k]
           /\ \A k \in 1 .. Len(svc_pollfd) :
                k \in 1 .. Len(svc_pollfd') /\ (k = s => svc_pollfd[k] = -1)
  <2>1. svc_pollfd \in Seq(Fds \cup {-1}) /\ Len(svc_pollfd) \in Nat
    BY LenProperties DEF TypeOK
  <2>2. CASE FreeSlot /= {}
    <3> DEFINE s == CHOOSE k \in FreeSlot : \A j \in FreeSlot : k <= j
    <3>1. s \in FreeSlot
      <4>1. FreeSlot \subseteq Nat
        BY <2>1 DEF FreeSlot
      <4>2. \E k \in FreeSlot : \A j \in FreeSlot : k <= j
        BY <2>2, <4>1, LeastExists
      <4> QED BY <4>2
    <3>2. svc_pollfd' = [svc_pollfd EXCEPT ![s] = f]
      BY <1>4, <2>2
    <3> HIDE DEF s
    <3>3. s \in 1 .. Len(svc_pollfd) /\ svc_pollfd[s] = -1
      BY <3>1 DEF FreeSlot
    <3>4. svc_pollfd' \in Seq(Fds \cup {-1}) /\ Len(svc_pollfd') = Len(svc_pollfd)
      BY <2>1, <3>2, <3>3, ExceptSeq
    <3>5. DOMAIN svc_pollfd = 1 .. Len(svc_pollfd)
      BY <2>1, LenProperties
    <3> QED BY <3>2, <3>3, <3>4, <3>5
  <2>3. CASE FreeSlot = {}
    <3>1. svc_pollfd' = Append(svc_pollfd, f)
      BY <1>4, <2>3
    <3>2. /\ svc_pollfd' \in Seq(Fds \cup {-1}) /\ Len(svc_pollfd') = Len(svc_pollfd) + 1
          /\ svc_pollfd'[Len(svc_pollfd) + 1] = f
          /\ \A k \in 1 .. Len(svc_pollfd) : svc_pollfd'[k] = svc_pollfd[k]
      <4>1. f \in Fds \cup {-1}
        OBVIOUS
      <4> QED BY <2>1, <3>1, <4>1, AppendProperties
    <3>3. Len(svc_pollfd) + 1 \in 1 .. Len(svc_pollfd')
      BY <2>1, <3>2
    <3>4. \A k \in 1 .. Len(svc_pollfd') \ {Len(svc_pollfd) + 1} : k \in 1 .. Len(svc_pollfd)
      BY <2>1, <3>2
    <3>5. \A k \in 1 .. Len(svc_pollfd) : k \in 1 .. Len(svc_pollfd') /\ k /= Len(svc_pollfd) + 1
      BY <2>1, <3>2
    <3> QED BY <3>2, <3>3, <3>4, <3>5
  <2> QED BY <2>2, <2>3
<1>8. svc_maxfd' \in Fds \cup {-1} /\ svc_maxfd' = Largest(Registered')
  <2>1. Registered' = Registered \cup {f} /\ Registered \subseteq Fds
    BY <1>3, <1>6 DEF Registered
  <2>2. svc_maxfd = Largest(Registered) /\ svc_maxfd \in Fds \cup {-1}
    BY DEF TablesAgree, Registered, TypeOK
  <2>3. \A m \in Registered : m <= svc_maxfd
    BY <2>1, <2>2, LargestIs
  <2>4. svc_maxfd \in Registered \/ svc_maxfd = -1
    BY <2>1, <2>2, LargestIs DEF Largest
  <2> DEFINE top == Largest({svc_maxfd, f})
  <2>5. top \in {svc_maxfd, f} /\ svc_maxfd <= top /\ f <= top
    BY <2>2, LargestIs
  <2>6. svc_maxfd' = top
    BY <1>4
  <2> HIDE DEF top
  <2>7. top \in Registered'
    <3>1. CASE top = f
      BY <2>1, <3>1
    <3>2. CASE top /= f
      <4>1. top = svc_maxfd /\ f <= svc_maxfd /\ svc_maxfd /= -1
        BY <2>5, <3>2, SvcAssumption DEF Fds
      <4> QED BY <2>1, <2>4, <4>1
    <3> QED BY <3>1, <3>2
  <2>8. \A m \in Registered' : m <= top
    <3>1. top \in Int /\ svc_maxfd \in Int
      BY <2>2, <2>5 DEF Fds
    <3>2. ASSUME NEW m \in Registered PROVE m <= top
      <4>1. m \in Int /\ m <= svc_maxfd
        BY <2>1, <2>3 DEF Fds
      <4> QED BY <2>5, <3>1, <4>1
    <3> QED BY <2>1, <2>5, <3>2
  <2>9. Registered' \subseteq Fds \cup {-1}
    BY <2>1
  <2> QED BY <2>6, <2>7, <2>8, <2>9, LargestUnique
<1>9. TableTypes'
  <2>1. poll_null' \in BOOLEAN
    BY DEF xprt_register
  <2> QED BY <1>2, <1>6, <1>7, <1>8, <2>1 DEF TableTypes
<1>10. TablesAgree'
  <2>1. ASSUME NEW g \in Fds PROVE svc_xports'[g] /= None <=> InPoll(g)'
    <3>1. svc_xports[g] /= None <=> InPoll(g)
      BY DEF TablesAgree
    <3>2. InPoll(g)' <=> g = f \/ InPoll(g)
      <4>1. g /= -1
        BY SvcAssumption DEF Fds
      <4> QED BY <1>7, <4>1 DEF InPoll
    <3> QED BY <1>3, <1>6, <3>1, <3>2
  <2>2. ASSUME NEW j \in 1 .. Len(svc_pollfd'), NEW k \in 1 .. Len(svc_pollfd'),
               svc_pollfd'[j] = svc_pollfd'[k]
        PROVE  j = k \/ svc_pollfd'[j] = -1
    BY <1>5, <1>7, <2>2 DEF TablesAgree, InPoll
  <2>3. ASSUME NEW g \in Fds, svc_xports'[g] /= None
        PROVE  sock'[g].open /\ ~xprt'[svc_xports'[g]].freed /\ xprt'[svc_xports'[g]].fd = g
    <3>1. CASE g = f
      BY <1>1, <1>2, <1>6, <3>1
    <3>2. CASE g /= f
      <4>1. svc_xports'[g] = svc_xports[g] /\ svc_xports[g] \in 1 .. Len(xprt)
        BY <1>6, <2>3, <3>2 DEF TypeOK, None
      <4>2. sock[g].open /\ ~xprt[svc_xports[g]].freed /\ xprt[svc_xports[g]].fd = g
        BY <2>3, <4>1 DEF TablesAgree
      <4> QED BY <1>2, <3>2, <4>1, <4>2
    <3> QED BY <3>1, <3>2
  <2>4. ASSUME NEW m \in 1 .. Len(xprt'), ~xprt'[m].freed
        PROVE  svc_xports'[xprt'[m].fd] = m
    <3>1. CASE m = n
      BY <1>1, <1>2, <1>6, <3>1
    <3>2. CASE m /= n
      <4>1. m \in 1 .. Len(xprt) /\ xprt'[m] = xprt[m]
        BY <1>2, <3>2 DEF n
      <4>2. svc_xports[xprt[m].fd] = m /\ xprt[m].fd \in Fds
        BY <2>4, <4>1, TransportType DEF TablesAgree
      <4>3. xprt[m].fd /= f
        BY <1>5, <4>1, <4>2 DEF None
      <4> QED BY <1>6, <4>1, <4>2, <4>3
    <3> QED BY <3>1, <3>2
  <2>5. svc_maxfd' = Largest({g \in Fds : svc_xports[g] /= None})'
    BY <1>8 DEF Registered
  <2> QED BY <2>1, <2>2, <2>3, <2>4, <2>5 DEF TablesAgree
<1> QED BY <1>2, <1>4, <1>9, <1>10 DEF n

(* The tables agree as long as neither they nor the life and descriptor of *)
(* a transport change and no socket is opened or closed.                   *)
LEMMA SameTables ==
  ASSUME TypeOK, TablesAgree, UNCHANGED tables,
         xprt' \in Seq(Transport), Len(xprt') = Len(xprt),
         \A m \in 1 .. Len(xprt) : xprt'[m].fd = xprt[m].fd /\ xprt'[m].freed = xprt[m].freed,
         SockTyped', \A g \in Fds : sock'[g].open = sock[g].open
  PROVE  TableTypes' /\ TablesAgree'
<1>1. /\ svc_xports' = svc_xports /\ svc_pollfd' = svc_pollfd
      /\ poll_null' = poll_null /\ svc_maxfd' = svc_maxfd
  BY DEF tables
<1>2. TableTypes'
  BY <1>1 DEF TableTypes, TypeOK
<1>3. ASSUME NEW g \in Fds, svc_xports'[g] /= None
      PROVE  sock'[g].open /\ ~xprt'[svc_xports'[g]].freed /\ xprt'[svc_xports'[g]].fd = g
  <2>1. svc_xports[g] \in 1 .. Len(xprt)
    BY <1>1, <1>3 DEF TypeOK, None
  <2> QED BY <1>1, <1>3, <2>1 DEF TablesAgree
<1>4. ASSUME NEW m \in 1 .. Len(xprt'), ~xprt'[m].freed
      PROVE  svc_xports'[xprt'[m].fd] = m
  BY <1>1, <1>4 DEF TablesAgree
<1>5. ~poll_null' => \A g \in Fds : svc_xports'[g] /= None <=> InPoll(g)'
  BY <1>1 DEF TablesAgree, InPoll
<1>6. \A j, k \in 1 .. Len(svc_pollfd') : svc_pollfd'[j] = svc_pollfd'[k] => j = k \/ svc_pollfd'[j] = -1
  BY <1>1 DEF TablesAgree
<1>7. svc_maxfd' = Largest({g \in Fds : svc_xports'[g] /= None})
  BY <1>1 DEF TablesAgree
<1> QED BY <1>2, <1>3, <1>4, <1>5, <1>6, <1>7 DEF TablesAgree

(* A peer or the server fills or empties a socket: it stays open.          *)
LEMMA SockInput ==
  ASSUME SockTyped, NEW f \in Fds, NEW b, sock' = [sock EXCEPT ![f].in = b]
  PROVE  SockTyped' /\ \A g \in Fds : sock'[g].open = sock[g].open
<1>1. sock[f] = [open |-> sock[f].open, in |-> sock[f].in, eof |-> sock[f].eof]
  BY DEF SockTyped
<1>2. PICK r : r = [sock[f] EXCEPT !.in = b]
  OBVIOUS
<1>3. r = [open |-> r.open, in |-> r.in, eof |-> r.eof] /\ r.open = sock[f].open
  BY <1>1, <1>2
<1>4. sock' = [sock EXCEPT ![f] = r]
  BY <1>2
<1>5. SockTyped' /\ sock'[f] = r /\ \A g \in Fds : g /= f => sock'[g] = sock[g]
  BY <1>3, <1>4, SockWrite
<1> QED BY <1>3, <1>5

(* A peer hangs up: the socket stays open.                                 *)
LEMMA SockEnd ==
  ASSUME SockTyped, NEW f \in Fds, sock' = [sock EXCEPT ![f].eof = TRUE]
  PROVE  SockTyped' /\ \A g \in Fds : sock'[g].open = sock[g].open
<1>1. sock[f] = [open |-> sock[f].open, in |-> sock[f].in, eof |-> sock[f].eof]
  BY DEF SockTyped
<1>2. PICK r : r = [sock[f] EXCEPT !.eof = TRUE]
  OBVIOUS
<1>3. r = [open |-> r.open, in |-> r.in, eof |-> r.eof] /\ r.open = sock[f].open
  BY <1>1, <1>2
<1>4. sock' = [sock EXCEPT ![f] = r]
  BY <1>2
<1>5. SockTyped' /\ sock'[f] = r /\ \A g \in Fds : g /= f => sock'[g] = sock[g]
  BY <1>3, <1>4, SockWrite
<1> QED BY <1>3, <1>5

(* The types are those of the tables and those of the loop.                *)
LEMMA Types ==
  /\ TypeOK <=> TableTypes /\ LoopTypes
  /\ TypeOK' <=> TableTypes' /\ LoopTypes'
BY DEF TypeOK, TableTypes, LoopTypes, SockTyped, Transport

(* A step that leaves the tables and the transports alone, whatever comes  *)
(* in on the sockets.                                                      *)
LEMMA QuietTables ==
  ASSUME TypeOK, TablesAgree, UNCHANGED <<xprt, tables>>,
         SockTyped', \A g \in Fds : sock'[g].open = sock[g].open
  PROVE  TableTypes' /\ TablesAgree'
<1>1. xprt \in Seq(Transport) /\ xprt' = xprt
  BY DEF TypeOK, Transport
<1> QED BY <1>1, SameTables

(* What poll counted is still ahead of the scan while a request is served. *)
LEMMA ScanKept ==
  ASSUME ScanCounted, UNCHANGED <<my, ret, i, found>>,
         Busy' \/ pc' \in {"scan", "common"} => Busy \/ pc \in {"scan", "common"}
  PROVE  ScanCounted'
<1>1. Ahead' = Ahead
  BY DEF Ahead
<1>2. Busy' \/ pc' \in {"scan", "common"} => ret' = found' + Cardinality(Ahead')
  BY <1>1 DEF ScanCounted
<1>3. \A k \in 1 .. Len(my') : my'[k].revents => my'[k].fd /= -1
  BY DEF ScanCounted
<1> QED BY <1>2, <1>3 DEF ScanCounted

-----------------------------------------------------------------------------
(* svc_run starts with the listening transport, as svc_vc_create made it.  *)
LEMMA StartSafe == Init => Safe
<1> SUFFICES ASSUME Init PROVE Safe
  OBVIOUS
<1> USE SvcAssumption
<1>1. Listener \in Fds /\ -1 \notin Fds /\ Len(xprt) = 1 /\ 1 .. Len(xprt) = {1}
  BY DEF Init, Listener, Fds
<1>2. /\ xprt[1].fd = Listener /\ ~xprt[1].freed
      /\ \A f \in Fds : svc_xports[f] = IF f = Listener THEN 1 ELSE None
      /\ Len(svc_pollfd) = 1 /\ 1 .. Len(svc_pollfd) = {1} /\ svc_pollfd[1] = Listener
      /\ ~poll_null
  BY DEF Init
<1>3. TypeOK
  <2>1. SockTyped
    <3>1. ASSUME NEW f \in Fds
          PROVE  sock[f] = [open |-> sock[f].open, in |-> sock[f].in, eof |-> sock[f].eof]
      BY DEF Init, Closed
    <3>2. sock = [f \in Fds |-> sock[f]]
      BY DEF Init
    <3> QED BY <3>1, <3>2 DEF SockTyped
  <2>2. xprt \in Seq(Transport)
    BY <1>1 DEF Init, Transport
  <2>3. svc_xports \in [Fds -> 0 .. Len(xprt)]
    BY <1>1 DEF Init, None
  <2>4. svc_pollfd \in Seq(Fds \cup {-1}) /\ poll_null \in BOOLEAN /\ svc_maxfd \in Fds \cup {-1}
    <3>1. Listener \in Fds \cup {-1}
      BY <1>1
    <3>2. svc_pollfd = <<Listener>> /\ svc_maxfd = Listener
      BY DEF Init
    <3>3. svc_pollfd \in Seq(Fds \cup {-1})
      BY <3>1, <3>2
    <3>4. poll_null \in BOOLEAN
      BY DEF Init
    <3> QED BY <3>1, <3>2, <3>3, <3>4
  <2>5. LoopTypes
    BY <1>1 DEF Init, LoopTypes, None, Fds
  <2> QED BY <2>1, <2>2, <2>3, <2>4, <2>5, Types DEF TableTypes
<1>4. TablesAgree
  <2>1. \A f \in Fds : svc_xports[f] /= None <=> InPoll(f)
    BY <1>2 DEF InPoll, None
  <2>2. \A f \in Fds : svc_xports[f] /= None =>
          sock[f].open /\ ~xprt[svc_xports[f]].freed /\ xprt[svc_xports[f]].fd = f
    <3>1. sock[Listener].open
      BY <1>1 DEF Init, Closed
    <3> QED BY <1>2, <3>1
  <2>3. svc_maxfd = Largest({f \in Fds : svc_xports[f] /= None})
    <3>1. {f \in Fds : svc_xports[f] /= None} = {Listener}
      BY <1>1, <1>2 DEF None
    <3>2. Largest({Listener}) = Listener
      BY <1>1, LargestIs
    <3> QED BY <3>1, <3>2 DEF Init
  <2> QED BY <1>1, <1>2, <2>1, <2>2, <2>3 DEF TablesAgree
<1>5. NoUseAfterFree /\ ExitStays
  BY <1>2 DEF Init, NoUseAfterFree, ExitStays, Busy
<1>6. ScanCounted
  BY DEF Init, ScanCounted, Busy
<1> QED BY <1>3, <1>4, <1>5, <1>6 DEF Safe

(* Clients connecting, sending and hanging up, and services registered and *)
(* unregistered, leave svc_run where it is.                                *)
LEMMA IdleStep ==
  ASSUME Safe, UNCHANGED <<xprt, tables, loop, used_freed>>,
         SockTyped', \A g \in Fds : sock'[g].open = sock[g].open
  PROVE  Safe'
<1> USE DEF Safe
<1>1. TableTypes' /\ TablesAgree'
  BY QuietTables
<1>2. LoopTypes'
  BY Types DEF LoopTypes, loop
<1>3. ScanCounted'
  BY ScanKept DEF loop, Busy
<1>4. NoUseAfterFree' /\ ExitStays'
  BY DEF NoUseAfterFree, ExitStays, loop, tables, Busy
<1> QED BY <1>1, <1>2, <1>3, <1>4, Types

(* The steps of the clients, of the kernel and of svc_reg and svc_unreg.   *)
LEMMA OutsideStep ==
  ASSUME Safe,
         Connect \/ (\E f \in Fds : Hangup(f) \/ \E r \in Requests : Request(f, r))
           \/ (\E s \in Services : svc_reg(s) \/ svc_unreg(s)) \/ UNCHANGED vars
  PROVE  Safe'
<1>1. SockTyped
  BY Types DEF Safe, TableTypes
<1>2. CASE Connect
  <2>1. Listener \in Fds
    BY SvcAssumption DEF Listener, Fds
  <2>2. SockTyped' /\ \A g \in Fds : sock'[g].open = sock[g].open
    BY <1>1, <1>2, <2>1, SockInput DEF Connect
  <2> QED BY <1>2, <2>2, IdleStep DEF Connect
<1>3. ASSUME NEW f \in Fds, Hangup(f) PROVE Safe'
  <2>1. SockTyped' /\ \A g \in Fds : sock'[g].open = sock[g].open
    BY <1>1, <1>3, SockEnd DEF Hangup
  <2> QED BY <1>3, <2>1, IdleStep DEF Hangup
<1>4. ASSUME NEW f \in Fds, NEW r \in Requests, Request(f, r) PROVE Safe'
  <2>1. PICK b : b = Append(sock[f].in, r)
    OBVIOUS
  <2>2. sock' = [sock EXCEPT ![f].in = b]
    BY <1>4, <2>1 DEF Request
  <2>3. SockTyped' /\ \A g \in Fds : sock'[g].open = sock[g].open
    BY <1>1, <2>2, SockInput
  <2> QED BY <1>4, <2>3, IdleStep DEF Request
<1>5. ASSUME NEW s \in Services, svc_reg(s) \/ svc_unreg(s) PROVE Safe'
  <2>1. UNCHANGED <<sock, xprt, tables, loop, used_freed>>
    BY <1>5 DEF svc_reg, svc_unreg
  <2>2. SockTyped' /\ \A g \in Fds : sock'[g].open = sock[g].open
    BY <1>1, <2>1 DEF SockTyped
  <2> QED BY <2>1, <2>2, IdleStep
<1>6. CASE UNCHANGED vars
  <2>1. UNCHANGED <<sock, xprt, tables, loop, used_freed>>
    BY <1>6 DEF vars
  <2>2. SockTyped' /\ \A g \in Fds : sock'[g].open = sock[g].open
    BY <1>1, <2>1 DEF SockTyped
  <2> QED BY <2>1, <2>2, IdleStep
<1> QED BY <1>2, <1>3, <1>4, <1>5, <1>6

-----------------------------------------------------------------------------
(* svc_exit empties the poll array: it is called where no request of the   *)
(* listener is served, by another thread between two rounds of svc_run or  *)
(* by a routine that serves a connection.                                  *)
LEMMA ExitTables ==
  ASSUME TypeOK, TablesAgree, svc_exit, UNCHANGED <<sock, xprt>>
  PROVE  TableTypes' /\ TablesAgree' /\ poll_null' /\ svc_pollfd' = <<>>
<1>1. /\ svc_pollfd' = <<>> /\ poll_null' = TRUE /\ svc_xports' = svc_xports
      /\ svc_maxfd' = svc_maxfd /\ sock' = sock /\ xprt' = xprt
  BY DEF svc_exit
<1>2. Len(svc_pollfd') = 0 /\ svc_pollfd' \in Seq(Fds \cup {-1})
  BY <1>1
<1>3. poll_null' /\ poll_null' \in BOOLEAN
  BY <1>1
<1>4. TableTypes /\ TableTypes'
  BY <1>1, <1>2, <1>3, Types DEF TableTypes, SockTyped
<1>5. svc_maxfd' = Largest({f \in Fds : svc_xports'[f] /= None})
  BY <1>1 DEF TablesAgree
<1>6. \A f \in Fds : svc_xports'[f] /= None =>
        sock'[f].open /\ ~xprt'[svc_xports'[f]].freed /\ xprt'[svc_xports'[f]].fd = f
  BY <1>1 DEF TablesAgree
<1>7. \A n \in 1 .. Len(xprt') : ~xprt'[n].freed => svc_xports'[xprt'[n].fd] = n
  BY <1>1 DEF TablesAgree
<1>8. TablesAgree'
  BY <1>2, <1>3, <1>5, <1>6, <1>7 DEF TablesAgree
<1> QED BY <1>1, <1>3, <1>4, <1>8

(* Another thread calls svc_exit.                                          *)
LEMMA ExitStep ==
  ASSUME Safe, ExitCalled
  PROVE  Safe'
<1> USE DEF Safe
<1>1. /\ pc \in {"top", "poll"} /\ svc_exit
      /\ UNCHANGED <<sock, xprt, loop, used_freed>>
  BY SvcAssumption DEF ExitCalled
<1>2. TableTypes' /\ TablesAgree' /\ svc_pollfd' = <<>>
  BY <1>1, ExitTables
<1>3. LoopTypes'
  BY <1>1, Types DEF LoopTypes, loop
<1>4. ScanCounted'
  BY <1>1, ScanKept DEF loop, Busy
<1>5. NoUseAfterFree' /\ ExitStays'
  BY <1>1, <1>2 DEF NoUseAfterFree, ExitStays, loop, Busy
<1> QED BY <1>2, <1>3, <1>4, <1>5, Types

(* The top of svc_run copies the poll array, with no events in the copy.   *)
LEMMA TopStep ==
  ASSUME Safe, SvcRunTop
  PROVE  Safe'
<1> USE DEF Safe
<1>1. /\ pc = "top" /\ pc' \in {"poll", "done"}
      /\ UNCHANGED <<sock, xprt, tables, ret, i, found, fd, x, buf, used_freed>>
      /\ \/ my' = my
         \/ my' = [k \in 1 .. Len(svc_pollfd) |-> [fd |-> svc_pollfd[k], revents |-> FALSE]]
  BY DEF SvcRunTop
<1>2. SockTyped' /\ \A g \in Fds : sock'[g].open = sock[g].open
  BY <1>1, Types DEF SockTyped, TableTypes
<1>3. TableTypes' /\ TablesAgree'
  BY <1>1, <1>2, QuietTables
<1>4. /\ my' \in Seq([fd : Fds \cup {-1}, revents : BOOLEAN])
      /\ \A k \in 1 .. Len(my') : my'[k].revents => my'[k].fd /= -1
  <2>1. CASE my' = my
    BY <2>1 DEF TypeOK, ScanCounted
  <2>2. CASE my' = [k \in 1 .. Len(svc_pollfd) |-> [fd |-> svc_pollfd[k], revents |-> FALSE]]
    <3>1. svc_pollfd \in Seq(Fds \cup {-1}) /\ Len(svc_pollfd) \in Nat
      BY LenProperties DEF TypeOK
    <3>2. \A k \in 1 .. Len(svc_pollfd) : svc_pollfd[k] \in Fds \cup {-1}
      BY <3>1, ElementOfSeq
    <3>3. \A k \in 1 .. Len(svc_pollfd) :
            my'[k] \in [fd : Fds \cup {-1}, revents : BOOLEAN] /\ ~my'[k].revents
      BY <2>2, <3>2
    <3>4. my' \in [1 .. Len(svc_pollfd) -> [fd : Fds \cup {-1}, revents : BOOLEAN]]
      BY <2>2, <3>3
    <3>5. my' \in Seq([fd : Fds \cup {-1}, revents : BOOLEAN])
      <4> DEFINE P == [fd : Fds \cup {-1}, revents : BOOLEAN]
      <4>1. my' \in [1 .. Len(svc_pollfd) -> P]
        BY <3>4
      <4> HIDE DEF P
      <4>2. my' \in Seq(P)
        BY <3>1, <4>1, SeqDef
      <4> QED BY <4>2 DEF P
    <3>6. DOMAIN my' = 1 .. Len(my') /\ DOMAIN my' = 1 .. Len(svc_pollfd)
      BY <3>4, <3>5, LenProperties
    <3> QED BY <3>3, <3>5, <3>6
  <2> QED BY <1>1, <2>1, <2>2
<1>5. LoopTypes'
  BY <1>1, <1>4, Types DEF LoopTypes
<1>6. ScanCounted'
  BY <1>1, <1>4 DEF ScanCounted, Busy
<1>7. NoUseAfterFree' /\ ExitStays'
  BY <1>1 DEF NoUseAfterFree, ExitStays, tables, Busy
<1> QED BY <1>3, <1>5, <1>6, <1>7, Types

(* poll marks the descriptors that are ready and returns how many.         *)
LEMMA PollStep ==
  ASSUME Safe, SvcRunPoll
  PROVE  Safe'
<1> USE DEF Safe
<1> DEFINE ready == {k \in 1 .. Len(my) : my[k].fd /= -1 /\ Ready(my[k].fd)}
           P == [fd : Fds \cup {-1}, revents : BOOLEAN]
<1>1. /\ pc = "poll" /\ pc' = "scan" /\ i' = 1 /\ found' = 0 /\ ret' = Cardinality(ready)
      /\ UNCHANGED <<sock, xprt, tables, fd, x, buf, used_freed>>
      /\ my' = [k \in 1 .. Len(my) |-> [my[k] EXCEPT !.revents = k \in ready]]
  BY DEF SvcRunPoll
<1>2. SockTyped' /\ \A g \in Fds : sock'[g].open = sock[g].open
  BY <1>1, Types DEF SockTyped, TableTypes
<1>3. TableTypes' /\ TablesAgree'
  BY <1>1, <1>2, QuietTables
<1>4. my \in Seq(P) /\ Len(my) \in Nat
  BY LenProperties DEF TypeOK
<1>5. ASSUME NEW k \in 1 .. Len(my)
      PROVE  my'[k] \in P /\ my'[k].fd = my[k].fd /\ (my'[k].revents <=> k \in ready)
  <2>1. my[k] \in P
    BY <1>4, ElementOfSeq
  <2>2. PICK v \in BOOLEAN : v <=> k \in ready
    OBVIOUS
  <2>3. my'[k] = [my[k] EXCEPT !.revents = v]
    BY <1>1, <2>2
  <2> HIDE DEF ready
  <2> QED BY <2>1, <2>2, <2>3
<1>6. my' \in Seq(P) /\ Len(my') = Len(my)
  <2>1. DOMAIN my' = 1 .. Len(my) /\ my' = [k \in 1 .. Len(my) |-> my'[k]]
    BY <1>1
  <2>2. my' \in [1 .. Len(my) -> P]
    BY <1>5, <2>1
  <2>3. my' \in Seq(P)
    BY <1>4, <2>2, SeqDef
  <2>4. DOMAIN my' = 1 .. Len(my') /\ Len(my') \in Nat
    BY <2>3, LenProperties
  <2> HIDE DEF P
  <2> QED BY <1>4, <2>1, <2>3, <2>4
<1>7. Ahead' = ready
  BY <1>1, <1>4, <1>5, <1>6 DEF Ahead
<1>8. IsFiniteSet(ready) /\ Cardinality(ready) \in Nat
  <2>1. IsFiniteSet(1 .. Len(my))
    BY <1>4, FS_Interval
  <2>2. ready \subseteq 1 .. Len(my)
    OBVIOUS
  <2> QED BY <2>1, <2>2, FS_Subset, FS_CardinalityType
<1>9. \A k \in 1 .. Len(my') : my'[k].revents => my'[k].fd /= -1
  BY <1>5, <1>6
<1> HIDE DEF ready
<1>10. LoopTypes'
  BY <1>1, <1>6, <1>8, Types DEF LoopTypes
<1>11. ScanCounted'
  <2>1. ret' = found' + Cardinality(Ahead')
    BY <1>1, <1>7, <1>8
  <2> QED BY <1>9, <2>1 DEF ScanCounted
<1>12. NoUseAfterFree' /\ ExitStays'
  BY <1>1 DEF NoUseAfterFree, ExitStays, tables, Busy
<1> QED BY <1>3, <1>10, <1>11, <1>12, Types

-----------------------------------------------------------------------------
(* While fewer were found than poll counted, the copy has an entry for the *)
(* scan to read: the rest of the count lies at or after it.                *)
LEMMA ScanInside == Safe => ScanInsideCopy
<1> SUFFICES ASSUME Safe, pc = "scan", found < ret PROVE i <= Len(my)
  BY DEF ScanInsideCopy
<1>1. /\ ret = found + Cardinality(Ahead) /\ found \in Nat /\ ret \in Nat /\ i \in Nat
      /\ Len(my) \in Nat
  BY LenProperties DEF Safe, ScanCounted, TypeOK
<1>2. IsFiniteSet(Ahead) /\ Cardinality(Ahead) \in Nat
  <2>1. IsFiniteSet(1 .. Len(my)) /\ Ahead \subseteq 1 .. Len(my)
    BY <1>1, FS_Interval DEF Ahead
  <2> QED BY <2>1, FS_Subset, FS_CardinalityType
<1>3. Cardinality(Ahead) /= 0
  BY <1>1, <1>2
<1>4. Ahead /= {}
  BY <1>3, FS_EmptySet
<1>5. PICK k \in 1 .. Len(my) : k >= i
  BY <1>4 DEF Ahead
<1> QED BY <1>1, <1>5

(* svc_getreq_poll looks at one entry: one that is ready is counted once   *)
(* and lies behind the scan afterwards, any other changes no count.        *)
LEMMA ScanStep ==
  ASSUME Safe, SvcGetreqPoll
  PROVE  Safe'
<1> USE DEF Safe
<1>1. /\ pc = "scan" /\ UNCHANGED <<sock, xprt, tables, my, ret, x, buf, used_freed>>
  BY DEF SvcGetreqPoll
<1>2. SockTyped' /\ \A g \in Fds : sock'[g].open = sock[g].open
  BY <1>1, Types DEF SockTyped, TableTypes
<1>3. TableTypes' /\ TablesAgree'
  BY <1>1, <1>2, QuietTables
<1>4. /\ my \in Seq([fd : Fds \cup {-1}, revents : BOOLEAN]) /\ Len(my) \in Nat
      /\ ret \in Nat /\ i \in Nat \ {0} /\ found \in Nat /\ Len(svc_pollfd) \in Nat
      /\ fd \in Fds /\ x \in 0 .. Len(xprt)
  BY LenProperties DEF TypeOK
<1>5. pc' \in {"top", "common", "scan"} /\ ~Busy
  BY <1>1 DEF SvcGetreqPoll, Busy
<1>6. NoUseAfterFree'
  BY <1>1, <1>5 DEF NoUseAfterFree, Busy
<1>7. CASE i > Len(svc_pollfd) \/ found >= ret
  <2>1. pc' = "top" /\ UNCHANGED <<i, found, fd>>
    BY <1>7 DEF SvcGetreqPoll
  <2>2. LoopTypes'
    BY <1>1, <1>4, <2>1 DEF LoopTypes
  <2>3. ScanCounted'
    BY <1>1, <2>1, ScanKept DEF Busy
  <2>4. ExitStays'
    BY <1>1, <2>1 DEF ExitStays, tables, Busy
  <2> QED BY <1>3, <1>6, <2>2, <2>3, <2>4, Types
<1>8. CASE ~(i > Len(svc_pollfd) \/ found >= ret)
  <2>1. i \in 1 .. Len(my) /\ i \in 1 .. Len(svc_pollfd)
    <3>1. found < ret /\ i <= Len(svc_pollfd)
      BY <1>4, <1>8
    <3>2. i <= Len(my)
      BY <1>1, <3>1, ScanInside DEF ScanInsideCopy
    <3> QED BY <1>4, <3>1, <3>2
  <2>2. ~poll_null
    <3>1. svc_pollfd /= <<>>
      BY <2>1
    <3> QED BY <3>1 DEF ExitStays
  <2>3. my[i] \in [fd : Fds \cup {-1}, revents : BOOLEAN]
    BY <1>4, <2>1, ElementOfSeq
  <2>4. i' = i + 1 /\ my' = my /\ ret' = ret
    BY <1>1, <1>8 DEF SvcGetreqPoll
  <2>5. /\ ret = found + Cardinality(Ahead)
        /\ \A k \in 1 .. Len(my) : my[k].revents => my[k].fd /= -1
    BY <1>1 DEF ScanCounted
  <2>6. IsFiniteSet(Ahead) /\ Cardinality(Ahead) \in Nat
    <3>1. IsFiniteSet(1 .. Len(my)) /\ Ahead \subseteq 1 .. Len(my)
      BY <1>4, FS_Interval DEF Ahead
    <3> QED BY <3>1, FS_Subset, FS_CardinalityType
  <2>7. Ahead' = Ahead \ {i} /\ (i \in Ahead <=> my[i].revents)
    BY <1>4, <2>1, <2>4 DEF Ahead
  <2>8. CASE my[i].fd /= -1 /\ my[i].revents
    <3>1. pc' = "common" /\ fd' = my[i].fd /\ found' = found + 1
      BY <1>8, <2>8 DEF SvcGetreqPoll
    <3>2. Cardinality(Ahead') = Cardinality(Ahead) - 1
      BY <2>6, <2>7, <2>8, FS_RemoveElement
    <3>3. ret' = found' + Cardinality(Ahead')
      BY <1>4, <2>4, <2>5, <2>6, <3>1, <3>2
    <3>4. ScanCounted'
      BY <2>4, <2>5, <3>3 DEF ScanCounted
    <3>5. my[i].fd \in Fds
      BY <2>3, <2>8
    <3>6. LoopTypes'
      BY <1>1, <1>4, <2>4, <3>1, <3>5 DEF LoopTypes
    <3>7. ExitStays'
      BY <1>1, <1>5, <2>2, <3>1 DEF ExitStays, tables, Busy
    <3> QED BY <1>3, <1>6, <3>4, <3>6, <3>7, Types
  <2>9. CASE ~(my[i].fd /= -1 /\ my[i].revents)
    <3>1. UNCHANGED <<pc, found, fd>>
      BY <1>8, <2>9 DEF SvcGetreqPoll
    <3>2. Ahead' = Ahead
      BY <2>1, <2>5, <2>7, <2>9
    <3>3. ret' = found' + Cardinality(Ahead')
      BY <2>4, <2>5, <3>1, <3>2
    <3>4. ScanCounted'
      BY <2>4, <2>5, <3>3 DEF ScanCounted
    <3>5. LoopTypes'
      BY <1>1, <1>4, <2>4, <3>1 DEF LoopTypes
    <3>6. ExitStays'
      BY <1>1, <1>5, <3>1 DEF ExitStays, tables, Busy
    <3> QED BY <1>3, <1>6, <3>4, <3>5, <3>6, Types
  <2> QED BY <2>8, <2>9
<1> QED BY <1>7, <1>8

(* svc_getreq_common takes the transport the table has now, which lives:   *)
(* the one that was polled may be gone.                                    *)
LEMMA CommonStep ==
  ASSUME Safe, SvcGetreqCommon
  PROVE  Safe'
<1> USE DEF Safe
<1>1. /\ pc = "common" /\ x' = svc_xports[fd]
      /\ pc' = (IF svc_xports[fd] = None THEN "scan" ELSE "recv")
      /\ UNCHANGED <<sock, xprt, tables, my, ret, i, found, fd, buf, used_freed>>
  BY DEF SvcGetreqCommon
<1>2. SockTyped' /\ \A g \in Fds : sock'[g].open = sock[g].open
  BY <1>1, Types DEF SockTyped, TableTypes
<1>3. TableTypes' /\ TablesAgree'
  BY <1>1, <1>2, QuietTables
<1>4. svc_xports[fd] \in 0 .. Len(xprt) /\ fd \in Fds
  BY DEF TypeOK
<1>5. LoopTypes'
  BY <1>1, <1>4, Types DEF LoopTypes
<1>6. ScanCounted'
  BY <1>1, ScanKept DEF Busy
<1>7. svc_xports[fd] /= None => ~xprt[svc_xports[fd]].freed
  BY <1>4 DEF TablesAgree
<1>8. NoUseAfterFree'
  BY <1>1, <1>7 DEF NoUseAfterFree, Busy
<1>9. ExitStays'
  <2>1. ~poll_null /\ ~poll_null' /\ buf' = <<>> /\ pc' /= "dispatch"
    BY <1>1 DEF ExitStays, tables, Busy
  <2> QED BY <2>1 DEF ExitStays
<1> QED BY <1>3, <1>5, <1>6, <1>8, <1>9, Types

-----------------------------------------------------------------------------
(* While svc_getreq_common serves a request it has a transport.            *)
LEMMA Served ==
  ASSUME Safe, Busy
  PROVE  x \in 1 .. Len(xprt) /\ x /= None /\ Len(xprt) \in Nat
<1>1. x /= None
  BY DEF Safe, NoUseAfterFree
<1>2. x \in 0 .. Len(xprt) /\ Len(xprt) \in Nat
  BY Types, LenProperties DEF Safe, TableTypes, LoopTypes
<1> QED BY <1>1, <1>2 DEF None

(* Serving it leaves the place of the scan alone.                          *)
LEMMA ServedTypes ==
  ASSUME Safe, UNCHANGED <<my, ret, i, found, fd, x>>, Len(xprt') >= Len(xprt), Len(xprt') \in Nat
  PROVE  LoopTypes'
<1>1. LoopTypes /\ Len(xprt) \in Nat
  BY Types, LenProperties DEF Safe, TableTypes
<1> QED BY <1>1 DEF LoopTypes

(* rendezvous_request: the descriptor accept returns was closed, so no     *)
(* transport is registered for it; svc_exit has not been called.           *)
LEMMA RendezvousStep ==
  ASSUME Safe, RendezvousRequest
  PROVE  Safe'
<1> USE DEF Safe
<1>1. /\ pc = "recv" /\ pc' = "check" /\ xprt[x].fd = Listener /\ ~xprt[x].freed
      /\ UNCHANGED <<my, ret, i, found, fd, x, buf, used_freed>>
  BY DEF RendezvousRequest
<1>2. x \in 1 .. Len(xprt) /\ Len(xprt) \in Nat
  BY <1>1, Served DEF Busy
<1>3. ~poll_null /\ buf = <<>>
  BY <1>1 DEF ExitStays, Busy
<1>4. Listener \in Fds /\ svc_xports[Listener] /= None /\ sock[Listener].open
  <2>1. Listener \in Fds
    BY SvcAssumption DEF Listener, Fds
  <2>2. svc_xports[Listener] = x /\ x /= None
    BY <1>1, <1>2 DEF TablesAgree, None
  <2> QED BY <2>1, <2>2 DEF TablesAgree
<1>5. SockTyped /\ xprt \in Seq(Transport)
  BY Types DEF TableTypes
<1>6. /\ TableTypes' /\ TablesAgree' /\ ~poll_null'
      /\ Len(xprt') >= Len(xprt) /\ Len(xprt') \in Nat
      /\ \A m \in 1 .. Len(xprt) : xprt'[m] = xprt[m]
  <2>1. CASE FreeFds = {} \/ Len(xprt) = MaxXprt \/ sock[Listener].in = <<>>
    <3>1. sock' = [sock EXCEPT ![Listener].in = <<>>] /\ UNCHANGED <<xprt, tables>>
      BY <2>1 DEF RendezvousRequest
    <3>2. SockTyped' /\ \A g \in Fds : sock'[g].open = sock[g].open
      BY <1>4, <1>5, <3>1, SockInput
    <3>3. TableTypes' /\ TablesAgree'
      BY <3>1, <3>2, QuietTables
    <3> QED BY <1>2, <1>3, <3>1, <3>3 DEF tables
  <2>2. CASE ~(FreeFds = {} \/ Len(xprt) = MaxXprt \/ sock[Listener].in = <<>>)
    <3> DEFINE f == CHOOSE g \in FreeFds : \A h \in FreeFds : g <= h
               r == [open |-> TRUE, in |-> <<>>, eof |-> FALSE]
    <3>1. /\ sock' = [sock EXCEPT ![Listener].in = <<>>, ![f] = r]
          /\ xprt' = Append(xprt, [fd |-> f, freed |-> FALSE, died |-> FALSE])
          /\ xprt_register(f, Len(xprt) + 1)
      BY <2>2 DEF RendezvousRequest
    <3>2. f \in FreeFds
      <4>1. FreeFds \subseteq Nat
        BY SvcAssumption DEF FreeFds, Fds
      <4>2. \E g \in FreeFds : \A h \in FreeFds : g <= h
        BY <2>2, <4>1, LeastExists
      <4> QED BY <4>2
    <3> HIDE DEF f
    <3>3. f \in Fds /\ ~sock[f].open /\ f /= Listener
      BY <1>4, <3>2 DEF FreeFds
    <3>4. r.open /\ r = [open |-> r.open, in |-> r.in, eof |-> r.eof]
      OBVIOUS
    <3> HIDE DEF r
    <3>5. PICK l : l = [sock[Listener] EXCEPT !.in = <<>>]
      OBVIOUS
    <3>6. l = [open |-> l.open, in |-> l.in, eof |-> l.eof] /\ l.open = sock[Listener].open
      <4>1. sock[Listener] = [open |-> sock[Listener].open, in |-> sock[Listener].in, eof |-> sock[Listener].eof]
        BY <1>4, <1>5 DEF SockTyped
      <4> QED BY <3>5, <4>1
    <3>7. sock' = [g \in Fds |-> IF g = f THEN r ELSE IF g = Listener THEN l ELSE sock[g]]
      BY <1>4, <1>5, <3>1, <3>3, <3>5 DEF SockTyped
    <3>8. \A g \in Fds : sock'[g] = IF g = f THEN r ELSE IF g = Listener THEN l ELSE sock[g]
      BY <3>7
    <3>9. SockTyped'
      <4>1. ASSUME NEW g \in Fds
            PROVE  sock'[g] = [open |-> sock'[g].open, in |-> sock'[g].in, eof |-> sock'[g].eof]
        <5>1. sock[g] = [open |-> sock[g].open, in |-> sock[g].in, eof |-> sock[g].eof]
          BY <1>5 DEF SockTyped
        <5> QED BY <3>4, <3>6, <3>8, <5>1
      <4>2. sock' = [g \in Fds |-> sock'[g]]
        BY <3>7, <3>8
      <4> QED BY <4>1, <4>2 DEF SockTyped
    <3>10. sock'[f].open /\ \A g \in Fds : g /= f => sock'[g].open = sock[g].open
      BY <3>3, <3>4, <3>6, <3>8
    <3>11. /\ TableTypes' /\ TablesAgree' /\ ~poll_null'
           /\ Len(xprt') = Len(xprt) + 1
           /\ \A m \in 1 .. Len(xprt) : xprt'[m] = xprt[m]
      BY <1>3, <3>1, <3>3, <3>9, <3>10, AcceptTables
    <3> QED BY <1>2, <3>11
  <2> QED BY <2>1, <2>2
<1>7. LoopTypes'
  BY <1>1, <1>6, ServedTypes
<1>8. ScanCounted'
  BY <1>1, ScanKept DEF Busy
<1>9. NoUseAfterFree'
  <2>1. xprt'[x'] = xprt[x] /\ x' /= None
    BY <1>1, <1>2, <1>6 DEF None
  <2> QED BY <1>1, <2>1 DEF NoUseAfterFree, Busy
<1>10. ExitStays'
  BY <1>1, <1>3, <1>6 DEF ExitStays
<1> QED BY <1>6, <1>7, <1>8, <1>9, <1>10, Types

(* SVC_RECV finds nothing: a connection that ended is marked as died, and  *)
(* a transport that was freed has been used.                               *)
LEMMA NothingStep ==
  ASSUME Safe, RecvNothing
  PROVE  Safe'
<1> USE DEF Safe
<1>1. /\ pc = "recv" /\ pc' = "check" /\ xprt[x].fd /= Listener
      /\ xprt' = [xprt EXCEPT ![x].died = @ \/ sock[xprt[x].fd].eof]
      /\ used_freed' = (used_freed \/ xprt[x].freed)
      /\ UNCHANGED <<sock, tables, my, ret, i, found, fd, x, buf>>
  BY DEF RecvNothing
<1>2. x \in 1 .. Len(xprt) /\ x /= None
  BY <1>1, Served DEF Busy
<1>3. Len(xprt) \in Nat /\ xprt \in Seq(Transport) /\ xprt[x] \in Transport
  BY <1>2, TransportType DEF TypeOK, Transport
<1>4. /\ xprt' \in Seq(Transport) /\ Len(xprt') = Len(xprt)
      /\ \A m \in 1 .. Len(xprt) : xprt'[m].fd = xprt[m].fd /\ xprt'[m].freed = xprt[m].freed
  <2>1. PICK d \in BOOLEAN : d <=> xprt[x].died \/ sock[xprt[x].fd].eof
    OBVIOUS
  <2> DEFINE r == [xprt[x] EXCEPT !.died = d]
  <2>2. xprt' = [xprt EXCEPT ![x] = r]
    BY <1>1, <2>1
  <2>3. r \in Transport /\ r.fd = xprt[x].fd /\ r.freed = xprt[x].freed
    BY <1>3 DEF Transport
  <2> HIDE DEF r
  <2>4. xprt' \in Seq(Transport) /\ Len(xprt') = Len(xprt)
    BY <1>2, <1>3, <2>2, <2>3, ExceptSeq
  <2>5. DOMAIN xprt = 1 .. Len(xprt)
    BY <1>3, LenProperties
  <2> QED BY <2>2, <2>3, <2>4, <2>5
<1>5. SockTyped' /\ \A g \in Fds : sock'[g].open = sock[g].open
  BY <1>1, Types DEF SockTyped, TableTypes
<1>6. TableTypes' /\ TablesAgree'
  BY <1>1, <1>4, <1>5, SameTables
<1>7. LoopTypes'
  BY <1>1, <1>3, <1>4, ServedTypes
<1>8. ScanCounted'
  BY <1>1, ScanKept DEF Busy
<1>9. xprt'[x'].fd = xprt[x].fd /\ xprt'[x'].freed = xprt[x].freed
  BY <1>1, <1>2, <1>4
<1>10. NoUseAfterFree'
  BY <1>1, <1>2, <1>9 DEF NoUseAfterFree, Busy
<1>11. ExitStays'
  BY <1>1, <1>9 DEF ExitStays, Busy, tables
<1> QED BY <1>6, <1>7, <1>8, <1>10, <1>11, Types

(* SVC_RECV returns a message of a connection that lives, and it is        *)
(* refused by authentication, answered, or given to its routine.           *)
LEMMA MessageStep ==
  ASSUME Safe, RecvRequest \/ RecvRejected
  PROVE  Safe'
<1> USE DEF Safe
<1>1. /\ HasMessage /\ Take /\ pc' \in {"dispatch", "check", "stat"}
      /\ UNCHANGED <<xprt, tables, my, ret, i, found, fd, x, used_freed>>
  BY DEF RecvRequest, RecvRejected
<1>2. pc = "recv" /\ xprt[x].fd /= Listener /\ ~xprt[x].freed
  BY <1>1 DEF HasMessage
<1>3. x /= None /\ Len(xprt) \in Nat
  BY <1>2, Served DEF Busy
<1>4. SockTyped' /\ \A g \in Fds : sock'[g].open = sock[g].open
  <2>1. SockTyped /\ fd \in Fds
    BY Types DEF TableTypes, LoopTypes
  <2>2. CASE sock' = sock
    BY <2>1, <2>2 DEF SockTyped
  <2>3. CASE sock' = [sock EXCEPT ![fd].in = <<>>]
    BY <2>1, <2>3, SockInput
  <2> QED BY <1>1, <2>2, <2>3 DEF Take
<1>5. TableTypes' /\ TablesAgree'
  BY <1>1, <1>4, QuietTables
<1>6. LoopTypes'
  BY <1>1, <1>3, ServedTypes
<1>7. ScanCounted'
  BY <1>1, <1>2, ScanKept DEF Busy
<1>8. NoUseAfterFree'
  BY <1>1, <1>2, <1>3 DEF NoUseAfterFree, Busy
<1>9. ExitStays'
  BY <1>1, <1>2 DEF ExitStays, Busy, tables
<1> QED BY <1>5, <1>6, <1>7, <1>8, <1>9, Types

(* The poll array a destroyed transport leaves is empty when svc_exit had  *)
(* emptied it.                                                             *)
LEMMA DestroyAfterExit ==
  ASSUME TypeOK, ExitStays, TableTypes', Len(svc_pollfd') = Len(svc_pollfd), poll_null
  PROVE  svc_pollfd' = <<>>
<1>1. svc_pollfd = <<>> /\ svc_pollfd' \in Seq(Fds \cup {-1})
  BY DEF ExitStays, TableTypes
<1>2. Len(svc_pollfd') = 0
  BY <1>1
<1> QED BY <1>1, <1>2, EmptySeq

(* The dispatch routine replies, destroys the transport it serves or       *)
(* another one, or ends svc_run.                                           *)
LEMMA DispatchStep ==
  ASSUME Safe, Dispatch
  PROVE  Safe'
<1> USE DEF Safe
<1>1. /\ pc = "dispatch" /\ pc' = "stat"
      /\ UNCHANGED <<my, ret, i, found, fd, x, buf, used_freed>>
  BY DEF Dispatch
<1>2. x \in 1 .. Len(xprt) /\ x /= None /\ Len(xprt) \in Nat
  BY <1>1, Served DEF Busy
<1>3. ~xprt[x].freed /\ xprt[x].fd /= Listener
  BY <1>1 DEF NoUseAfterFree, ExitStays, Busy
<1>4. /\ TableTypes' /\ TablesAgree' /\ Len(xprt') = Len(xprt)
      /\ poll_null' => svc_pollfd' = <<>>
      /\ xprt'[x].fd = xprt[x].fd
      /\ "destroy self" \notin Behaviours => ~xprt'[x].freed
  <2>1. CASE UNCHANGED <<sock, xprt, tables>>
    <3>1. SockTyped' /\ \A g \in Fds : sock'[g].open = sock[g].open
      BY <2>1, Types DEF SockTyped, TableTypes
    <3>2. TableTypes' /\ TablesAgree'
      BY <2>1, <3>1, QuietTables
    <3> QED BY <1>3, <2>1, <3>2 DEF tables, ExitStays
  <2>2. CASE "destroy self" \in Behaviours /\ svc_vc_destroy(x)
    <3>1. /\ TableTypes' /\ TablesAgree'
          /\ Len(xprt') = Len(xprt) /\ Len(svc_pollfd') = Len(svc_pollfd)
          /\ poll_null' = poll_null
          /\ \A m \in 1 .. Len(xprt) : xprt'[m].fd = xprt[m].fd
      BY <1>2, <1>3, <2>2, DestroyTables
    <3>2. poll_null' => svc_pollfd' = <<>>
      BY <3>1, DestroyAfterExit
    <3> QED BY <1>2, <2>2, <3>1, <3>2
  <2>3. ASSUME NEW n \in 1 .. Len(xprt), ~xprt[n].freed, n /= x, svc_vc_destroy(n)
        PROVE  /\ TableTypes' /\ TablesAgree' /\ Len(xprt') = Len(xprt)
               /\ poll_null' => svc_pollfd' = <<>>
               /\ xprt'[x].fd = xprt[x].fd /\ ~xprt'[x].freed
    <3>1. /\ TableTypes' /\ TablesAgree'
          /\ Len(xprt') = Len(xprt) /\ Len(svc_pollfd') = Len(svc_pollfd)
          /\ poll_null' = poll_null
          /\ \A m \in 1 .. Len(xprt) : xprt'[m].fd = xprt[m].fd /\ (m /= n => xprt'[m] = xprt[m])
      BY <2>3, DestroyTables
    <3>2. poll_null' => svc_pollfd' = <<>>
      BY <3>1, DestroyAfterExit
    <3> QED BY <1>2, <1>3, <2>3, <3>1, <3>2
  <2>4. CASE svc_exit /\ UNCHANGED <<sock, xprt>>
    <3>1. TableTypes' /\ TablesAgree' /\ svc_pollfd' = <<>>
      BY <2>4, ExitTables
    <3> QED BY <1>3, <2>4, <3>1
  <2> QED BY <2>1, <2>2, <2>3, <2>4 DEF Dispatch
<1>5. LoopTypes'
  <2>1. Len(xprt') = Len(xprt)
    BY <1>4, Zenon
  <2>2. Len(xprt') >= Len(xprt) /\ Len(xprt') \in Nat
    BY <1>2, <2>1
  <2> QED BY <1>1, <2>2, ServedTypes
<1>6. ScanCounted'
  BY <1>1, ScanKept DEF Busy
<1>7. NoUseAfterFree'
  BY <1>1, <1>2, <1>4 DEF NoUseAfterFree, Busy
<1>8. ExitStays'
  BY <1>1, <1>3, <1>4 DEF ExitStays, Busy
<1> QED BY <1>4, <1>5, <1>6, <1>7, <1>8, Types

(* The check for a transport that was disconnected, svc.c:741.             *)
LEMMA CheckStep ==
  ASSUME Safe, Check
  PROVE  Safe'
<1> USE DEF Safe
<1>1. /\ pc = "check" /\ pc' \in {"scan", "stat"} /\ (pc' = "scan" => buf' = <<>>)
      /\ buf' \in {buf, <<>>}
      /\ UNCHANGED <<sock, xprt, tables, my, ret, i, found, fd, x, used_freed>>
  BY DEF Check
<1>2. x /= None /\ Len(xprt) \in Nat
  BY <1>1, Served DEF Busy
<1>3. SockTyped' /\ \A g \in Fds : sock'[g].open = sock[g].open
  BY <1>1, Types DEF SockTyped, TableTypes
<1>4. TableTypes' /\ TablesAgree'
  BY <1>1, <1>3, QuietTables
<1>5. LoopTypes'
  BY <1>1, <1>2, ServedTypes
<1>6. ScanCounted'
  BY <1>1, ScanKept DEF Busy
<1>7. NoUseAfterFree'
  BY <1>1, <1>2 DEF NoUseAfterFree, Busy
<1>8. ExitStays'
  BY <1>1 DEF ExitStays, Busy, tables
<1> QED BY <1>4, <1>5, <1>6, <1>7, <1>8, Types

(* SVC_STAT, and SVC_DESTROY of the transport whose connection died.       *)
LEMMA StatStep ==
  ASSUME Safe, SvcStat
  PROVE  Safe'
<1> USE DEF Safe
<1>1. /\ pc = "stat" /\ pc' \in {"scan", "recv"} /\ (pc' = "scan" => buf' = <<>>)
      /\ (pc' = "recv" => buf' = buf)
      /\ used_freed' = (used_freed \/ xprt[x].freed)
      /\ UNCHANGED <<my, ret, i, found, fd, x>>
  BY DEF SvcStat
<1>2. x \in 1 .. Len(xprt) /\ x /= None /\ Len(xprt) \in Nat
  BY <1>1, Served DEF Busy
<1>3. \/ pc' = "scan" /\ ~xprt[x].freed /\ svc_vc_destroy(x)
      \/ UNCHANGED <<sock, xprt, tables>>
  BY DEF SvcStat
<1>4. /\ TableTypes' /\ TablesAgree' /\ Len(xprt') = Len(xprt)
      /\ poll_null' = poll_null /\ (poll_null' => svc_pollfd' = <<>>)
      /\ pc' = "recv" => xprt' = xprt
  <2>1. CASE pc' = "scan" /\ ~xprt[x].freed /\ svc_vc_destroy(x)
    <3>1. /\ TableTypes' /\ TablesAgree'
          /\ Len(xprt') = Len(xprt) /\ Len(svc_pollfd') = Len(svc_pollfd)
          /\ poll_null' = poll_null
      BY <1>2, <2>1, DestroyTables
    <3>2. poll_null' => svc_pollfd' = <<>>
      BY <3>1, DestroyAfterExit
    <3> QED BY <2>1, <3>1, <3>2
  <2>2. CASE UNCHANGED <<sock, xprt, tables>>
    <3>1. SockTyped' /\ \A g \in Fds : sock'[g].open = sock[g].open
      BY <2>2, Types DEF SockTyped, TableTypes
    <3>2. TableTypes' /\ TablesAgree'
      BY <2>2, <3>1, QuietTables
    <3> QED BY <2>2, <3>2 DEF tables, ExitStays
  <2> QED BY <1>3, <2>1, <2>2
<1>5. LoopTypes'
  <2>1. Len(xprt') >= Len(xprt) /\ Len(xprt') \in Nat
    BY <1>2, <1>4
  <2> QED BY <1>1, <2>1, ServedTypes
<1>6. ScanCounted'
  BY <1>1, ScanKept DEF Busy
<1>7. NoUseAfterFree'
  BY <1>1, <1>2, <1>4 DEF NoUseAfterFree, Busy
<1>8. ExitStays'
  BY <1>1, <1>4 DEF ExitStays, Busy
<1> QED BY <1>4, <1>5, <1>6, <1>7, <1>8, Types

-----------------------------------------------------------------------------
(* Every step of svc_run, of the kernel, of the clients and of another     *)
(* thread keeps the tables and the scan in order.                          *)
LEMMA StepSafe == Safe /\ [Next]_vars => Safe'
<1> SUFFICES ASSUME Safe, [Next]_vars PROVE Safe'
  OBVIOUS
<1>1. CASE Loop
  BY <1>1, TopStep, PollStep, ScanStep, CommonStep, RendezvousStep, NothingStep,
     MessageStep, DispatchStep, CheckStep, StatStep DEF Loop
<1>2. CASE ExitCalled
  BY <1>2, ExitStep
<1>3. CASE Connect \/ (\E f \in Fds : Hangup(f) \/ \E r \in Requests : Request(f, r))
             \/ (\E s \in Services : svc_reg(s) \/ svc_unreg(s)) \/ UNCHANGED vars
  BY <1>3, OutsideStep
<1> QED BY <1>1, <1>2, <1>3 DEF Next

(* svc_run with any number of descriptors, transports, services, requests  *)
(* and any mixture of routines that reply, destroy transports or call      *)
(* svc_exit: the descriptor table, the poll array, svc_maxfd and the       *)
(* transports agree in every state, svc_getreq_poll never reads past the   *)
(* copy it polled, a connection is not accepted after svc_exit, and a      *)
(* freed transport is not used unless a routine destroys its own.          *)
THEOREM TransportTables == Spec => []TransportTablesSafe
<1>1. Safe => TransportTablesSafe
  BY ScanInside DEF Safe, TransportTablesSafe
<1> QED BY <1>1, StartSafe, StepSafe, PTL DEF Spec


-----------------------------------------------------------------------------
(* Calls within the process (RawRpc).                                      *)
RawFrame ==
  [pc : {"serve", "dispatch", "args", "free", "decode"}, want : RawPrograms, arg : Arguments,
   live : BOOLEAN, fate : {"none", "reply", "silent", "long"},
   prog : RawPrograms \cup {0}, got : Arguments \cup {0}]
RawStream == [live : BOOLEAN, x_op : {"XDR_DECODE", "XDR_ENCODE", "XDR_FREE"}]
RawTypes ==
  /\ svc_raw \in RawStream
  /\ frames \in Seq(RawFrame) /\ Len(frames) <= MaxDepth
  /\ handles \subseteq RawPrograms /\ (handles /= {} => clntraw \in handles)

(* What the buffer and the stream hold for a call, as far as it has come.  *)
Fits(f) ==
  /\ f.pc = "serve" =>
       /\ __rpc_rawcombuf = [dir |-> "call", prog |-> f.want, arg |-> f.arg, stat |-> "none"]
       /\ f.live => svc_raw.live /\ f.want \in raw_callouts
       /\ f.fate = "none"
  /\ f.pc = "dispatch" =>
       /\ __rpc_rawcombuf = [dir |-> "call", prog |-> f.want, arg |-> f.arg, stat |-> "none"]
       /\ svc_raw.x_op = "XDR_DECODE" /\ f.prog = f.want /\ f.fate = "none"
  /\ f.pc = "args" /\ "silent" \in Fates => __rpc_rawcombuf.dir = "call"
  /\ f.pc = "free" =>
       /\ f.fate /= "none"
       /\ f.fate = "reply" => __rpc_rawcombuf = Raw!encoded(f.want, f.arg)
       /\ f.fate = "silent" => __rpc_rawcombuf.dir = "call"
       /\ f.fate = "long" => __rpc_rawcombuf.dir = "cut"
  /\ f.pc = "decode" =>
       /\ Raw!status(__rpc_rawcombuf) = "RPC_SUCCESS" =>
            <<__rpc_rawcombuf.prog, __rpc_rawcombuf.arg>> = <<f.want, f.arg>>
       /\ f.live /\ f.fate \in {"none", "reply"} => Raw!status(__rpc_rawcombuf) = "RPC_SUCCESS"

(* A call that others were made in waits where it has its own arguments.   *)
HasArgs(f) == f.pc = "args" => f.prog = f.want /\ f.got = f.arg /\ f.fate = "none"
RawInv ==
  /\ RawTypes /\ RawCallsAnswered
  /\ \A k \in 1 .. Len(frames) : HasArgs(frames[k]) /\ (k < Len(frames) => frames[k].pc = "args")
  /\ frames /= <<>> => Fits(Raw!top)

LEMMA RawTop ==
  ASSUME frames \in Seq(RawFrame), frames /= <<>>
  PROVE  /\ Len(frames) \in Nat /\ Len(frames) \in 1 .. Len(frames)
         /\ Raw!top = frames[Len(frames)] /\ Raw!top \in RawFrame
<1>1. Len(frames) \in Nat /\ Len(frames) /= 0
  BY EmptySeq, LenProperties
<1> QED BY <1>1, ElementOfSeq DEF Raw!top

(* The innermost call goes on.                                             *)
LEMMA RawSet ==
  ASSUME RawInv, frames /= <<>>, NEW f \in RawFrame, Raw!set(f), HasArgs(f), Fits(f)',
         svc_raw' \in RawStream, UNCHANGED <<handles, clntraw, last>>
  PROVE  RawInv'
<1>1. /\ frames \in Seq(RawFrame) /\ Len(frames) \in Nat /\ Len(frames) \in 1 .. Len(frames)
      /\ frames' = [frames EXCEPT ![Len(frames)] = f]
  BY RawTop DEF RawInv, RawTypes, Raw!set
<1>2. /\ frames' \in Seq(RawFrame) /\ Len(frames') = Len(frames) /\ frames'[Len(frames)] = f
      /\ \A k \in 1 .. Len(frames) : k /= Len(frames) => frames'[k] = frames[k]
  BY <1>1, ExceptSeq
<1>3. RawTypes'
  BY <1>2 DEF RawInv, RawTypes
<1>4. Raw!top' = f
  BY <1>2 DEF Raw!top
<1>5. ASSUME NEW k \in 1 .. Len(frames)
      PROVE  HasArgs(frames'[k]) /\ (k < Len(frames) => frames'[k].pc = "args")
  <2>1. CASE k = Len(frames)
    <3>1. frames'[k] = f
      BY <1>2, <2>1
    <3>2. ~(k < Len(frames))
      BY <1>1, <2>1
    <3> QED BY <3>1, <3>2
  <2>2. CASE k /= Len(frames)
    <3>1. frames'[k] = frames[k]
      BY <1>2, <2>2
    <3> QED BY <3>1 DEF RawInv
  <2> QED BY <2>1, <2>2
<1>6. RawCallsAnswered'
  BY DEF RawInv, RawCallsAnswered, Raw!AnswersOwn, Raw!Served
<1>7. \A k \in 1 .. Len(frames') :
        HasArgs(frames'[k]) /\ (k < Len(frames') => frames'[k].pc = "args")
  BY <1>2, <1>5
<1>8. (frames /= <<>> => Fits(Raw!top))'
  BY <1>4 DEF Fits
<1> QED BY <1>3, <1>6, <1>7, <1>8 DEF RawInv, HasArgs

(* A call that calls again, or is called nobody in, is at its arguments.   *)
LEMMA RawRunning ==
  ASSUME Raw!Alone, Raw!running, frames /= <<>>
  PROVE  Raw!top.pc = "args"
  BY DEF Raw!Alone, Raw!running

(* A transport or a handle is created, a program registered.               *)
LEMMA RawCreates ==
  ASSUME Raw!Alone, RawInv,
         \/ Raw!svc_raw_create
         \/ \E p \in RawPrograms : Raw!clnt_raw_create(p) \/ Raw!svc_reg(p)
  PROVE  RawInv'
<1>1. /\ Raw!running /\ last' = Raw!NoCall /\ UNCHANGED <<__rpc_rawcombuf, frames>>
      /\ \/ UNCHANGED <<handles, clntraw>>
         \/ \E p \in RawPrograms : handles' = handles \cup {p} /\ clntraw' = p
      /\ svc_raw' = svc_raw \/ svc_raw' = [live |-> TRUE, x_op |-> "XDR_DECODE"]
  BY DEF Raw!svc_raw_create, Raw!clnt_raw_create, Raw!svc_reg
<1>2. RawTypes'
  <2>1. svc_raw' \in RawStream
    <3>1. svc_raw \in RawStream
      BY DEF RawInv, RawTypes
    <3>2. [live |-> TRUE, x_op |-> "XDR_DECODE"] \in RawStream
      BY DEF RawStream
    <3> QED BY <1>1, <3>1, <3>2
  <2> QED BY <1>1, <2>1 DEF RawInv, RawTypes
<1>3. RawCallsAnswered'
  <2>1. last'.status = "none" /\ last'.live = FALSE
    BY <1>1 DEF Raw!NoCall
  <2> QED BY <2>1 DEF RawCallsAnswered, Raw!AnswersOwn, Raw!Served
<1>4. (frames /= <<>> => Fits(Raw!top))'
  <2> SUFFICES ASSUME frames' /= <<>> PROVE Fits(Raw!top)'
    OBVIOUS
  <2>1. Raw!top' = Raw!top /\ Raw!top.pc = "args" /\ Fits(Raw!top)
    BY <1>1, RawRunning DEF Raw!top, RawInv
  <2> QED BY <1>1, <2>1 DEF Fits
<1> QED BY <1>1, <1>2, <1>3, <1>4 DEF RawInv, HasArgs

(* A call begins, in another one or in none.                               *)
LEMMA RawBegins ==
  ASSUME Raw!RawAssumption, Raw!Alone, RawInv, NEW p \in RawPrograms, NEW a \in Arguments,
         Raw!clnt_raw_call(p, a)
  PROVE  RawInv'
<1> DEFINE b == svc_raw.live /\ p \in raw_callouts
<1>0. PICK f : f = [pc |-> "serve", want |-> p, arg |-> a, live |-> b, fate |-> "none", prog |-> 0, got |-> 0]
  OBVIOUS
<1>1. /\ Raw!running /\ p \in handles /\ Len(frames) < MaxDepth /\ last' = Raw!NoCall
      /\ __rpc_rawcombuf' = [dir |-> "call", prog |-> clntraw, arg |-> a, stat |-> "none"]
      /\ frames' = Append(frames, f) /\ UNCHANGED <<clntraw, raw_callouts, handles, svc_raw>>
  BY <1>0 DEF Raw!clnt_raw_call
<1>2. clntraw = p
  BY <1>1 DEF RawInv, RawTypes, Raw!Alone
<1>3. /\ f.pc = "serve" /\ f.want = p /\ f.arg = a /\ f.fate = "none"
      /\ f.live => svc_raw.live /\ p \in raw_callouts
  BY <1>0
<1>4. f \in RawFrame
  <2>1. b \in BOOLEAN
    OBVIOUS
  <2> HIDE DEF b
  <2> QED BY <1>0, <2>1 DEF RawFrame
<1> HIDE DEF b
<1>5. /\ frames \in Seq(RawFrame) /\ Len(frames) \in Nat /\ MaxDepth \in Nat
      /\ \A k \in 1 .. Len(frames) : HasArgs(frames[k]) /\ (k < Len(frames) => frames[k].pc = "args")
  BY LenProperties DEF RawInv, RawTypes, Raw!RawAssumption
<1>6. /\ frames' \in Seq(RawFrame) /\ Len(frames') = Len(frames) + 1 /\ frames' /= <<>>
      /\ frames'[Len(frames) + 1] = f /\ \A k \in 1 .. Len(frames) : frames'[k] = frames[k]
  BY <1>1, <1>4, <1>5, AppendProperties
<1>7. RawTypes'
  BY <1>1, <1>5, <1>6 DEF RawInv, RawTypes
<1>8. RawCallsAnswered'
  <2>1. last'.status = "none" /\ last'.live = FALSE
    BY <1>1 DEF Raw!NoCall
  <2> QED BY <2>1 DEF RawCallsAnswered, Raw!AnswersOwn, Raw!Served
<1>9. Raw!top' = f
  BY <1>6 DEF Raw!top
<1>10. Fits(f)'
  BY <1>1, <1>2, <1>3 DEF Fits
<1>11. ASSUME NEW k \in 1 .. Len(frames)
       PROVE  frames'[k].pc = "args" /\ HasArgs(frames'[k])
  <2>1. frames'[k] = frames[k] /\ HasArgs(frames[k])
    BY <1>5, <1>6
  <2>2. frames[k].pc = "args"
    <3>1. CASE k < Len(frames)
      BY <1>5, <3>1
    <3>2. CASE k = Len(frames)
      <4>1. frames /= <<>>
        BY <1>5, <3>2, EmptySeq
      <4> QED BY <1>1, <3>2, <4>1, RawRunning DEF Raw!top
    <3> QED BY <1>5, <3>1, <3>2
  <2> QED BY <2>1, <2>2
<1>12. HasArgs(f)
  BY <1>3 DEF HasArgs
<1>13. \A k \in 1 .. Len(frames') :
         HasArgs(frames'[k]) /\ (k < Len(frames') => frames'[k].pc = "args")
  BY <1>5, <1>6, <1>11, <1>12
<1>14. (frames /= <<>> => Fits(Raw!top))'
  BY <1>9, <1>10 DEF Fits
<1> QED BY <1>7, <1>8, <1>13, <1>14 DEF RawInv, HasArgs

(* What is known of the call that goes on.                                 *)
LEMMA RawAt ==
  ASSUME RawInv, NEW p, Raw!at(p)
  PROVE  /\ frames /= <<>> /\ Raw!top \in RawFrame /\ Raw!top.pc = p
         /\ Fits(Raw!top) /\ HasArgs(Raw!top) /\ svc_raw \in RawStream
<1>1. frames \in Seq(RawFrame) /\ frames /= <<>> /\ Raw!top.pc = p
  BY DEF RawInv, RawTypes, Raw!at
<1>2. /\ Raw!top \in RawFrame /\ Len(frames) \in 1 .. Len(frames) /\ Raw!top = frames[Len(frames)]
  BY <1>1, RawTop
<1> QED BY <1>1, <1>2 DEF RawInv, RawTypes

(* The server's part: the call is dispatched, or answered at once.         *)
LEMMA RawServes ==
  ASSUME Raw!Alone, RawInv, Raw!unserved \/ Raw!serve
  PROVE  RawInv'
<1>1. /\ Raw!at("serve") /\ UNCHANGED <<handles, clntraw, last, raw_callouts>>
      /\ \/ /\ ~Raw!registered /\ Raw!set([Raw!top EXCEPT !.pc = "decode"])
            /\ UNCHANGED <<__rpc_rawcombuf, svc_raw>>
         \/ /\ Raw!registered /\ __rpc_rawcombuf.prog \in raw_callouts
            /\ svc_raw' = [svc_raw EXCEPT !.x_op = "XDR_DECODE"]
            /\ Raw!set([Raw!top EXCEPT !.pc = "dispatch", !.prog = __rpc_rawcombuf.prog])
            /\ UNCHANGED __rpc_rawcombuf
         \/ /\ Raw!registered /\ __rpc_rawcombuf.prog \notin raw_callouts
            /\ __rpc_rawcombuf' = [Raw!Empty EXCEPT !.dir = "reply", !.stat = "RPC_PROGUNAVAIL"]
            /\ svc_raw' = [svc_raw EXCEPT !.x_op = "XDR_ENCODE"]
            /\ Raw!set([Raw!top EXCEPT !.pc = "decode"])
  BY DEF Raw!unserved, Raw!serve, Raw!svc_raw_recv
<1>2. /\ frames /= <<>> /\ Raw!top \in RawFrame /\ Raw!top.pc = "serve"
      /\ __rpc_rawcombuf = [dir |-> "call", prog |-> Raw!top.want, arg |-> Raw!top.arg, stat |-> "none"]
      /\ Raw!top.live => svc_raw.live /\ Raw!top.want \in raw_callouts
      /\ Raw!top.fate = "none" /\ svc_raw \in RawStream
  BY <1>1, RawAt DEF Fits
<1>3. __rpc_rawcombuf.dir = "call" /\ __rpc_rawcombuf.prog = Raw!top.want
  BY <1>2
<1>4. FD_SETSIZE < DTableSize /\ (Raw!registered <=> svc_raw.live)
  BY DEF Raw!Alone, Raw!registered
<1>5. CASE /\ ~Raw!registered /\ Raw!set([Raw!top EXCEPT !.pc = "decode"])
           /\ UNCHANGED <<__rpc_rawcombuf, svc_raw>>
  <2>1. PICK f : f = [Raw!top EXCEPT !.pc = "decode"]
    OBVIOUS
  <2>2. /\ f \in RawFrame /\ f.pc = "decode" /\ f.live = Raw!top.live
    BY <1>2, <2>1 DEF RawFrame
  <2>3. Raw!status(__rpc_rawcombuf)' /= "RPC_SUCCESS" /\ ~f.live
    BY <1>2, <1>3, <1>4, <1>5, <2>2 DEF Raw!status
  <2>4. Fits(f)' /\ HasArgs(f)
    BY <2>2, <2>3 DEF Fits, HasArgs
  <2> QED BY <1>1, <1>2, <1>5, <2>1, <2>2, <2>4, RawSet
<1>6. CASE /\ Raw!registered /\ __rpc_rawcombuf.prog \in raw_callouts
           /\ svc_raw' = [svc_raw EXCEPT !.x_op = "XDR_DECODE"]
           /\ Raw!set([Raw!top EXCEPT !.pc = "dispatch", !.prog = __rpc_rawcombuf.prog])
           /\ UNCHANGED __rpc_rawcombuf
  <2>1. PICK f : f = [Raw!top EXCEPT !.pc = "dispatch", !.prog = __rpc_rawcombuf.prog]
    OBVIOUS
  <2>2. Raw!top.want \in RawPrograms
    BY <1>2 DEF RawFrame
  <2>3. f = [Raw!top EXCEPT !.pc = "dispatch", !.prog = Raw!top.want]
    BY <1>3, <2>1
  <2>4. /\ f \in RawFrame /\ f.pc = "dispatch" /\ f.prog = Raw!top.want /\ f.want = Raw!top.want
        /\ f.arg = Raw!top.arg /\ f.fate = "none"
    BY <1>2, <2>2, <2>3 DEF RawFrame
  <2>5. svc_raw'.x_op = "XDR_DECODE" /\ svc_raw' \in RawStream
    BY <1>2, <1>6 DEF RawStream
  <2>7. Fits(f)' /\ HasArgs(f)
    BY <1>2, <1>6, <2>4, <2>5 DEF Fits, HasArgs
  <2> QED BY <1>1, <1>2, <1>6, <2>1, <2>4, <2>5, <2>7, RawSet
<1>7. CASE /\ Raw!registered /\ __rpc_rawcombuf.prog \notin raw_callouts
           /\ __rpc_rawcombuf' = [Raw!Empty EXCEPT !.dir = "reply", !.stat = "RPC_PROGUNAVAIL"]
           /\ svc_raw' = [svc_raw EXCEPT !.x_op = "XDR_ENCODE"]
           /\ Raw!set([Raw!top EXCEPT !.pc = "decode"])
  <2>1. PICK f : f = [Raw!top EXCEPT !.pc = "decode"]
    OBVIOUS
  <2>2. /\ f \in RawFrame /\ f.pc = "decode" /\ f.live = Raw!top.live
    BY <1>2, <2>1 DEF RawFrame
  <2>3. __rpc_rawcombuf'.stat = "RPC_PROGUNAVAIL" /\ ~f.live
    BY <1>2, <1>3, <1>7, <2>2 DEF Raw!Empty
  <2>4. Raw!status(__rpc_rawcombuf)' /= "RPC_SUCCESS"
    BY <2>3 DEF Raw!status
  <2>5. Fits(f)' /\ HasArgs(f)
    BY <2>2, <2>3, <2>4 DEF Fits, HasArgs
  <2>6. svc_raw' \in RawStream
    BY <1>2, <1>7 DEF RawStream
  <2> QED BY <1>1, <1>2, <1>7, <2>1, <2>2, <2>5, <2>6, RawSet
<1> QED BY <1>1, <1>5, <1>6, <1>7

(* The routine takes its arguments, replies or not, and frees them.        *)
LEMMA RawTakesArguments ==
  ASSUME RawInv, Raw!svc_raw_getargs
  PROVE  RawInv'
<1>1. /\ Raw!at("dispatch") /\ UNCHANGED <<handles, clntraw, last, svc_raw, __rpc_rawcombuf>>
      /\ Raw!set([Raw!top EXCEPT !.pc = "args",
           !.got = IF svc_raw.x_op = "XDR_FREE" THEN 0 ELSE __rpc_rawcombuf.arg])
  BY DEF Raw!svc_raw_getargs
<1>2. /\ frames /= <<>> /\ Raw!top \in RawFrame
      /\ __rpc_rawcombuf = [dir |-> "call", prog |-> Raw!top.want, arg |-> Raw!top.arg, stat |-> "none"]
      /\ svc_raw.x_op = "XDR_DECODE" /\ Raw!top.prog = Raw!top.want /\ Raw!top.fate = "none"
      /\ svc_raw \in RawStream
  BY <1>1, RawAt DEF Fits
<1>3. __rpc_rawcombuf.dir = "call" /\ __rpc_rawcombuf.arg = Raw!top.arg
  BY <1>2
<1>4. Raw!set([Raw!top EXCEPT !.pc = "args", !.got = Raw!top.arg])
  BY <1>1, <1>2, <1>3
<1>5. PICK f : f = [Raw!top EXCEPT !.pc = "args", !.got = Raw!top.arg]
  OBVIOUS
<1>6. Raw!top.arg \in Arguments
  BY <1>2 DEF RawFrame
<1>7. /\ f \in RawFrame /\ f.pc = "args" /\ f.prog = Raw!top.want /\ f.want = Raw!top.want
      /\ f.arg = Raw!top.arg /\ f.got = Raw!top.arg /\ f.fate = "none"
  BY <1>2, <1>5, <1>6 DEF RawFrame
<1>8. Fits(f)' /\ HasArgs(f)
  BY <1>1, <1>3, <1>7 DEF Fits, HasArgs
<1> QED BY <1>1, <1>2, <1>4, <1>5, <1>7, <1>8, RawSet

LEMMA RawReplies ==
  ASSUME Raw!Alone, RawInv, Raw!svc_raw_reply \/ Raw!reply_fails \/ Raw!no_reply
  PROVE  RawInv'
<1>1. PICK s \in {"reply", "long", "silent"} :
        /\ Raw!at("args") /\ s \in Fates /\ UNCHANGED <<handles, clntraw, last>>
        /\ Raw!set([Raw!top EXCEPT !.pc = "free", !.fate = s])
        /\ s = "reply" => __rpc_rawcombuf' = Raw!encoded(Raw!top.prog, Raw!top.got)
        /\ s = "long" => __rpc_rawcombuf' = [Raw!Empty EXCEPT !.dir = "cut"]
        /\ s = "silent" => __rpc_rawcombuf' = __rpc_rawcombuf
        /\ svc_raw' = svc_raw \/ svc_raw' = [svc_raw EXCEPT !.x_op = "XDR_ENCODE"]
  <2>1. CASE Raw!svc_raw_reply
    BY <2>1 DEF Raw!svc_raw_reply
  <2>2. CASE Raw!reply_fails
    BY <2>2 DEF Raw!reply_fails
  <2>3. CASE Raw!no_reply
    BY <2>3 DEF Raw!no_reply
  <2> QED BY <2>1, <2>2, <2>3
<1>2. /\ frames /= <<>> /\ Raw!top \in RawFrame /\ svc_raw \in RawStream
      /\ Raw!top.prog = Raw!top.want /\ Raw!top.got = Raw!top.arg
      /\ "silent" \in Fates => __rpc_rawcombuf.dir = "call"
  BY <1>1, RawAt DEF Fits, HasArgs
<1>3. PICK f : f = [Raw!top EXCEPT !.pc = "free", !.fate = s]
  OBVIOUS
<1>4. /\ f \in RawFrame /\ f.pc = "free" /\ f.fate = s /\ f.want = Raw!top.want /\ f.arg = Raw!top.arg
  BY <1>2, <1>3 DEF RawFrame
<1>5. s = "reply" => __rpc_rawcombuf' = Raw!encoded(f.want, f.arg)
  BY <1>1, <1>2, <1>4
<1>6. s = "long" => __rpc_rawcombuf'.dir = "cut"
  BY <1>1 DEF Raw!Empty
<1>7. s = "silent" => __rpc_rawcombuf'.dir = "call"
  BY <1>1, <1>2
<1>8. Fits(f)' /\ HasArgs(f)
  <2>1. s \in {"reply", "long", "silent"} /\ f.pc = "free" /\ f.fate = s
    BY <1>4
  <2> QED BY <2>1, <1>5, <1>6, <1>7 DEF Fits, HasArgs, Raw!encoded
<1>9. svc_raw' \in RawStream
  BY <1>1, <1>2 DEF RawStream
<1> QED BY <1>1, <1>2, <1>3, <1>4, <1>8, <1>9, RawSet

LEMMA RawFrees ==
  ASSUME RawInv, Raw!svc_raw_freeargs
  PROVE  RawInv'
<1>1. /\ Raw!at("free") /\ UNCHANGED <<handles, clntraw, last, __rpc_rawcombuf>>
      /\ Raw!set([Raw!top EXCEPT !.pc = "decode"]) /\ svc_raw' = [svc_raw EXCEPT !.x_op = "XDR_FREE"]
  BY DEF Raw!svc_raw_freeargs
<1>2. /\ frames /= <<>> /\ Raw!top \in RawFrame /\ svc_raw \in RawStream
      /\ Raw!top.fate /= "none"
      /\ Raw!top.fate = "reply" => __rpc_rawcombuf = Raw!encoded(Raw!top.want, Raw!top.arg)
      /\ Raw!top.fate = "silent" => __rpc_rawcombuf.dir = "call"
      /\ Raw!top.fate = "long" => __rpc_rawcombuf.dir = "cut"
  BY <1>1, RawAt DEF Fits
<1>3. PICK f : f = [Raw!top EXCEPT !.pc = "decode"]
  OBVIOUS
<1>4. /\ f \in RawFrame /\ f.pc = "decode" /\ f.fate = Raw!top.fate /\ f.want = Raw!top.want
      /\ f.arg = Raw!top.arg /\ f.fate \in {"reply", "silent", "long"}
  BY <1>2, <1>3 DEF RawFrame
<1>5. CASE f.fate = "reply"
  <2>1. /\ __rpc_rawcombuf.dir = "reply" /\ __rpc_rawcombuf.stat = "RPC_SUCCESS"
        /\ __rpc_rawcombuf.prog = f.want /\ __rpc_rawcombuf.arg = f.arg
    BY <1>2, <1>4, <1>5 DEF Raw!encoded
  <2>2. Fits(f)' /\ HasArgs(f)
    BY <1>1, <1>4, <2>1 DEF Fits, HasArgs, Raw!status
  <2>3. svc_raw' \in RawStream
    BY <1>1, <1>2 DEF RawStream
  <2> QED BY <1>1, <1>2, <1>3, <1>4, <2>2, <2>3, RawSet
<1>6. CASE f.fate /= "reply"
  <2>1. __rpc_rawcombuf.dir \in {"call", "cut"}
    BY <1>2, <1>4, <1>6
  <2>2. Fits(f)' /\ HasArgs(f)
    BY <1>1, <1>4, <1>6, <2>1 DEF Fits, HasArgs, Raw!status
  <2>3. svc_raw' \in RawStream
    BY <1>1, <1>2 DEF RawStream
  <2> QED BY <1>1, <1>2, <1>3, <1>4, <2>2, <2>3, RawSet
<1> QED BY <1>5, <1>6

(* The innermost call returns to the routine that made it.                 *)
LEMMA RawReturns ==
  ASSUME Raw!RawAssumption, Raw!Alone, RawInv, Raw!get_results
  PROVE  RawInv'
<1> DEFINE n == Len(frames) - 1
<1>1. /\ Raw!at("decode") /\ frames' = SubSeq(frames, 1, n)
      /\ last' = [want |-> Raw!top.want, arg |-> Raw!top.arg, live |-> Raw!top.live, fate |-> Raw!top.fate,
                  status |-> Raw!status(__rpc_rawcombuf),
                  res |-> <<__rpc_rawcombuf.prog, __rpc_rawcombuf.arg>>]
      /\ UNCHANGED <<__rpc_rawcombuf, clntraw, handles, svc_raw>>
  BY DEF Raw!get_results
<1>2. /\ frames /= <<>> /\ Raw!top \in RawFrame
      /\ Raw!status(__rpc_rawcombuf) = "RPC_SUCCESS" =>
           <<__rpc_rawcombuf.prog, __rpc_rawcombuf.arg>> = <<Raw!top.want, Raw!top.arg>>
      /\ Raw!top.live /\ Raw!top.fate \in {"none", "reply"} => Raw!status(__rpc_rawcombuf) = "RPC_SUCCESS"
  BY <1>1, RawAt DEF Fits
<1>3. RawCallsAnswered'
  <2>1. /\ last'.status = Raw!status(__rpc_rawcombuf) /\ last'.want = Raw!top.want
        /\ last'.arg = Raw!top.arg /\ last'.live = Raw!top.live /\ last'.fate = Raw!top.fate
        /\ last'.res = <<__rpc_rawcombuf.prog, __rpc_rawcombuf.arg>>
    BY <1>1
  <2> QED BY <1>2, <2>1 DEF RawCallsAnswered, Raw!AnswersOwn, Raw!Served
<1>4. /\ frames \in Seq(RawFrame) /\ Len(frames) \in Nat /\ n \in Nat /\ n < Len(frames)
      /\ MaxDepth \in Nat /\ Len(frames) <= MaxDepth
      /\ \A k \in 1 .. Len(frames) : HasArgs(frames[k]) /\ (k < Len(frames) => frames[k].pc = "args")
  BY <1>2, RawTop DEF RawInv, RawTypes, Raw!RawAssumption
<1>5. \A k \in 1 .. n : k \in 1 .. Len(frames) /\ frames[k] \in RawFrame
  BY <1>4
<1>6. /\ frames' \in Seq(RawFrame) /\ Len(frames') = n /\ \A k \in 1 .. n : frames'[k] = frames[k]
  <2>1. /\ SubSeq(frames, 1, n) \in Seq(RawFrame)
        /\ Len(SubSeq(frames, 1, n)) = IF 1 <= n THEN n - 1 + 1 ELSE 0
        /\ \A k \in 1 .. n - 1 + 1 : SubSeq(frames, 1, n)[k] = frames[1 + k - 1]
    BY <1>4, <1>5, SubSeqProperties
  <2>2. n - 1 + 1 = n /\ \A k \in 1 .. n : 1 + k - 1 = k
    BY <1>4
  <2> HIDE DEF n
  <2> QED BY <1>1, <1>4, <2>1, <2>2
<1>7. RawTypes'
  BY <1>1, <1>4, <1>6 DEF RawInv, RawTypes
<1>8. \A k \in 1 .. Len(frames') :
        HasArgs(frames'[k]) /\ (k < Len(frames') => frames'[k].pc = "args")
  BY <1>4, <1>5, <1>6
<1>9. (frames /= <<>> => Fits(Raw!top))'
  <2> SUFFICES ASSUME frames' /= <<>> PROVE Fits(Raw!top)'
    OBVIOUS
  <2>1. n \in 1 .. n
    BY <1>4, <1>6, EmptySeq
  <2>2. Raw!top' = frames[n] /\ frames[n].pc = "args"
    BY <1>4, <1>5, <1>6, <2>1 DEF Raw!top
  <2>3. "silent" \notin Fates
    <3>1. Len(frames) > 1
      BY <1>4, <2>1
    <3> QED BY <1>4, <3>1 DEF Raw!Alone
  <2> QED BY <2>2, <2>3 DEF Fits
<1> QED BY <1>3, <1>7, <1>8, <1>9 DEF RawInv, HasArgs

LEMMA RawInit ==
  ASSUME Raw!RawAssumption, Raw!Init PROVE RawInv
<1>1. /\ svc_raw = [live |-> FALSE, x_op |-> "XDR_DECODE"] /\ frames = <<>> /\ handles = {}
      /\ last = Raw!NoCall
  BY DEF Raw!Init
<1>2. frames \in Seq(RawFrame) /\ Len(frames) = 0
  BY <1>1
<1>3. RawTypes
  BY <1>1, <1>2 DEF RawTypes, RawStream, Raw!RawAssumption
<1>4. last.status = "none" /\ last.live = FALSE
  BY <1>1 DEF Raw!NoCall
<1>5. RawCallsAnswered
  BY <1>4 DEF RawCallsAnswered, Raw!AnswersOwn, Raw!Served
<1> QED BY <1>1, <1>2, <1>3, <1>5 DEF RawInv

(* A program that calls itself (clnt_raw_call, svc_raw_recv,               *)
(* svc_raw_reply), for any arguments and number of calls, if it calls one  *)
(* program, the raw transport's descriptor lies inside the table (Alone),  *)
(* its routines take their arguments before they call, and none calls where*)
(* one may stay silent: a call that succeeds has the result of its own     *)
(* argument, although one buffer and one transport serve all that are      *)
(* nested in it, and it succeeds if its routine replies.                   *)
THEOREM NestedCalls ==
  ASSUME Raw!Alone
  PROVE  Raw!Spec => []RawCallsAnswered
<1>1. Raw!RawAssumption /\ Raw!Alone
  BY RawAssumed
<1>2. Raw!Init => RawInv
  BY <1>1, RawInit
<1>3. RawInv /\ [Raw!Next]_Raw!vars => RawInv'
  <2> SUFFICES ASSUME RawInv, [Raw!Next]_Raw!vars PROVE RawInv'
    OBVIOUS
  <2>1. CASE Raw!svc_raw_create \/ \E p \in RawPrograms : Raw!clnt_raw_create(p) \/ Raw!svc_reg(p)
    BY <1>1, <2>1, RawCreates
  <2>2. CASE \E p \in RawPrograms, a \in Arguments : Raw!clnt_raw_call(p, a)
    BY <1>1, <2>2, RawBegins
  <2>3. CASE Raw!unserved \/ Raw!serve
    BY <1>1, <2>3, RawServes
  <2>4. CASE Raw!svc_raw_getargs
    BY <2>4, RawTakesArguments
  <2>5. CASE Raw!svc_raw_reply \/ Raw!reply_fails \/ Raw!no_reply
    BY <1>1, <2>5, RawReplies
  <2>6. CASE Raw!svc_raw_freeargs
    BY <2>6, RawFrees
  <2>7. CASE Raw!get_results
    BY <1>1, <2>7, RawReturns
  <2>8. CASE UNCHANGED Raw!vars
    <3>1. UNCHANGED <<__rpc_rawcombuf, clntraw, raw_callouts, handles, svc_raw, frames, last>>
      BY <2>8 DEF Raw!vars
    <3> QED BY <3>1
      DEF RawInv, RawTypes, HasArgs, Fits, Raw!top, RawCallsAnswered, Raw!AnswersOwn, Raw!Served
  <2> QED BY <2>1, <2>2, <2>3, <2>4, <2>5, <2>6, <2>7, <2>8 DEF Raw!Next
<1>4. RawInv => RawCallsAnswered
  BY DEF RawInv
<1> QED BY <1>2, <1>3, <1>4, PTL DEF Raw!Spec

-----------------------------------------------------------------------------
(* Registration by threads (SvcGeneric).                                   *)
AllPrograms == Programs \cup SimplePrograms
Working == {"unset", "reg", "set", "failed", "done"}
Registers == {"svc_create", "svc_tp_create", "rpc_reg"}
RegThread ==
  [pc : {"idle", "getconf", "find", "unreg"} \cup Working,
   op : Registers \cup {"svc_unreg", "none"}, prog : AllPrograms \cup {0},
   disp : Dispatches \cup {"universal", "none"}, proc : Procs \cup {0},
   i : 0 .. Len(Netconf), x : Nat, made : BOOLEAN, ok : SUBSET Registering!Netids,
   set : BOOLEAN, id : Nat]
RegTypes ==
  /\ xprts \in Seq([netid : Registering!Netids, fd : Registering!Fds, live : BOOLEAN])
  /\ xprtlist \in Seq(Nat)
  /\ proglst \in Seq([prog : AllPrograms, proc : Procs, netid : Registering!Netids, x : Nat, routine : Nat])
  /\ rpcb \in [AllPrograms \X Registering!Netids -> Nat]
  /\ th \in [Threads -> RegThread] /\ gen_calls \in Nat

(* Who has the descriptors: none is open without a transport.              *)
FdsOwned ==
  /\ fds \in [Registering!Fds -> {"free", "app", "lib"}]
  /\ \A w \in DOMAIN xprts : xprts[w].live => fds[xprts[w].fd] = "lib"
  /\ \A w, v \in DOMAIN xprts : xprts[w].live /\ xprts[v].live /\ xprts[w].fd = xprts[v].fd => w = v
  /\ \A f \in Registering!Fds : fds[f] = "lib" => \E w \in DOMAIN xprts : xprts[w].live /\ xprts[w].fd = f

(* A live transport of a netid.                                            *)
LiveOf(w, n) == w \in DOMAIN xprts /\ xprts[w].live /\ xprts[w].netid = n
InLists(w) ==
  (\E k \in DOMAIN xprtlist : xprtlist[k] = w) \/ (\E k \in DOMAIN proglst : proglst[k].x = w)
Listed ==
  /\ \A k \in DOMAIN xprtlist : LiveOf(xprtlist[k], xprts[xprtlist[k]].netid)
  /\ \A j, k \in DOMAIN xprtlist : xprts[xprtlist[j]].netid = xprts[xprtlist[k]].netid => j = k
  /\ \A k \in DOMAIN proglst : LiveOf(proglst[k].x, proglst[k].netid)
  /\ \A j, k \in DOMAIN proglst : proglst[j].netid = proglst[k].netid => proglst[j].x = proglst[k].x

(* Who works on a list has its lock.                                       *)
HasLock(t) ==
  /\ th[t].op = "svc_create" /\ th[t].pc \in Working \cup {"find"} => xprtlist_lock = t
  /\ th[t].op = "rpc_reg" /\ th[t].pc \in Working \cup {"find"} => proglst_lock = t
ServerLock ==
  "pc" \in DOMAIN server /\ (server.pc = "run" => proglst_lock = "server")

(* The transport a thread works with: its own as long as nobody else can   *)
(* find it, or one of the list it looked in.                               *)
Owns(t) == th[t].made /\ th[t].pc \in Working
WorksOn(t) ==
  /\ IF th[t].op \in Registers THEN th[t].pc \in Working \cup {"find", "getconf"}
     ELSE th[t].ok = {} /\ th[t].pc \in {"idle", "unreg"}
  /\ th[t].op \in {"svc_create", "svc_tp_create"} => th[t].prog \in Programs /\ th[t].disp \in Dispatches
  /\ th[t].op = "rpc_reg" => th[t].prog \in SimplePrograms /\ th[t].disp = "universal" /\ th[t].proc \in Procs
  /\ th[t].pc \in Working \cup {"find"} => th[t].i /= 0
  /\ th[t].pc \in Working =>
       /\ LiveOf(th[t].x, Registering!netid(t))
       /\ th[t].made \/ th[t].op /= "svc_tp_create"
       /\ th[t].op = "svc_create" =>
            IF th[t].made THEN \A k \in DOMAIN xprtlist : xprts[xprtlist[k]].netid /= Registering!netid(t)
            ELSE \E k \in DOMAIN xprtlist : xprtlist[k] = th[t].x
       /\ th[t].op = "rpc_reg" =>
            IF th[t].made THEN \A k \in DOMAIN proglst : proglst[k].netid /= Registering!netid(t)
            ELSE \E k \in DOMAIN proglst : proglst[k].netid = Registering!netid(t) /\ proglst[k].x = th[t].x
  /\ Owns(t) => ~InLists(th[t].x) /\ \A u \in Threads : u /= t /\ th[u].pc \in Working => th[u].x /= th[t].x

(* The addresses rpcbind has are of live transports that nobody gives up.  *)
RpcbLive ==
  \A p \in AllPrograms, n \in Registering!Netids : rpcb[<<p, n>>] /= 0 =>
    /\ LiveOf(rpcb[<<p, n>>], n)
    /\ \A t \in Threads : Owns(t) /\ th[t].pc /= "done" => th[t].x /= rpcb[<<p, n>>]

GenericSafe ==
  /\ RegTypes /\ FdsOwned /\ Listed /\ ServerLock /\ RpcbLive /\ closed = {}
  /\ \A t \in Threads : HasLock(t) /\ WorksOn(t)

(* What was promised can be called, or somebody is about to set its        *)
(* address anew.                                                           *)
Resetting(t, p, n) ==
  th[t].prog = p /\ th[t].pc \in {"reg", "set"} /\ th[t].set /\ Registering!netid(t) = n
Promised(p, n, d) ==
  /\ [prog |-> p, netid |-> n, disp |-> d] \in gen_callouts
  /\ rpcb[<<p, n>>] /= 0 \/ \E t \in Threads : Resetting(t, p, n)
Promises(t) ==
  /\ th[t].pc /= "unreg"
  /\ \A n \in th[t].ok : Promised(th[t].prog, n, th[t].disp)
  /\ th[t].pc = "reg" => (th[t].set \/ Registering!already(t))
  /\ th[t].pc = "set" => th[t].set /\ [prog |-> th[t].prog, netid |-> Registering!netid(t), disp |-> th[t].disp] \in gen_callouts
  /\ th[t].pc = "done" => Promised(th[t].prog, Registering!netid(t), th[t].disp)
AllPromised ==
  /\ \A c \in gen_callouts :
       /\ c.prog \in Programs => c.disp \in Dispatches
       /\ c.prog \in SimplePrograms => c.disp = "universal"
  /\ \A r \in registered :
       /\ r = [prog |-> r.prog, netid |-> r.netid, disp |-> r.disp]
       /\ r.prog \in AllPrograms /\ r.netid \in Registering!Netids
       /\ Promised(r.prog, r.netid, r.disp)
  /\ \A k \in DOMAIN proglst :
       proglst[k].prog \in SimplePrograms /\ Promised(proglst[k].prog, proglst[k].netid, "universal")
  /\ \A t \in Threads : Promises(t)
GenericInv == GenericSafe /\ (Registering!Undisturbed => AllPromised)

LEMMA GenericStart == RegisteringAssumption /\ Registering!Init => GenericInv
<1> SUFFICES ASSUME Registering!Init, Registering!GenericAssumption PROVE GenericInv
  BY DEF RegisteringAssumption
<1>1. th = [t \in Threads |-> Registering!Idle] /\ Registering!Idle \in RegThread
  <2>1. Len(Netconf) \in Nat
    BY LenProperties DEF Registering!GenericAssumption
  <2> QED BY <2>1 DEF Registering!Init, Registering!Idle, Registering!Nowhere, RegThread, Registers, Working
<1>2. \A t \in Threads : th[t].pc = "idle" /\ th[t].op = "none" /\ th[t].ok = {}
  BY <1>1 DEF Registering!Idle
<1>3. RegTypes
  <2>1. rpcb \in [AllPrograms \X Registering!Netids -> Nat]
    BY DEF Registering!Init, Registering!Nowhere, AllPrograms
  <2>2. xprts = <<>> /\ xprtlist = <<>> /\ proglst = <<>> /\ gen_calls = 0
    BY DEF Registering!Init
  <2>3. \A S : <<>> \in Seq(S)
    OBVIOUS
  <2> QED BY <1>1, <2>1, <2>2, <2>3 DEF RegTypes
<1>4. FdsOwned /\ Listed
  BY DEF Registering!Init, Registering!GenericAssumption, Registering!Fds, FdsOwned, Listed
<1>5. ServerLock /\ RpcbLive /\ closed = {}
  BY DEF Registering!Init, Registering!Quiet, Registering!Nowhere, ServerLock, RpcbLive, AllPrograms
<1>6. \A t \in Threads : HasLock(t) /\ WorksOn(t)
  BY <1>2 DEF HasLock, WorksOn, Owns, Working, Registers
<1>7. AllPromised
  BY <1>2 DEF Registering!Init, AllPromised, Promises
<1> QED BY <1>3, <1>4, <1>5, <1>6, <1>7 DEF GenericInv, GenericSafe


(* The transports that were made stay as they are.                         *)
XprtsStay == \A w \in DOMAIN xprts : w \in DOMAIN xprts' /\ xprts'[w] = xprts[w]

(* A thread moves; there may be a new transport, and the lists stay.       *)
LEMMA ThreadMovesOn ==
  ASSUME Registering!GenericAssumption, GenericSafe, NEW t, NEW f,
         \/ t \in Threads /\ f \in RegThread /\ th' = [th EXCEPT ![t] = f]
         \/ t \notin Threads /\ th' = th,
         XprtsStay, FdsOwned', UNCHANGED <<xprtlist, proglst, server>>,
         xprts' \in Seq([netid : Registering!Netids, fd : Registering!Fds, live : BOOLEAN]),
         gen_calls' \in Nat, rpcb' \in [AllPrograms \X Registering!Netids -> Nat],
         \A u \in Threads \ {t} :
           /\ xprtlist_lock = u => xprtlist_lock' = u
           /\ proglst_lock = u => proglst_lock' = u,
         proglst_lock = "server" => proglst_lock' = "server",
         t \in Threads => \A u \in Threads \ {t} : f.pc \in Working /\ Owns(u) => f.x /= th[u].x
  PROVE  /\ RegTypes' /\ FdsOwned' /\ Listed' /\ ServerLock' /\ (t \in Threads => th'[t] = f)
         /\ \A u \in Threads \ {t} : th'[u] = th[u] /\ HasLock(u)' /\ WorksOn(u)'
<1>1. (t \in Threads => th'[t] = f) /\ th' \in [Threads -> RegThread] /\ \A u \in Threads \ {t} : th'[u] = th[u]
  BY DEF GenericSafe, RegTypes
<1>2. RegTypes'
  BY <1>1 DEF GenericSafe, RegTypes
<1>3. Listed'
  BY DEF GenericSafe, XprtsStay, Listed, LiveOf
<1>4. ServerLock'
  BY DEF GenericSafe, ServerLock
<1>5. ASSUME NEW u \in Threads \ {t} PROVE HasLock(u)' /\ WorksOn(u)'
  <2>1. HasLock(u)'
    BY <1>1, <1>5 DEF GenericSafe, HasLock
  <2>2. WorksOn(u)
    BY DEF GenericSafe
  <2>3. Owns(u)' = Owns(u) /\ InLists(th[u].x)' = InLists(th[u].x) /\ Registering!netid(u)' = Registering!netid(u)
    BY <1>1 DEF Owns, InLists, Registering!netid
  <2>4. Owns(u) => ~InLists(th[u].x)' /\ \A v \in Threads : v /= u /\ th'[v].pc \in Working => th'[v].x /= th[u].x
    BY <1>1, <2>2, <2>3 DEF WorksOn
  <2>5. \A n : LiveOf(th[u].x, n) => LiveOf(th[u].x, n)'
    BY <1>1 DEF LiveOf, XprtsStay
  <2>6. \A k \in DOMAIN xprtlist : xprts'[xprtlist[k]].netid = xprts[xprtlist[k]].netid
    BY DEF XprtsStay, GenericSafe, Listed, LiveOf
  <2>7. WorksOn(u)'
    BY <1>1, <2>2, <2>3, <2>4, <2>5, <2>6 DEF WorksOn
  <2> QED BY <2>1, <2>7
<1> QED BY <1>1, <1>2, <1>3, <1>4, <1>5

(* A thread moves; the transports and the lists stay.                      *)
LEMMA ThreadMoves ==
  ASSUME Registering!GenericAssumption, GenericSafe, NEW t \in Threads, NEW f \in RegThread,
         th' = [th EXCEPT ![t] = f], UNCHANGED <<fds, xprts, xprtlist, proglst, server>>,
         gen_calls' \in Nat, rpcb' \in [AllPrograms \X Registering!Netids -> Nat],
         \A u \in Threads \ {t} :
           /\ xprtlist_lock = u => xprtlist_lock' = u
           /\ proglst_lock = u => proglst_lock' = u,
         proglst_lock = "server" => proglst_lock' = "server",
         \A u \in Threads \ {t} : f.pc \in Working /\ Owns(u) => f.x /= th[u].x
  PROVE  /\ RegTypes' /\ FdsOwned' /\ Listed' /\ ServerLock' /\ th'[t] = f
         /\ \A u \in Threads \ {t} : th'[u] = th[u] /\ HasLock(u)' /\ WorksOn(u)'
<1>1. XprtsStay /\ FdsOwned' /\ xprts' \in Seq([netid : Registering!Netids, fd : Registering!Fds, live : BOOLEAN])
  BY DEF XprtsStay, GenericSafe, RegTypes, FdsOwned
<1> QED BY <1>1, ThreadMovesOn

(* The addresses rpcbind has stay, or some are taken away.                 *)
LEMMA AddressesStayOn ==
  ASSUME GenericSafe, NEW t, NEW f,
         \/ t \in Threads /\ f \in RegThread /\ th' = [th EXCEPT ![t] = f]
         \/ t \notin Threads /\ th' = th,
         XprtsStay,
         \A k \in AllPrograms \X Registering!Netids : rpcb'[k] \in {0, rpcb[k]},
         t \in Threads /\ f.made /\ f.pc \in Working \ {"done"} =>
           Owns(t) /\ th[t].pc /= "done" /\ f.x = th[t].x
  PROVE  RpcbLive'
<1> SUFFICES ASSUME NEW p \in AllPrograms, NEW n \in Registering!Netids, rpcb'[<<p, n>>] /= 0
             PROVE  /\ LiveOf(rpcb[<<p, n>>], n)'
                    /\ \A u \in Threads : Owns(u)' /\ th'[u].pc /= "done" => th'[u].x /= rpcb'[<<p, n>>]
  BY DEF RpcbLive
<1>1. rpcb'[<<p, n>>] = rpcb[<<p, n>>]
  OBVIOUS
<1>2. /\ LiveOf(rpcb[<<p, n>>], n)
      /\ \A u \in Threads : Owns(u) /\ th[u].pc /= "done" => th[u].x /= rpcb[<<p, n>>]
  BY <1>1 DEF GenericSafe, RpcbLive
<1>3. (t \in Threads => th'[t] = f) /\ \A u \in Threads \ {t} : th'[u] = th[u]
  BY DEF GenericSafe, RegTypes
<1> QED BY <1>1, <1>2, <1>3 DEF LiveOf, Owns, XprtsStay

LEMMA AddressesStay ==
  ASSUME GenericSafe, NEW t \in Threads, NEW f \in RegThread,
         th' = [th EXCEPT ![t] = f], UNCHANGED xprts,
         \A k \in AllPrograms \X Registering!Netids : rpcb'[k] \in {0, rpcb[k]},
         f.made /\ f.pc \in Working \ {"done"} =>
           Owns(t) /\ th[t].pc /= "done" /\ f.x = th[t].x
  PROVE  RpcbLive'
<1>1. XprtsStay
  BY DEF XprtsStay
<1> QED BY <1>1, AddressesStayOn

LEMMA RegSize ==
  ASSUME Registering!GenericAssumption
  PROVE  /\ Len(Netconf) \in Nat
         /\ \A j \in 1 .. Len(Netconf) : Netconf[j] \in Registering!Netids
  BY LenProperties, ElementOfSeq DEF Registering!GenericAssumption

LEMMA IdleThread ==
  ASSUME Registering!GenericAssumption
  PROVE  /\ Registering!Idle \in RegThread /\ Registering!Idle.pc = "idle" /\ Registering!Idle.op = "none"
         /\ Registering!Idle.i = 0 /\ ~Registering!Idle.made /\ Registering!Idle.ok = {}
  BY RegSize DEF Registering!Idle, Registering!Nowhere, RegThread, Registers, Working

LEMMA BegunThread ==
  ASSUME NEW r \in RegThread, NEW op \in Registers, NEW p \in AllPrograms,
         NEW d \in Dispatches \cup {"universal"}, NEW q \in Procs \cup {0}, NEW m \in Nat
  PROVE  [r EXCEPT !.pc = "getconf", !.op = op, !.prog = p, !.disp = d, !.proc = q, !.id = m] \in RegThread
<1>1. \A s \in RegThread : [s EXCEPT !.pc = "getconf", !.op = op, !.prog = p] \in RegThread
  BY DEF RegThread
<1>2. \A s \in RegThread : [s EXCEPT !.disp = d, !.proc = q] \in RegThread
  BY DEF RegThread
<1>3. \A s \in RegThread : [s EXCEPT !.id = m] \in RegThread
  BY DEF RegThread
<1> QED BY <1>1, <1>2, <1>3

(* A call begins.                                                          *)
Starts(t, f) ==
  /\ th' = [th EXCEPT ![t] = f] /\ f.pc \in {"getconf", "unreg"} /\ f.i = 0 /\ ~f.made /\ f.ok = {}
  /\ f.op \in Registers <=> f.pc = "getconf"
  /\ f.op \in {"svc_create", "svc_tp_create"} => f.prog \in Programs /\ f.disp \in Dispatches
  /\ f.op = "rpc_reg" => f.prog \in SimplePrograms /\ f.disp = "universal" /\ f.proc \in Procs
  /\ \A k \in AllPrograms \X Registering!Netids : rpcb'[k] \in {0, rpcb[k]}
  /\ rpcb' \in [AllPrograms \X Registering!Netids -> Nat]
  /\ f.pc = "unreg" => "svc_unreg" \in Calls
  /\ f.pc = "getconf" => UNCHANGED <<rpcb, gen_callouts, registered>>
  /\ gen_calls' \in Nat /\ closed' = {} /\ th[t].pc = "idle"
  /\ UNCHANGED <<fds, xprts, xprtlist, proglst, xprtlist_lock, proglst_lock, server>>

LEMMA RegStarts ==
  ASSUME Registering!GenericAssumption, GenericSafe, NEW t \in Threads, Registering!Begin(t)
  PROVE  \E f \in RegThread : Starts(t, f)
<1>1. ASSUME NEW op \in Registers, NEW p \in AllPrograms, NEW d \in Dispatches \cup {"universal"},
             NEW q \in Procs \cup {0}, Registering!begin(t, op, p, d, q),
             op \in {"svc_create", "svc_tp_create"} => p \in Programs /\ d \in Dispatches,
             op = "rpc_reg" => p \in SimplePrograms /\ d = "universal" /\ q \in Procs
      PROVE  \E f \in RegThread : Starts(t, f)
  <2> DEFINE e == [Registering!Idle EXCEPT !.pc = "getconf", !.op = op, !.prog = p, !.disp = d, !.proc = q, !.id = gen_calls + 1]
  <2>1. gen_calls \in Nat /\ rpcb \in [AllPrograms \X Registering!Netids -> Nat]
    BY DEF GenericSafe, RegTypes
  <2>2. gen_calls + 1 \in Nat
    BY <2>1
  <2>3. e \in RegThread
    BY <2>2, IdleThread, BegunThread
  <2>6. /\ e.pc = "getconf" /\ e.op = op /\ e.prog = p /\ e.disp = d /\ e.proc = q
        /\ e.i = 0 /\ ~e.made /\ e.ok = {}
    BY IdleThread DEF RegThread
  <2>4. th' = [th EXCEPT ![t] = e] /\ th[t].pc = "idle"
    BY <1>1 DEF Registering!begin, Registering!becomes, Registering!at
  <2>5. /\ gen_calls' = gen_calls + 1 /\ closed' = {} /\ rpcb' = rpcb /\ UNCHANGED <<gen_callouts, registered>>
        /\ UNCHANGED <<fds, xprts, xprtlist, proglst, xprtlist_lock, proglst_lock, server>>
    BY <1>1 DEF Registering!begin, Registering!regvars
  <2>7. gen_calls' \in Nat
    BY <2>2, <2>5
  <2> HIDE DEF e
  <2>8. Starts(t, e)
    BY <1>1, <2>1, <2>3, <2>4, <2>5, <2>6, <2>7 DEF Starts
  <2> QED BY <2>3, <2>8
<1>2. ASSUME NEW p \in AllPrograms, Registering!svc_unreg(t, p)
      PROVE  \E f \in RegThread : Starts(t, f)
  <2> DEFINE e == [Registering!Idle EXCEPT !.pc = "unreg", !.op = "svc_unreg", !.prog = p]
  <2>1. gen_calls \in Nat /\ rpcb \in [AllPrograms \X Registering!Netids -> Nat]
    BY DEF GenericSafe, RegTypes
  <2>2. e \in RegThread
    BY IdleThread DEF RegThread
  <2>3. e.pc = "unreg" /\ e.op = "svc_unreg" /\ e.i = 0 /\ ~e.made /\ e.ok = {}
    BY IdleThread DEF RegThread
  <2>4. th' = [th EXCEPT ![t] = e] /\ th[t].pc = "idle" /\ "svc_unreg" \in Calls
    BY <1>2 DEF Registering!svc_unreg, Registering!becomes, Registering!at
  <2>5. /\ gen_calls' = gen_calls + 1 /\ closed' = {}
        /\ UNCHANGED <<fds, xprts, xprtlist, proglst, xprtlist_lock, proglst_lock, server>>
        /\ rpcb' = [k \in DOMAIN rpcb |-> IF k[1] = p THEN 0 ELSE rpcb[k]]
    BY <1>2 DEF Registering!svc_unreg, Registering!Nowhere
  <2>6. /\ rpcb' \in [AllPrograms \X Registering!Netids -> Nat]
        /\ \A k \in AllPrograms \X Registering!Netids : rpcb'[k] \in {0, rpcb[k]}
    <3>1. \A k \in AllPrograms \X Registering!Netids : rpcb[k] \in Nat
      BY <2>1
    <3>2. DOMAIN rpcb = AllPrograms \X Registering!Netids
      BY <2>1
    <3> QED BY <2>5, <3>1, <3>2
  <2>7. e.op \notin Registers /\ e.op \notin {"svc_create", "svc_tp_create", "rpc_reg"}
    BY <2>3 DEF Registers
  <2>8. gen_calls' \in Nat
    BY <2>1, <2>5
  <2> HIDE DEF e
  <2>9. Starts(t, e)
    BY <2>1, <2>3, <2>4, <2>5, <2>6, <2>7, <2>8 DEF Starts
  <2> QED BY <2>2, <2>9
<1>3. CASE \E p \in Programs, d \in Dispatches : Registering!svc_create(t, p, d) \/ Registering!svc_tp_create(t, p, d)
  BY <1>1, <1>3 DEF Registering!svc_create, Registering!svc_tp_create, Registers, AllPrograms
<1>4. CASE \E p \in SimplePrograms, q \in Procs \ {0} : Registering!rpc_reg(t, p, q)
  BY <1>1, <1>4 DEF Registering!rpc_reg, Registers, AllPrograms
<1>5. CASE \E p \in Programs \cup SimplePrograms : Registering!svc_unreg(t, p)
  BY <1>2, <1>5 DEF AllPrograms
<1> QED BY <1>3, <1>4, <1>5 DEF Registering!Begin

LEMMA RegBegins ==
  ASSUME Registering!GenericAssumption, GenericSafe, NEW t \in Threads, NEW f \in RegThread, Starts(t, f)
  PROVE  GenericSafe'
<1>1. /\ RegTypes' /\ FdsOwned' /\ Listed' /\ ServerLock' /\ th'[t] = f
      /\ \A u \in Threads \ {t} : th'[u] = th[u] /\ HasLock(u)' /\ WorksOn(u)'
  BY ThreadMoves DEF Working, Starts
<1>2. RpcbLive'
  BY AddressesStay DEF Working, Starts
<1>3. HasLock(t)' /\ WorksOn(t)'
  BY <1>1 DEF HasLock, WorksOn, Owns, Working, Starts
<1> QED BY <1>1, <1>2, <1>3 DEF GenericSafe, Starts

LEMMA RegElements ==
  ASSUME RegTypes
  PROVE  /\ \A w \in DOMAIN xprts :
              xprts[w].netid \in Registering!Netids /\ xprts[w].fd \in Registering!Fds /\ xprts[w].live \in BOOLEAN
         /\ \A k \in DOMAIN proglst :
              /\ proglst[k].netid \in Registering!Netids /\ proglst[k].prog \in AllPrograms
              /\ proglst[k].x \in Nat
         /\ DOMAIN xprts = 1 .. Len(xprts) /\ Len(xprts) \in Nat
         /\ DOMAIN xprtlist = 1 .. Len(xprtlist) /\ Len(xprtlist) \in Nat
         /\ DOMAIN proglst = 1 .. Len(proglst) /\ Len(proglst) \in Nat
<1>1. /\ DOMAIN xprts = 1 .. Len(xprts) /\ Len(xprts) \in Nat
      /\ DOMAIN xprtlist = 1 .. Len(xprtlist) /\ Len(xprtlist) \in Nat
      /\ DOMAIN proglst = 1 .. Len(proglst) /\ Len(proglst) \in Nat
  BY LenProperties DEF RegTypes
<1>2. \A w \in 1 .. Len(xprts) : xprts[w] \in [netid : Registering!Netids, fd : Registering!Fds, live : BOOLEAN]
  BY ElementOfSeq DEF RegTypes
<1>3. \A k \in 1 .. Len(proglst) :
        proglst[k] \in [prog : AllPrograms, proc : Procs, netid : Registering!Netids, x : Nat, routine : Nat]
  BY ElementOfSeq DEF RegTypes
<1> QED BY <1>1, <1>2, <1>3

LEMMA RegThreadOk ==
  ASSUME Registering!GenericAssumption, GenericSafe, NEW t \in Threads
  PROVE  /\ th[t] \in RegThread /\ th[t].ok \subseteq Registering!Netids
         /\ th[t].op \in Registers => th[t].prog \in AllPrograms
         /\ th[t].ok /= {} \/ th[t].pc \in Working \cup {"find", "getconf"} => th[t].op \in Registers
         /\ th[t].pc \in Working \cup {"find"} => Registering!netid(t) \in Registering!Netids /\ th[t].i \in 1 .. Len(Netconf)
<1>1. th[t] \in RegThread /\ WorksOn(t)
  BY DEF GenericSafe, RegTypes
<1>2. th[t].ok \subseteq Registering!Netids /\ th[t].i \in 0 .. Len(Netconf)
  BY <1>1 DEF RegThread
<1>3. th[t].op \in Registers => th[t].prog \in AllPrograms
  BY <1>1 DEF WorksOn, Registers, AllPrograms
<1>4. th[t].ok /= {} \/ th[t].pc \in Working \cup {"find", "getconf"} => th[t].op \in Registers
  BY <1>1 DEF WorksOn, Working
<1>5. th[t].pc \in Working \cup {"find"} => th[t].i \in 1 .. Len(Netconf)
  BY <1>1, <1>2, RegSize DEF WorksOn
<1>6. th[t].pc \in Working \cup {"find"} => Registering!netid(t) \in Registering!Netids
  BY <1>5, RegSize DEF Registering!netid
<1> QED BY <1>1, <1>2, <1>3, <1>4, <1>5, <1>6

(* Nobody breaks another's promises.                                       *)
LEMMA PromisesStay ==
  ASSUME Registering!GenericAssumption, GenericSafe, AllPromised, NEW t \in Threads, NEW f, th' = [th EXCEPT ![t] = f],
         gen_callouts \subseteq gen_callouts',
         \A k \in DOMAIN proglst : \E j \in DOMAIN proglst' : proglst'[j] = proglst[k],
         \A p \in AllPrograms, n \in Registering!Netids :
           rpcb[<<p, n>>] /= 0 \/ Resetting(t, p, n) => rpcb'[<<p, n>>] /= 0 \/ Resetting(t, p, n)'
  PROVE  /\ \A p \in AllPrograms, n \in Registering!Netids :
              \A d : Promised(p, n, d) => Promised(p, n, d)'
         /\ \A u \in Threads \ {t} : Promises(u)'
<1>1. th'[t] = f /\ \A u \in Threads \ {t} : th'[u] = th[u]
  BY DEF GenericSafe, RegTypes
<1>2. \A u \in Threads \ {t}, p \in AllPrograms, n \in Registering!Netids : Resetting(u, p, n)' = Resetting(u, p, n)
  BY <1>1 DEF Resetting, Registering!netid
<1>3. ASSUME NEW p \in AllPrograms, NEW n \in Registering!Netids, NEW d, Promised(p, n, d)
      PROVE  Promised(p, n, d)'
  <2>1. rpcb'[<<p, n>>] /= 0 \/ \E u \in Threads : Resetting(u, p, n)'
    <3>1. CASE rpcb[<<p, n>>] /= 0 \/ Resetting(t, p, n)
      BY <3>1
    <3>2. CASE \E u \in Threads \ {t} : Resetting(u, p, n)
      BY <1>2, <3>2
    <3> QED BY <1>3, <3>1, <3>2 DEF Promised
  <2> QED BY <1>3, <2>1 DEF Promised
<1>4. ASSUME NEW u \in Threads \ {t}
      PROVE  Promises(u)'
  <2>1. Promises(u) /\ th'[u] = th[u] /\ Registering!netid(u)' = Registering!netid(u)
    BY <1>1 DEF AllPromised, Registering!netid
  <2>2. /\ th[u].ok \subseteq Registering!Netids /\ (th[u].ok /= {} => th[u].prog \in AllPrograms)
        /\ th[u].pc \in Working =>
             th[u].prog \in AllPrograms /\ Registering!netid(u) \in Registering!Netids
    BY RegThreadOk
  <2>3. Registering!already(u) => Registering!already(u)'
    BY <2>1 DEF Registering!already
  <2> QED BY <1>3, <1>4, <2>1, <2>2, <2>3 DEF Promises, Working
<1> QED BY <1>3, <1>4

LEMMA AllKept ==
  ASSUME Registering!GenericAssumption, GenericSafe, AllPromised, NEW t \in Threads, NEW f, th' = [th EXCEPT ![t] = f],
         gen_callouts \subseteq gen_callouts', UNCHANGED <<proglst, registered>>,
         \A c \in gen_callouts' \ gen_callouts :
           /\ c.prog \in Programs => c.disp \in Dispatches
           /\ c.prog \in SimplePrograms => c.disp = "universal",
         \A p \in AllPrograms, n \in Registering!Netids :
           rpcb[<<p, n>>] /= 0 \/ Resetting(t, p, n) => rpcb'[<<p, n>>] /= 0 \/ Resetting(t, p, n)',
         Promises(t)'
  PROVE  AllPromised'
<1>1. \A k \in DOMAIN proglst : \E j \in DOMAIN proglst' : proglst'[j] = proglst[k]
  OBVIOUS
<1>2. /\ \A p \in AllPrograms, n \in Registering!Netids : \A d : Promised(p, n, d) => Promised(p, n, d)'
      /\ \A u \in Threads \ {t} : Promises(u)'
  BY <1>1, PromisesStay
<1>3. \A k \in DOMAIN proglst : proglst[k].netid \in Registering!Netids /\ proglst[k].prog \in AllPrograms
  BY RegElements DEF GenericSafe
<1> QED BY <1>2, <1>3 DEF AllPromised

LEMMA BeginPromised ==
  ASSUME Registering!GenericAssumption, GenericSafe, AllPromised, Registering!Undisturbed,
         NEW t \in Threads, NEW f \in RegThread, Starts(t, f)
  PROVE  AllPromised'
<1>1. th'[t] = f /\ f.pc = "getconf" /\ f.ok = {} /\ th[t].pc = "idle"
  BY DEF GenericSafe, RegTypes, Starts, Registering!Undisturbed
<1>2. Promises(t)'
  BY <1>1 DEF Promises
<1> QED BY <1>1, <1>2, AllKept DEF Starts, Resetting

(* The next netid.                                                         *)
LEMMA RegGetconf ==
  ASSUME Registering!GenericAssumption, GenericInv, NEW t \in Threads, Registering!getconf(t)
  PROVE  GenericInv'
<1> USE DEF GenericInv
<1>1. PICK j \in 1 .. Len(Netconf) : th' = [th EXCEPT ![t] = [th[t] EXCEPT !.pc = "find", !.i = j]]
  <2>1. th[t].i \in 0 .. Len(Netconf)
    BY RegThreadOk DEF RegThread
  <2>2. Len(Netconf) \in Nat /\ th[t].i < Len(Netconf)
    BY RegSize DEF Registering!getconf
  <2>3. th[t].i + 1 \in 1 .. Len(Netconf)
    BY <2>1, <2>2
  <2> QED BY <2>3 DEF Registering!getconf, Registering!becomes
<1> DEFINE f == [th[t] EXCEPT !.pc = "find", !.i = j]
<1>2. th[t] \in RegThread /\ th[t].pc = "getconf" /\ WorksOn(t)
  BY RegThreadOk DEF Registering!getconf, Registering!at, GenericSafe
<1>3. /\ f.pc = "find" /\ f.i = j /\ f.op = th[t].op /\ f.prog = th[t].prog /\ f.disp = th[t].disp
      /\ f.proc = th[t].proc /\ f.ok = th[t].ok /\ f.made = th[t].made
  BY <1>2 DEF RegThread
<1>4. f \in RegThread
  <2>1. j \in 0 .. Len(Netconf)
    BY RegSize
  <2> QED BY <1>2, <2>1 DEF RegThread
<1>5. /\ UNCHANGED <<fds, xprts, xprtlist, proglst, gen_callouts, rpcb, registered, server, gen_calls>> /\ closed' = {}
      /\ xprtlist_lock' = (IF th[t].op = "svc_create" THEN t ELSE xprtlist_lock)
      /\ proglst_lock' = (IF th[t].op = "rpc_reg" THEN t ELSE proglst_lock)
      /\ th[t].op = "svc_create" => xprtlist_lock = "none"
      /\ th[t].op = "rpc_reg" => proglst_lock \in {"none", t}
  BY DEF Registering!getconf, Registering!regvars, Registering!free, Registering!NoThread
<1>6. t /= "none" /\ t /= "server" /\ \A u \in Threads : u /= "none" /\ u /= "server"
  BY DEF Registering!GenericAssumption
<1> HIDE DEF f
<1>7. th' = [th EXCEPT ![t] = f] /\ gen_calls' \in Nat /\ rpcb' \in [AllPrograms \X Registering!Netids -> Nat]
  BY <1>1, <1>5 DEF f, GenericSafe, RegTypes
<1>8. /\ RegTypes' /\ FdsOwned' /\ Listed' /\ ServerLock' /\ th'[t] = f
      /\ \A u \in Threads \ {t} : th'[u] = th[u] /\ HasLock(u)' /\ WorksOn(u)'
  BY <1>3, <1>4, <1>5, <1>6, <1>7, ThreadMoves DEF Working
<1>9. RpcbLive'
  <2>1. \A k \in AllPrograms \X Registering!Netids : rpcb'[k] \in {0, rpcb[k]}
    BY <1>5
  <2> QED BY <1>3, <1>4, <1>5, <1>7, <2>1, AddressesStay DEF Working
<1>10. HasLock(t)' /\ WorksOn(t)'
  BY <1>2, <1>3, <1>5, <1>8 DEF HasLock, WorksOn, Owns, Working
<1>11. GenericSafe'
  BY <1>5, <1>8, <1>9, <1>10 DEF GenericSafe
<1>12. ASSUME AllPromised PROVE AllPromised'
  <2>1. Promises(t)
    BY <1>12 DEF AllPromised
  <2>2. \A p \in AllPrograms, n \in Registering!Netids :
          rpcb[<<p, n>>] /= 0 \/ Resetting(t, p, n) => rpcb'[<<p, n>>] /= 0 \/ Resetting(t, p, n)'
    BY <1>2, <1>5 DEF Resetting
  <2>3. /\ \A p \in AllPrograms, n \in Registering!Netids : \A d : Promised(p, n, d) => Promised(p, n, d)'
    BY <1>5, <1>7, <1>12, <2>2, PromisesStay
  <2>4. Promises(t)'
    BY <1>3, <1>8, <2>1, <2>3, RegThreadOk DEF Promises
  <2> QED BY <1>5, <1>7, <1>12, <2>2, <2>4, AllKept
<1> QED BY <1>11, <1>12

(* A call returns, or svc_unreg does.                                      *)
LEMMA RegReturn ==
  ASSUME Registering!GenericAssumption, GenericInv, NEW t \in Threads,
         Registering!return(t) \/ Registering!unreg(t)
  PROVE  GenericInv'
<1> USE DEF GenericInv
<1>1. /\ th' = [th EXCEPT ![t] = Registering!Idle] /\ closed' = {}
      /\ UNCHANGED <<fds, xprts, xprtlist, proglst, rpcb, server, gen_calls, xprtlist_lock>>
      /\ proglst_lock' \in {proglst_lock} \cup (IF proglst_lock = t THEN {"none"} ELSE {})
  BY DEF Registering!return, Registering!unreg, Registering!regvars, Registering!becomes, Registering!unlocked,
    Registering!NoThread
<1>2. /\ Registering!Idle \in RegThread /\ Registering!Idle.pc = "idle" /\ Registering!Idle.op = "none"
      /\ Registering!Idle.i = 0 /\ ~Registering!Idle.made /\ Registering!Idle.ok = {}
  BY IdleThread
<1>3. t /= "none" /\ t /= "server"
  BY DEF Registering!GenericAssumption
<1>4. gen_calls' \in Nat /\ rpcb' \in [AllPrograms \X Registering!Netids -> Nat]
  BY <1>1 DEF GenericSafe, RegTypes
<1>5. /\ RegTypes' /\ FdsOwned' /\ Listed' /\ ServerLock' /\ th'[t] = Registering!Idle
      /\ \A u \in Threads \ {t} : th'[u] = th[u] /\ HasLock(u)' /\ WorksOn(u)'
  BY <1>1, <1>2, <1>3, <1>4, ThreadMoves DEF Working
<1>6. RpcbLive'
  <2>1. \A k \in AllPrograms \X Registering!Netids : rpcb'[k] \in {0, rpcb[k]}
    BY <1>1
  <2> QED BY <1>1, <1>2, <2>1, AddressesStay
<1>7. HasLock(t)' /\ WorksOn(t)'
  BY <1>2, <1>5 DEF HasLock, WorksOn, Owns, Working, Registers
<1>8. GenericSafe'
  BY <1>1, <1>5, <1>6, <1>7 DEF GenericSafe
<1>9. ASSUME AllPromised PROVE AllPromised'
  <2>1. Promises(t)
    BY <1>9 DEF AllPromised
  <2>2. /\ th[t].pc = "getconf" /\ UNCHANGED gen_callouts
        /\ registered' = registered \cup {[prog |-> th[t].prog, netid |-> n, disp |-> th[t].disp] : n \in th[t].ok}
    BY <2>1 DEF Promises, Registering!return, Registering!unreg, Registering!at, Registering!report, Registering!regvars
  <2>3. \A p \in AllPrograms, n \in Registering!Netids :
          rpcb[<<p, n>>] /= 0 \/ Resetting(t, p, n) => rpcb'[<<p, n>>] /= 0 \/ Resetting(t, p, n)'
    BY <1>1, <2>2 DEF Resetting
  <2>4. /\ \A p \in AllPrograms, n \in Registering!Netids : \A d : Promised(p, n, d) => Promised(p, n, d)'
        /\ \A u \in Threads \ {t} : Promises(u)'
    BY <1>1, <1>9, <2>2, <2>3, PromisesStay
  <2>5. Promises(t)'
    BY <1>2, <1>5 DEF Promises
  <2>6. ASSUME NEW r \in registered'
        PROVE  /\ r = [prog |-> r.prog, netid |-> r.netid, disp |-> r.disp]
               /\ r.prog \in AllPrograms /\ r.netid \in Registering!Netids
               /\ Promised(r.prog, r.netid, r.disp)'
    <3>1. CASE r \in registered
      BY <1>9, <2>4, <3>1 DEF AllPromised
    <3>2. ASSUME NEW n \in th[t].ok, r = [prog |-> th[t].prog, netid |-> n, disp |-> th[t].disp]
          PROVE  <2>6!2
      <4>1. r.prog = th[t].prog /\ r.netid = n /\ r.disp = th[t].disp
        BY <3>2
      <4>2. th[t].prog \in AllPrograms /\ n \in Registering!Netids
        BY RegThreadOk
      <4>3. Promised(th[t].prog, n, th[t].disp)
        BY <2>1 DEF Promises
      <4> QED BY <2>4, <3>2, <4>1, <4>2, <4>3
    <3> QED BY <2>2, <2>6, <3>1, <3>2
  <2>7. \A k \in DOMAIN proglst : proglst[k].netid \in Registering!Netids /\ proglst[k].prog \in AllPrograms
    BY RegElements DEF GenericSafe
  <2>8. (\A k \in DOMAIN proglst :
          proglst[k].prog \in SimplePrograms /\ Promised(proglst[k].prog, proglst[k].netid, "universal"))'
    BY <1>1, <1>9, <2>4, <2>7 DEF AllPromised
  <2>9. \A c \in gen_callouts' :
          /\ c.prog \in Programs => c.disp \in Dispatches
          /\ c.prog \in SimplePrograms => c.disp = "universal"
    BY <1>9, <2>2 DEF AllPromised
  <2> QED BY <2>4, <2>5, <2>6, <2>8, <2>9 DEF AllPromised
<1> QED BY <1>8, <1>9

(* A thread goes on with the transport it works with.                      *)
LEMMA WorksAlong ==
  ASSUME Registering!GenericAssumption, GenericSafe, NEW t \in Threads, NEW f \in RegThread,
         th' = [th EXCEPT ![t] = f], th[t].pc \in Working, f.pc \in Working,
         f.op = th[t].op, f.prog = th[t].prog, f.disp = th[t].disp, f.proc = th[t].proc,
         f.i = th[t].i, f.x = th[t].x, f.made = th[t].made, f.ok = th[t].ok,
         UNCHANGED <<fds, xprts, xprtlist, proglst, xprtlist_lock, proglst_lock, server, gen_calls>>, closed' = {},
         rpcb' \in [AllPrograms \X Registering!Netids -> Nat], RpcbLive'
  PROVE  GenericSafe' /\ th'[t] = f
<1>1. WorksOn(t) /\ HasLock(t)
  BY DEF GenericSafe
<1>2. \A u \in Threads \ {t} : f.pc \in Working /\ Owns(u) => f.x /= th[u].x
  BY DEF GenericSafe, WorksOn
<1>3. gen_calls' \in Nat
  BY DEF GenericSafe, RegTypes
<1>4. /\ RegTypes' /\ FdsOwned' /\ Listed' /\ ServerLock' /\ th'[t] = f
      /\ \A u \in Threads \ {t} : th'[u] = th[u] /\ HasLock(u)' /\ WorksOn(u)'
  BY <1>2, <1>3, ThreadMoves
<1>5. HasLock(t)'
  BY <1>1, <1>4 DEF HasLock
<1>6. WorksOn(t)'
  <2>1. Owns(t)' = Owns(t) /\ InLists(th[t].x)' = InLists(th[t].x) /\ Registering!netid(t)' = Registering!netid(t)
    BY <1>4 DEF Owns, InLists, Registering!netid
  <2>2. Owns(t) => ~InLists(th[t].x)' /\ \A v \in Threads : v /= t /\ th'[v].pc \in Working => th'[v].x /= th'[t].x
    BY <1>1, <1>4, <2>1 DEF WorksOn
  <2>3. LiveOf(th[t].x, Registering!netid(t)) => LiveOf(th[t].x, Registering!netid(t))'
    BY <1>4, <2>1 DEF LiveOf
  <2>4. /\ th'[t].pc \in Working /\ th[t].pc \in Working /\ th'[t].op = th[t].op /\ th'[t].prog = th[t].prog
        /\ th'[t].disp = th[t].disp /\ th'[t].proc = th[t].proc /\ th'[t].i = th[t].i
        /\ th'[t].x = th[t].x /\ th'[t].made = th[t].made /\ th'[t].ok = th[t].ok
    BY <1>4
  <2>5. LiveOf(th[t].x, Registering!netid(t))' /\ (th[t].made \/ th[t].op /= "svc_tp_create")'
    BY <1>1, <2>3, <2>4 DEF WorksOn
  <2>6. (th[t].op = "svc_create" =>
          IF th[t].made THEN \A k \in DOMAIN xprtlist : xprts[xprtlist[k]].netid /= Registering!netid(t)
          ELSE \E k \in DOMAIN xprtlist : xprtlist[k] = th[t].x)'
    BY <1>1, <2>1, <2>4 DEF WorksOn
  <2>7. (th[t].op = "rpc_reg" =>
          IF th[t].made THEN \A k \in DOMAIN proglst : proglst[k].netid /= Registering!netid(t)
          ELSE \E k \in DOMAIN proglst : proglst[k].netid = Registering!netid(t) /\ proglst[k].x = th[t].x)'
    BY <1>1, <2>1, <2>4 DEF WorksOn
  <2>8. (/\ IF th[t].op \in Registers THEN th[t].pc \in Working \cup {"find", "getconf"}
           ELSE th[t].ok = {} /\ th[t].pc \in {"idle", "unreg"}
         /\ th[t].op \in {"svc_create", "svc_tp_create"} => th[t].prog \in Programs /\ th[t].disp \in Dispatches
         /\ th[t].op = "rpc_reg" => th[t].prog \in SimplePrograms /\ th[t].disp = "universal" /\ th[t].proc \in Procs
         /\ th[t].pc \in Working \cup {"find"} => th[t].i /= 0)'
    BY <1>1, <2>4 DEF WorksOn, Working
  <2> QED BY <2>1, <2>2, <2>4, <2>5, <2>6, <2>7, <2>8 DEF WorksOn
<1> QED BY <1>4, <1>5, <1>6 DEF GenericSafe

LEMMA RegUnset ==
  ASSUME Registering!GenericAssumption, GenericInv, NEW t \in Threads, Registering!rpcb_unset(t)
  PROVE  GenericInv'
<1> USE DEF GenericInv
<1> DEFINE f == [th[t] EXCEPT !.pc = "reg", !.set = ~Registering!already(t)]
           a == <<th[t].prog, Registering!netid(t)>>
<1>1. /\ th' = [th EXCEPT ![t] = f] /\ th[t].pc = "unset" /\ closed' = {}
      /\ rpcb' = IF Registering!already(t) THEN rpcb ELSE [rpcb EXCEPT ![a] = 0]
      /\ UNCHANGED <<fds, xprts, xprtlist, proglst, xprtlist_lock, proglst_lock, gen_callouts, registered, server, gen_calls>>
  BY DEF Registering!rpcb_unset, Registering!becomes, Registering!at, Registering!Nowhere
<1>2. th[t] \in RegThread /\ WorksOn(t) /\ a \in AllPrograms \X Registering!Netids
  BY <1>1, RegThreadOk DEF GenericSafe, Working
<1>3. Registering!already(t) \in BOOLEAN
  BY DEF Registering!already
<1>4. /\ f \in RegThread /\ f.pc = "reg" /\ f.set = ~Registering!already(t)
      /\ f.op = th[t].op /\ f.prog = th[t].prog /\ f.disp = th[t].disp /\ f.proc = th[t].proc
      /\ f.i = th[t].i /\ f.x = th[t].x /\ f.made = th[t].made /\ f.ok = th[t].ok
  BY <1>2, <1>3 DEF RegThread, Working
<1> HIDE DEF f, a
<1>5. rpcb \in [AllPrograms \X Registering!Netids -> Nat]
  BY DEF GenericSafe, RegTypes
<1>6. rpcb' \in [AllPrograms \X Registering!Netids -> Nat]
  BY <1>1, <1>5
<1>7. /\ \A k \in AllPrograms \X Registering!Netids : rpcb'[k] \in {0, rpcb[k]}
      /\ \A k \in AllPrograms \X Registering!Netids : (k = a /\ ~Registering!already(t)) \/ rpcb'[k] = rpcb[k]
  BY <1>1, <1>2, <1>5
<1>8. RpcbLive'
  BY <1>1, <1>4, <1>7, AddressesStay DEF Owns, Working
<1>9. GenericSafe' /\ th'[t] = f
  BY <1>1, <1>4, <1>6, <1>8, WorksAlong DEF Working
<1>10. ASSUME AllPromised PROVE AllPromised'
  <2>1. Promises(t)
    BY <1>10 DEF AllPromised
  <2>2. ASSUME NEW p \in AllPrograms, NEW n \in Registering!Netids, rpcb[<<p, n>>] /= 0 \/ Resetting(t, p, n)
        PROVE  rpcb'[<<p, n>>] /= 0 \/ Resetting(t, p, n)'
    <3>1. CASE rpcb'[<<p, n>>] = rpcb[<<p, n>>]
      BY <1>1, <2>2, <3>1 DEF Resetting
    <3>2. CASE <<p, n>> = a /\ ~Registering!already(t)
      BY <1>1, <1>4, <1>9, <3>2 DEF Resetting, a, Registering!netid
    <3> QED BY <1>7, <3>1, <3>2
  <2>3. \A p \in AllPrograms, n \in Registering!Netids : \A d : Promised(p, n, d) => Promised(p, n, d)'
    BY <1>1, <1>10, <2>2, PromisesStay
  <2>4. Registering!already(t)' = Registering!already(t)
    BY <1>1, <1>4, <1>9 DEF Registering!already, Registering!netid
  <2>5. Promises(t)'
    BY <1>4, <1>9, <2>1, <2>3, <2>4, RegThreadOk DEF Promises
  <2> QED BY <1>1, <1>10, <2>2, <2>5, AllKept
<1> QED BY <1>9, <1>10

LEMMA RegReg ==
  ASSUME Registering!GenericAssumption, GenericInv, NEW t \in Threads, Registering!svc_reg(t)
  PROVE  GenericInv'
<1> USE DEF GenericInv
<1> DEFINE c0 == [prog |-> th[t].prog, netid |-> Registering!netid(t), disp |-> th[t].disp]
           conflict == \E c \in Registering!found(t) : c.disp /= th[t].disp
<1>1. /\ th[t].pc = "reg" /\ closed' = {}
      /\ UNCHANGED <<fds, xprts, xprtlist, proglst, xprtlist_lock, proglst_lock, rpcb, registered, server, gen_calls>>
      /\ \/ conflict /\ gen_callouts' = gen_callouts /\ th' = [th EXCEPT ![t] = [th[t] EXCEPT !.pc = "failed"]]
         \/ /\ ~conflict /\ gen_callouts' = gen_callouts \cup {c0}
            /\ th' = [th EXCEPT ![t] = [th[t] EXCEPT !.pc = IF th[t].set THEN "set" ELSE "done"]]
  BY DEF Registering!svc_reg, Registering!becomes, Registering!at
<1>2. PICK q \in {"failed", "set", "done"} :
        /\ th' = [th EXCEPT ![t] = [th[t] EXCEPT !.pc = q]]
        /\ (q = "failed" /\ conflict /\ gen_callouts' = gen_callouts)
           \/ (q = (IF th[t].set THEN "set" ELSE "done") /\ ~conflict /\ gen_callouts' = gen_callouts \cup {c0})
  <2>1. CASE conflict /\ gen_callouts' = gen_callouts /\ th' = [th EXCEPT ![t] = [th[t] EXCEPT !.pc = "failed"]]
    BY <2>1
  <2>2. CASE /\ ~conflict /\ gen_callouts' = gen_callouts \cup {c0}
             /\ th' = [th EXCEPT ![t] = [th[t] EXCEPT !.pc = IF th[t].set THEN "set" ELSE "done"]]
    BY <2>2
  <2> QED BY <1>1, <2>1, <2>2
<1> DEFINE f == [th[t] EXCEPT !.pc = q]
<1>3. th[t] \in RegThread /\ WorksOn(t)
  BY RegThreadOk DEF GenericSafe
<1>4. /\ f \in RegThread /\ f.pc = q /\ f.set = th[t].set
      /\ f.op = th[t].op /\ f.prog = th[t].prog /\ f.disp = th[t].disp /\ f.proc = th[t].proc
      /\ f.i = th[t].i /\ f.x = th[t].x /\ f.made = th[t].made /\ f.ok = th[t].ok
  BY <1>3 DEF RegThread, Working
<1>5. th' = [th EXCEPT ![t] = f]
  BY <1>2
<1> HIDE DEF f, c0, conflict
<1>6. rpcb' \in [AllPrograms \X Registering!Netids -> Nat]
      /\ \A k \in AllPrograms \X Registering!Netids : rpcb'[k] \in {0, rpcb[k]}
  BY <1>1 DEF GenericSafe, RegTypes
<1>7. RpcbLive'
  BY <1>1, <1>4, <1>5, <1>6, AddressesStay DEF Owns, Working
<1>8. GenericSafe' /\ th'[t] = f
  BY <1>1, <1>4, <1>5, <1>6, <1>7, WorksAlong DEF Working
<1>9. ASSUME AllPromised, Registering!Undisturbed PROVE AllPromised'
  <2>1. Promises(t) /\ th[t].prog \in AllPrograms /\ Registering!netid(t) \in Registering!Netids
    BY <1>1, <1>9, RegThreadOk DEF AllPromised, Working
  <2>2. /\ th[t].prog \in Programs => th[t].disp \in Dispatches
        /\ th[t].prog \in SimplePrograms => th[t].disp = "universal"
    BY <1>1, <1>3, <1>9 DEF WorksOn, Registers, Working, Registering!Undisturbed
  <2>3. ~conflict
    <3> SUFFICES ASSUME NEW c \in gen_callouts, c.prog = th[t].prog PROVE c.disp = th[t].disp
      BY DEF conflict, Registering!found
    <3> QED BY <1>9, <2>1, <2>2 DEF AllPromised, Registering!Undisturbed, AllPrograms
  <2>4. q = (IF th[t].set THEN "set" ELSE "done") /\ gen_callouts' = gen_callouts \cup {c0}
    BY <1>2, <2>3
  <2>5. \A p \in AllPrograms, n \in Registering!Netids :
          rpcb[<<p, n>>] /= 0 \/ Resetting(t, p, n) => rpcb'[<<p, n>>] /= 0 \/ Resetting(t, p, n)'
    BY <1>1, <1>4, <1>8, <2>4 DEF Resetting, Registering!netid
  <2>6. \A p \in AllPrograms, n \in Registering!Netids : \A d : Promised(p, n, d) => Promised(p, n, d)'
    BY <1>1, <1>5, <1>9, <2>4, <2>5, PromisesStay
  <2>7. Registering!netid(t)' = Registering!netid(t)
    BY <1>4, <1>8 DEF Registering!netid
  <2>8. q = "done" => Promised(th[t].prog, Registering!netid(t), th[t].disp)'
    <3>1. SUFFICES ASSUME q = "done" PROVE Promised(th[t].prog, Registering!netid(t), th[t].disp)'
      OBVIOUS
    <3>2. Registering!already(t)
      BY <1>1, <2>1, <2>4, <3>1 DEF Promises
    <3>3. PICK k \in DOMAIN proglst : proglst[k].prog = th[t].prog /\ proglst[k].netid = Registering!netid(t)
      BY <3>2 DEF Registering!already
    <3>4. th[t].disp = "universal"
      BY <1>3, <3>2 DEF WorksOn, Registering!already
    <3>5. Promised(th[t].prog, Registering!netid(t), th[t].disp)
      BY <1>9, <3>3, <3>4 DEF AllPromised
    <3>6. PICK p \in AllPrograms, n \in Registering!Netids : p = th[t].prog /\ n = Registering!netid(t)
      BY <2>1
    <3>7. PICK d : d = th[t].disp
      OBVIOUS
    <3>8. Promised(p, n, d)'
      BY <2>6, <3>5, <3>6, <3>7
    <3>9. p = th'[t].prog /\ n = Registering!netid(t)' /\ d = th'[t].disp
      BY <1>4, <1>8, <2>7, <3>6, <3>7
    <3> QED BY <3>8, <3>9
  <2>9. q = "set" => th[t].set
    BY <2>4
  <2>10. Promises(t)'
    BY <1>4, <1>8, <2>1, <2>4, <2>6, <2>7, <2>8, <2>9, RegThreadOk DEF Promises, c0
  <2>11. \A c \in gen_callouts' \ gen_callouts :
           /\ c.prog \in Programs => c.disp \in Dispatches
           /\ c.prog \in SimplePrograms => c.disp = "universal"
    BY <2>2, <2>4 DEF c0
  <2> QED BY <1>1, <1>5, <1>9, <2>4, <2>5, <2>10, <2>11, AllKept
<1> QED BY <1>8, <1>9

LEMMA RegSet ==
  ASSUME Registering!GenericAssumption, GenericInv, NEW t \in Threads, Registering!rpcb_set(t)
  PROVE  GenericInv'
<1> USE DEF GenericInv
<1> DEFINE a == <<th[t].prog, Registering!netid(t)>>
           set == rpcb' = [rpcb EXCEPT ![a] = th[t].x]
<1>1. /\ th[t].pc = "set" /\ closed' = {}
      /\ UNCHANGED <<fds, xprts, xprtlist, proglst, xprtlist_lock, proglst_lock, gen_callouts, registered, server, gen_calls>>
      /\ \/ set /\ th' = [th EXCEPT ![t] = [th[t] EXCEPT !.pc = "done"]]
         \/ /\ rpcb[a] \notin {0, th[t].x} \/ "rpcb" \in Faults
            /\ rpcb' = rpcb /\ th' = [th EXCEPT ![t] = [th[t] EXCEPT !.pc = "failed"]]
  BY DEF Registering!rpcb_set, Registering!becomes, Registering!at, Registering!Nowhere, Registering!may
<1>2. PICK q \in {"failed", "done"} :
        /\ th' = [th EXCEPT ![t] = [th[t] EXCEPT !.pc = q]]
        /\ \/ q = "done" /\ set
           \/ q = "failed" /\ rpcb' = rpcb /\ (rpcb[a] \notin {0, th[t].x} \/ "rpcb" \in Faults)
  BY <1>1
<1> DEFINE f == [th[t] EXCEPT !.pc = q]
<1>3. th[t] \in RegThread /\ WorksOn(t) /\ a \in AllPrograms \X Registering!Netids
  BY <1>1, RegThreadOk DEF GenericSafe, Working
<1>4. /\ f \in RegThread /\ f.pc = q /\ f.set = th[t].set
      /\ f.op = th[t].op /\ f.prog = th[t].prog /\ f.disp = th[t].disp /\ f.proc = th[t].proc
      /\ f.i = th[t].i /\ f.x = th[t].x /\ f.made = th[t].made /\ f.ok = th[t].ok
  BY <1>3 DEF RegThread, Working
<1>5. th' = [th EXCEPT ![t] = f]
  BY <1>2
<1>6. LiveOf(th[t].x, Registering!netid(t)) /\ th[t].x \in Nat /\ th[t].x /= 0
  <2>1. LiveOf(th[t].x, Registering!netid(t))
    BY <1>1, <1>3 DEF WorksOn, Working
  <2>2. th[t].x \in 1 .. Len(xprts) /\ Len(xprts) \in Nat
    BY <2>1, RegElements DEF LiveOf, GenericSafe
  <2> QED BY <2>1, <2>2
<1>7. rpcb \in [AllPrograms \X Registering!Netids -> Nat]
  BY DEF GenericSafe, RegTypes
<1> HIDE DEF f, set
<1>8. /\ rpcb' \in [AllPrograms \X Registering!Netids -> Nat]
      /\ \A k \in AllPrograms \X Registering!Netids : k /= a => rpcb'[k] = rpcb[k]
      /\ q = "done" => rpcb'[a] = th[t].x
  BY <1>2, <1>3, <1>6, <1>7 DEF set
<1> HIDE DEF a
<1>9. \A u \in Threads : th'[u] = IF u = t THEN f ELSE th[u]
  BY <1>5 DEF GenericSafe, RegTypes
<1>10. RpcbLive'
  <2>1. CASE q = "failed"
    <3>1. \A k \in AllPrograms \X Registering!Netids : rpcb'[k] \in {0, rpcb[k]}
      BY <1>2, <2>1
    <3> QED BY <1>1, <1>4, <1>5, <3>1, AddressesStay DEF Owns, Working
  <2>2. CASE q = "done"
    <3> SUFFICES ASSUME NEW p \in AllPrograms, NEW n \in Registering!Netids, rpcb'[<<p, n>>] /= 0
                 PROVE  /\ LiveOf(rpcb[<<p, n>>], n)'
                        /\ \A u \in Threads : Owns(u)' /\ th'[u].pc /= "done" => th'[u].x /= rpcb'[<<p, n>>]
      BY DEF RpcbLive
    <3>1. CASE <<p, n>> = a
      <4>1. n = Registering!netid(t) /\ rpcb'[<<p, n>>] = th[t].x
        BY <1>8, <2>2, <3>1 DEF a
      <4>2. LiveOf(rpcb[<<p, n>>], n)'
        BY <1>1, <1>6, <4>1 DEF LiveOf
      <4>3. ASSUME NEW u \in Threads, Owns(u)', th'[u].pc /= "done" PROVE th'[u].x /= th[t].x
        <5>1. u /= t /\ th'[u] = th[u]
          BY <1>4, <1>9, <2>2, <4>3
        <5>2. Owns(u) /\ WorksOn(u)
          BY <4>3, <5>1 DEF Owns, GenericSafe
        <5> QED BY <1>1, <5>1, <5>2 DEF WorksOn, Working
      <4> QED BY <4>1, <4>2, <4>3
    <3>2. CASE <<p, n>> /= a
      <4>1. rpcb'[<<p, n>>] = rpcb[<<p, n>>]
        BY <1>8, <3>2
      <4>2. /\ LiveOf(rpcb[<<p, n>>], n)
            /\ \A u \in Threads : Owns(u) /\ th[u].pc /= "done" => th[u].x /= rpcb[<<p, n>>]
        BY <4>1 DEF GenericSafe, RpcbLive
      <4>3. LiveOf(rpcb[<<p, n>>], n)'
        BY <1>1, <4>1, <4>2 DEF LiveOf
      <4>4. ASSUME NEW u \in Threads, Owns(u)', th'[u].pc /= "done" PROVE th'[u].x /= rpcb[<<p, n>>]
        <5>1. u /= t /\ th'[u] = th[u]
          BY <1>4, <1>9, <2>2, <4>4
        <5> QED BY <4>2, <4>4, <5>1 DEF Owns
      <4> QED BY <4>1, <4>3, <4>4
    <3> QED BY <3>1, <3>2
  <2> QED BY <2>1, <2>2
<1>11. GenericSafe' /\ th'[t] = f
  BY <1>1, <1>4, <1>5, <1>8, <1>10, WorksAlong DEF Working
<1>12. ASSUME AllPromised, Registering!Undisturbed PROVE AllPromised'
  <2>1. Promises(t) /\ th[t].prog \in AllPrograms /\ Registering!netid(t) \in Registering!Netids
    BY <1>1, <1>12, RegThreadOk DEF AllPromised, Working
  <2>2. rpcb'[a] /= 0
    <3>1. CASE q = "done"
      BY <1>6, <1>8, <3>1
    <3>2. CASE q = "failed"
      BY <1>2, <1>12, <3>2 DEF Registering!Undisturbed
    <3> QED BY <3>1, <3>2
  <2>3. ASSUME NEW p \in AllPrograms, NEW n \in Registering!Netids, rpcb[<<p, n>>] /= 0 \/ Resetting(t, p, n)
        PROVE  rpcb'[<<p, n>>] /= 0 \/ Resetting(t, p, n)'
    <3>1. CASE <<p, n>> = a
      BY <2>2, <3>1
    <3>2. CASE <<p, n>> /= a
      <4>1. rpcb'[<<p, n>>] = rpcb[<<p, n>>]
        BY <1>8, <3>2
      <4>2. ~Resetting(t, p, n)
        BY <3>2 DEF a, Resetting
      <4> QED BY <2>3, <4>1, <4>2
    <3> QED BY <3>1, <3>2
  <2>4. \A p \in AllPrograms, n \in Registering!Netids : \A d : Promised(p, n, d) => Promised(p, n, d)'
    BY <1>1, <1>5, <1>12, <2>3, PromisesStay
  <2>5. Registering!netid(t)' = Registering!netid(t)
    BY <1>4, <1>11 DEF Registering!netid
  <2>6. q = "done" => Promised(th[t].prog, Registering!netid(t), th[t].disp)'
    BY <1>1, <1>4, <1>11, <2>1, <2>2, <2>5 DEF Promises, Promised, a
  <2>7. Promises(t)'
    BY <1>4, <1>11, <2>1, <2>4, <2>5, <2>6, RegThreadOk DEF Promises
  <2> QED BY <1>1, <1>5, <1>12, <2>3, <2>7, AllKept
<1> QED BY <1>11, <1>12

(* The descriptor the kernel gives next.                                   *)
LEMMA LowestFree ==
  ASSUME Registering!GenericAssumption
  PROVE  Registering!lowest = -1 \/ (Registering!lowest \in Registering!Fds /\ fds[Registering!lowest] = "free")
<1> DEFINE S == {f \in Registering!Fds : fds[f] = "free"}
<1>1. CASE S = {}
  BY <1>1 DEF Registering!lowest
<1>2. CASE S /= {}
  <2>1. S \subseteq Nat /\ Descriptors \in Nat
    BY DEF Registering!Fds, Registering!GenericAssumption
  <2>2. \E k \in S : \A j \in S : ~(<<j, k>> \in OpToRel(<, Nat))
    BY <1>2, <2>1, NatLessThanWellFounded, WFMin
  <2>3. PICK k \in S : \A j \in S : ~(j < k)
    BY <2>1, <2>2 DEF OpToRel
  <2>4. \A g \in 0 .. k - 1 : fds[g] /= "free"
    BY <2>1, <2>3 DEF Registering!Fds
  <2>5. k \in Registering!Fds /\ fds[k] = "free"
    OBVIOUS
  <2> QED BY <2>4, <2>5 DEF Registering!lowest
<1> QED BY <1>1, <1>2

LEMMA TliOutcome ==
  ASSUME Registering!GenericAssumption, FdsOwned, NEW n, ~Registering!odd(n), NEW o \in Registering!tli_outcomes(n)
  PROVE  \/ ~o.made /\ o.fd = -1
         \/ o.made \in BOOLEAN /\ o.fd \in Registering!Fds /\ fds[o.fd] = "free"
<1>1. CASE Registering!lowest = -1
  BY <1>1 DEF Registering!tli_outcomes
<1>2. CASE Registering!lowest /= -1
  <2>1. Registering!lowest \in Registering!Fds /\ fds[Registering!lowest] = "free"
    BY <1>2, LowestFree
  <2>2. \/ o = [fd |-> -1, made |-> FALSE]
        \/ o \in [fd : {Registering!lowest}, made : {m \in BOOLEAN : IF m THEN n /= "local"
             ELSE n = "local" \/ Registering!may("bind") \/ Registering!may("xprt")}]
    BY <1>2 DEF Registering!tli_outcomes
  <2> QED BY <2>1, <2>2
<1> QED BY <1>1, <1>2

(* A transport is made, or an attempt leaves everything as it was.         *)
LEMMA NewTransport ==
  ASSUME Registering!GenericAssumption, GenericSafe, NEW fd1 \in Registering!Fds, fds[fd1] = "free", NEW n \in Registering!Netids,
         fds' = [fds EXCEPT ![fd1] = "lib"],
         xprts' = Append(xprts, [netid |-> n, fd |-> fd1, live |-> TRUE])
  PROVE  /\ FdsOwned' /\ XprtsStay /\ Len(xprts) + 1 \notin DOMAIN xprts /\ Len(xprts) + 1 \in Nat
         /\ xprts' \in Seq([netid : Registering!Netids, fd : Registering!Fds, live : BOOLEAN])
         /\ Len(xprts) + 1 \in DOMAIN xprts'
         /\ xprts'[Len(xprts) + 1].live /\ xprts'[Len(xprts) + 1].netid = n
<1> DEFINE e == [netid |-> n, fd |-> fd1, live |-> TRUE]
           z == Len(xprts) + 1
           T == [netid : Registering!Netids, fd : Registering!Fds, live : BOOLEAN]
<1>1. xprts \in Seq(T) /\ e \in T
  BY DEF GenericSafe, RegTypes
<1>2. DOMAIN xprts = 1 .. Len(xprts) /\ Len(xprts) \in Nat
  BY RegElements DEF GenericSafe
<1>3. xprts' \in Seq(T) /\ Len(xprts') = z /\ \A w \in 1 .. z : xprts'[w] = IF w = z THEN e ELSE xprts[w]
  BY <1>1, <1>2, AppendProperties
<1>4. z \in Nat /\ z \notin DOMAIN xprts /\ DOMAIN xprts' = DOMAIN xprts \cup {z}
  BY <1>2, <1>3, LenProperties
<1>5. xprts'[z] = e /\ \A w \in DOMAIN xprts : w \in DOMAIN xprts' /\ xprts'[w] = xprts[w]
  BY <1>2, <1>3, <1>4
<1>6. e.netid = n /\ e.fd = fd1 /\ e.live
  OBVIOUS
<1> HIDE DEF e, z, T
<1>7. FdsOwned'
  <2>1. FdsOwned
    BY DEF GenericSafe
  <2>2. fds' \in [Registering!Fds -> {"free", "app", "lib"}] /\ fds'[fd1] = "lib"
        /\ \A g \in Registering!Fds \ {fd1} : fds'[g] = fds[g]
    BY <2>1 DEF FdsOwned
  <2>3. \A w \in DOMAIN xprts : xprts[w].fd \in Registering!Fds /\ (xprts[w].live => xprts[w].fd /= fd1)
    BY <2>1, RegElements DEF FdsOwned, GenericSafe
  <2>4. (\A w \in DOMAIN xprts : xprts[w].live => fds[xprts[w].fd] = "lib")'
    BY <1>4, <1>5, <1>6, <2>1, <2>2, <2>3 DEF FdsOwned
  <2>5. (\A w, v \in DOMAIN xprts : xprts[w].live /\ xprts[v].live /\ xprts[w].fd = xprts[v].fd => w = v)'
    BY <1>4, <1>5, <1>6, <2>1, <2>3 DEF FdsOwned
  <2>6. ASSUME NEW g \in Registering!Fds, fds'[g] = "lib"
        PROVE  \E w \in DOMAIN xprts' : xprts'[w].live /\ xprts'[w].fd = g
    <3>1. CASE g = fd1
      BY <1>4, <1>5, <1>6, <3>1
    <3>2. CASE g /= fd1
      <4>1. PICK w \in DOMAIN xprts : xprts[w].live /\ xprts[w].fd = g
        BY <2>1, <2>2, <2>6, <3>2 DEF FdsOwned
      <4> QED BY <1>5, <4>1
    <3> QED BY <3>1, <3>2
  <2> QED BY <2>2, <2>4, <2>5, <2>6 DEF FdsOwned
<1>8. z \in DOMAIN xprts' /\ xprts'[z].live /\ xprts'[z].netid = n
  BY <1>4, <1>5, <1>6
<1> QED BY <1>3, <1>4, <1>5, <1>7, <1>8 DEF XprtsStay, z, T

(* The transport for a netid is found, made, or there is none.             *)
Goes(t, f) ==
  /\ th' = [th EXCEPT ![t] = f] /\ closed' = {}
  /\ f.op = th[t].op /\ f.prog = th[t].prog /\ f.disp = th[t].disp /\ f.proc = th[t].proc /\ f.i = th[t].i
Opens(fd1, n) ==
  /\ fds[fd1] = "free" /\ fds' = [fds EXCEPT ![fd1] = "lib"]
  /\ xprts' = Append(xprts, [netid |-> n, fd |-> fd1, live |-> TRUE])
Finds(t, f) ==
  /\ Goes(t, f) /\ f.ok = th[t].ok
  /\ \/ /\ f.pc = "unset" /\ ~f.made /\ f.x \in Registering!known(t, Registering!netid(t))
        /\ UNCHANGED <<fds, xprts, xprtlist_lock>>
     \/ /\ f.pc = "unset" /\ f.made /\ f.x = Len(xprts) + 1
        /\ Registering!known(t, Registering!netid(t)) = {} /\ UNCHANGED xprtlist_lock
        /\ \E fd1 \in Registering!Fds : Opens(fd1, Registering!netid(t))
     \/ /\ f.pc = "getconf" /\ ~f.made
        /\ UNCHANGED <<fds, xprts>>

LEMMA FindOutcome ==
  ASSUME RegisteringAssumption, GenericSafe, NEW t \in Threads, Registering!find(t)
  PROVE  \E f \in RegThread : Finds(t, f)
<1> DEFINE n == Registering!netid(t)
           K == Registering!known(t, n)
<1>1. Registering!GenericAssumption
  BY DEF RegisteringAssumption
<1>2. th[t] \in RegThread /\ n \in Registering!Netids /\ ~Registering!odd(n)
  BY <1>1, RegThreadOk DEF Registering!find, Registering!at, Working, RegisteringAssumption, Registering!KnownNetids
<1>3. Len(xprts) \in Nat /\ FdsOwned
  BY RegElements DEF GenericSafe
<1>4. CASE /\ K /= {} /\ UNCHANGED <<fds, xprts, xprtlist_lock>> /\ closed' = {}
           /\ th' = [th EXCEPT ![t] = [th[t] EXCEPT !.pc = "unset", !.x = CHOOSE w \in K : TRUE, !.made = FALSE]]
  <2> DEFINE w0 == CHOOSE w \in K : TRUE
             f == [th[t] EXCEPT !.pc = "unset", !.x = w0, !.made = FALSE]
  <2>1. w0 \in K
    BY <1>4
  <2>2. K \subseteq Nat
    <3>1. \A k \in DOMAIN xprtlist : xprtlist[k] \in Nat
      BY ElementOfSeq, LenProperties DEF GenericSafe, RegTypes
    <3>2. \A k \in DOMAIN proglst : proglst[k].x \in Nat
      BY RegElements DEF GenericSafe
    <3>3. K = CASE th[t].op = "svc_create" -> {xprtlist[k] : k \in {k \in DOMAIN xprtlist : xprts[xprtlist[k]].netid = n}}
                [] th[t].op = "rpc_reg" -> {proglst[k].x : k \in {k \in DOMAIN proglst : proglst[k].netid = n}}
                [] OTHER -> {}
      BY DEF Registering!known
    <3> QED BY <3>1, <3>2, <3>3
  <2>3. w0 \in Nat
    BY <2>1, <2>2
  <2> HIDE DEF w0, K, n
  <2>4. /\ f \in RegThread /\ f.pc = "unset" /\ f.x = w0 /\ ~f.made
        /\ f.op = th[t].op /\ f.prog = th[t].prog /\ f.disp = th[t].disp /\ f.proc = th[t].proc
        /\ f.i = th[t].i /\ f.ok = th[t].ok
    BY <1>2, <2>3 DEF RegThread, Working
  <2>5. th' = [th EXCEPT ![t] = f]
    BY <1>4 DEF w0, K, n
  <2> HIDE DEF f
  <2>6. Finds(t, f)
    BY <1>4, <2>1, <2>4, <2>5 DEF Finds, Goes, K, n
  <2> QED BY <2>4, <2>6
<1>5. ASSUME K = {}, NEW o \in Registering!tli_outcomes(n), Registering!svc_tli_create(n, o), o.made,
             xprtlist_lock' = xprtlist_lock,
             th' = [th EXCEPT ![t] = [th[t] EXCEPT !.pc = "unset", !.x = Len(xprts) + 1, !.made = TRUE]]
      PROVE  \E f \in RegThread : Finds(t, f)
  <2> DEFINE z == Len(xprts) + 1
             f == [th[t] EXCEPT !.pc = "unset", !.x = z, !.made = TRUE]
  <2>1. z \in Nat
    BY <1>3
  <2> HIDE DEF z
  <2>2. /\ f \in RegThread /\ f.pc = "unset" /\ f.x = z /\ f.made
        /\ f.op = th[t].op /\ f.prog = th[t].prog /\ f.disp = th[t].disp /\ f.proc = th[t].proc
        /\ f.i = th[t].i /\ f.ok = th[t].ok
    BY <1>2, <2>1 DEF RegThread, Working
  <2>3. th' = [th EXCEPT ![t] = f]
    BY <1>5 DEF z
  <2>4. o.fd \in Registering!Fds /\ fds[o.fd] = "free"
    BY <1>1, <1>2, <1>3, <1>5, TliOutcome
  <2>5. Opens(o.fd, n) /\ closed' = {}
    BY <1>5, <2>4 DEF Registering!svc_tli_create, Opens
  <2> HIDE DEF f
  <2>6. Finds(t, f)
    BY <1>5, <2>2, <2>3, <2>4, <2>5 DEF Finds, Goes, z
  <2> QED BY <2>2, <2>6
<1>6. ASSUME K = {}, NEW o \in Registering!tli_outcomes(n), Registering!svc_tli_create(n, o), ~o.made,
             Registering!skip_netid(t)
      PROVE  \E f \in RegThread : Finds(t, f)
  <2> DEFINE f == [th[t] EXCEPT !.pc = "getconf", !.made = FALSE]
  <2>1. /\ f \in RegThread /\ f.pc = "getconf" /\ ~f.made
        /\ f.op = th[t].op /\ f.prog = th[t].prog /\ f.disp = th[t].disp /\ f.proc = th[t].proc
        /\ f.i = th[t].i /\ f.ok = th[t].ok
    BY <1>2 DEF RegThread, Working
  <2>2. th' = [th EXCEPT ![t] = f]
    BY <1>6 DEF Registering!skip_netid, Registering!becomes
  <2>3. (o.fd = -1) \/ (o.fd \in Registering!Fds /\ fds[o.fd] = "free")
    BY <1>1, <1>2, <1>3, <1>6, TliOutcome
  <2>4. UNCHANGED <<fds, xprts>> /\ closed' = {}
    <3>1. CASE o.fd = -1
      BY <1>6, <3>1 DEF Registering!svc_tli_create
    <3>2. CASE o.fd \in Registering!Fds /\ fds[o.fd] = "free"
      <4>1. [fds EXCEPT ![o.fd] = "free"] = fds
        BY <1>3, <3>2 DEF FdsOwned
      <4>2. {g \in {o.fd} : fds[g] = "app"} = {}
        BY <3>2
      <4> QED BY <1>6, <3>2, <4>1, <4>2 DEF Registering!svc_tli_create, Registering!freedata
    <3> QED BY <2>3, <3>1, <3>2
  <2> HIDE DEF f
  <2>5. Finds(t, f)
    BY <2>1, <2>2, <2>4 DEF Finds, Goes
  <2> QED BY <2>1, <2>5
<1> QED
  BY <1>4, <1>5, <1>6 DEF Registering!find, Registering!becomes

(* Until it registers, a thread keeps the promises there are.              *)
LEMMA FindPromised ==
  ASSUME Registering!GenericAssumption, GenericSafe, AllPromised, NEW t \in Threads, NEW f,
         Goes(t, f), f.ok = th[t].ok, f.pc \in {"unset", "getconf"}, th[t].pc \in {"find", "failed"},
         UNCHANGED <<proglst, gen_callouts, rpcb, registered>>
  PROVE  AllPromised'
<1>1. th'[t] = f
  BY DEF GenericSafe, RegTypes, Goes
<1>2. \A p \in AllPrograms, n \in Registering!Netids :
        rpcb[<<p, n>>] /= 0 \/ Resetting(t, p, n) => rpcb'[<<p, n>>] /= 0 \/ Resetting(t, p, n)'
  BY DEF Resetting
<1>3. \A p \in AllPrograms, n \in Registering!Netids : \A d : Promised(p, n, d) => Promised(p, n, d)'
  BY <1>2, PromisesStay DEF Goes
<1>4. Promises(t)
  BY DEF AllPromised
<1>5. Promises(t)'
  BY <1>1, <1>3, <1>4, RegThreadOk DEF Promises, Goes
<1> QED BY <1>2, <1>5, AllKept DEF Goes

LEMMA RegFind ==
  ASSUME RegisteringAssumption, GenericInv, NEW t \in Threads, Registering!find(t)
  PROVE  GenericInv'
<1> USE DEF GenericInv
<1> DEFINE n == Registering!netid(t)
           known == Registering!known(t, n)
           z == Len(xprts) + 1
<1>1. Registering!GenericAssumption
  BY DEF RegisteringAssumption
<1>2. /\ th[t] \in RegThread /\ th[t].pc = "find" /\ WorksOn(t) /\ HasLock(t)
      /\ th[t].op \in Registers /\ n \in Registering!Netids
  BY <1>1, RegThreadOk DEF Registering!find, Registering!at, GenericSafe
<1>3. /\ UNCHANGED <<xprtlist, proglst, gen_callouts, rpcb, registered, server, gen_calls, proglst_lock>>
      /\ xprtlist_lock' \in {xprtlist_lock} \cup (IF xprtlist_lock = t THEN {"none"} ELSE {})
  BY DEF Registering!find, Registering!skip_netid, Registering!NoThread
<1>4. PICK f \in RegThread : Finds(t, f)
  BY FindOutcome
<1>5. th' = [th EXCEPT ![t] = f] /\ closed' = {} /\ f.i = th[t].i /\ f.op = th[t].op /\ f.prog = th[t].prog
      /\ f.disp = th[t].disp /\ f.proc = th[t].proc
  BY <1>4 DEF Finds, Goes
<1>6. th'[t] = f /\ Registering!netid(t)' = n /\ \A u \in Threads \ {t} : th'[u] = th[u]
  BY <1>5 DEF GenericSafe, RegTypes, Registering!netid
<1>7. gen_calls' \in Nat /\ rpcb' \in [AllPrograms \X Registering!Netids -> Nat]
  BY <1>3 DEF GenericSafe, RegTypes
<1>8. GenericSafe'
  <2>1. ASSUME f.pc = "unset", ~f.made, f.x \in known, UNCHANGED <<fds, xprts, xprtlist_lock>>
        PROVE  GenericSafe'
    <3>1. InLists(f.x) /\ LiveOf(f.x, n) /\ th[t].op /= "svc_tp_create"
          /\ (th[t].op = "svc_create" => \E k \in DOMAIN xprtlist : xprtlist[k] = f.x)
          /\ (th[t].op = "rpc_reg" => \E k \in DOMAIN proglst : proglst[k].netid = n /\ proglst[k].x = f.x)
      <4>1. CASE th[t].op = "svc_create"
        <5>1. PICK k \in DOMAIN xprtlist : xprts[xprtlist[k]].netid = n /\ f.x = xprtlist[k]
          BY <2>1, <4>1 DEF Registering!known
        <5> QED BY <4>1, <5>1 DEF GenericSafe, Listed, LiveOf, InLists
      <4>2. CASE th[t].op = "rpc_reg"
        <5>1. PICK k \in DOMAIN proglst : proglst[k].netid = n /\ f.x = proglst[k].x
          BY <2>1, <4>2 DEF Registering!known
        <5> QED BY <4>2, <5>1 DEF GenericSafe, Listed, InLists
      <4>3. CASE th[t].op = "svc_tp_create"
        BY <2>1, <4>3 DEF Registering!known
      <4> QED BY <1>2, <4>1, <4>2, <4>3 DEF Registers
    <3> HIDE DEF n, known, z
    <3>2. \A u \in Threads \ {t} : f.pc \in Working /\ Owns(u) => f.x /= th[u].x
      BY <3>1 DEF GenericSafe, WorksOn
    <3>3. /\ RegTypes' /\ FdsOwned' /\ Listed' /\ ServerLock'
          /\ \A u \in Threads \ {t} : th'[u] = th[u] /\ HasLock(u)' /\ WorksOn(u)'
      BY <1>1, <1>3, <1>5, <1>7, <2>1, <3>2, ThreadMoves
    <3>4. RpcbLive'
      <4>1. \A k \in AllPrograms \X Registering!Netids : rpcb'[k] \in {0, rpcb[k]}
        BY <1>3
      <4> QED BY <1>5, <2>1, <4>1, AddressesStay
    <3>5. HasLock(t)'
      BY <1>2, <1>3, <1>5, <1>6, <2>1 DEF HasLock
    <3>6. WorksOn(t)'
      <4>1. ~Owns(t)'
        BY <1>6, <2>1 DEF Owns
      <4>3. LiveOf(th[t].x, Registering!netid(t))'
        BY <1>6, <2>1, <3>1 DEF LiveOf
      <4>4. th'[t].op \in Registers /\ th'[t].pc = "unset" /\ ~th'[t].made /\ th'[t].op /= "svc_tp_create"
            /\ th'[t].i /= 0
        BY <1>2, <1>5, <1>6, <2>1, <3>1 DEF WorksOn
      <4>5. (/\ th[t].op \in {"svc_create", "svc_tp_create"} => th[t].prog \in Programs /\ th[t].disp \in Dispatches
             /\ th[t].op = "rpc_reg" => th[t].prog \in SimplePrograms /\ th[t].disp = "universal" /\ th[t].proc \in Procs)'
        BY <1>2, <1>5, <1>6 DEF WorksOn
      <4>6. (/\ th[t].op = "svc_create" => \E k \in DOMAIN xprtlist : xprtlist[k] = th[t].x
             /\ th[t].op = "rpc_reg" => \E k \in DOMAIN proglst : proglst[k].netid = Registering!netid(t) /\ proglst[k].x = th[t].x)'
        BY <1>3, <1>5, <1>6, <3>1
      <4> QED BY <4>1, <4>3, <4>4, <4>5, <4>6 DEF WorksOn, Working
    <3> QED BY <1>5, <3>3, <3>4, <3>5, <3>6 DEF GenericSafe
  <2>2. ASSUME f.pc = "unset", f.made, f.x = z, known = {}, UNCHANGED xprtlist_lock,
               NEW fd1 \in Registering!Fds, Opens(fd1, n)
        PROVE  GenericSafe'
    <3>1. /\ FdsOwned' /\ XprtsStay /\ z \notin DOMAIN xprts /\ z \in Nat
          /\ xprts' \in Seq([netid : Registering!Netids, fd : Registering!Fds, live : BOOLEAN])
          /\ z \in DOMAIN xprts' /\ xprts'[z].live /\ xprts'[z].netid = n
      BY <1>1, <1>2, <2>2, NewTransport DEF Opens
    <3>2. /\ \A k \in DOMAIN xprtlist : xprtlist[k] \in DOMAIN xprts
          /\ \A k \in DOMAIN proglst : proglst[k].x \in DOMAIN xprts
          /\ \A u \in Threads : th[u].pc \in Working => th[u].x \in DOMAIN xprts
      BY DEF GenericSafe, Listed, LiveOf, WorksOn
    <3>3. /\ th[t].op = "svc_create" => \A k \in DOMAIN xprtlist : xprts[xprtlist[k]].netid /= n
          /\ th[t].op = "rpc_reg" => \A k \in DOMAIN proglst : proglst[k].netid /= n
      <4>1. ASSUME th[t].op = "svc_create", NEW k \in DOMAIN xprtlist, xprts[xprtlist[k]].netid = n PROVE FALSE
        <5>1. xprtlist[k] \in known
          BY <4>1 DEF Registering!known
        <5> QED BY <2>2, <5>1
      <4>2. ASSUME th[t].op = "rpc_reg", NEW k \in DOMAIN proglst, proglst[k].netid = n PROVE FALSE
        <5>1. proglst[k].x \in known
          BY <4>2 DEF Registering!known
        <5> QED BY <2>2, <5>1
      <4> QED BY <4>1, <4>2
    <3> HIDE DEF n, known, z
    <3>4. \A u \in Threads \ {t} : f.pc \in Working /\ Owns(u) => f.x /= th[u].x
      BY <2>2, <3>1, <3>2 DEF Owns
    <3>5. /\ RegTypes' /\ FdsOwned' /\ Listed' /\ ServerLock'
          /\ \A u \in Threads \ {t} : th'[u] = th[u] /\ HasLock(u)' /\ WorksOn(u)'
      <4>1. /\ \A u \in Threads \ {t} :
                 /\ xprtlist_lock = u => xprtlist_lock' = u
                 /\ proglst_lock = u => proglst_lock' = u
            /\ proglst_lock = "server" => proglst_lock' = "server"
            /\ UNCHANGED <<xprtlist, proglst, server>>
        BY <1>3, <2>2
      <4>2. \/ t \in Threads /\ f \in RegThread /\ th' = [th EXCEPT ![t] = f]
            \/ t \notin Threads /\ th' = th
        BY <1>5
      <4>3. GenericSafe
        OBVIOUS
      <4>4. t \in Threads => \A u \in Threads \ {t} : f.pc \in Working /\ Owns(u) => f.x /= th[u].x
        BY <3>4
      <4> QED BY <1>1, <1>7, <3>1, <4>1, <4>2, <4>3, <4>4, ThreadMovesOn
    <3>6. RpcbLive'
      <4> SUFFICES ASSUME NEW p \in AllPrograms, NEW m \in Registering!Netids, rpcb'[<<p, m>>] /= 0
                   PROVE  /\ LiveOf(rpcb[<<p, m>>], m)'
                          /\ \A u \in Threads : Owns(u)' /\ th'[u].pc /= "done" => th'[u].x /= rpcb'[<<p, m>>]
        BY DEF RpcbLive
      <4>1. rpcb'[<<p, m>>] = rpcb[<<p, m>>] /\ LiveOf(rpcb[<<p, m>>], m)
            /\ \A u \in Threads : Owns(u) /\ th[u].pc /= "done" => th[u].x /= rpcb[<<p, m>>]
        BY <1>3 DEF GenericSafe, RpcbLive
      <4>2. LiveOf(rpcb[<<p, m>>], m)'
        BY <3>1, <4>1 DEF LiveOf, XprtsStay
      <4>3. f.x /= rpcb[<<p, m>>]
        BY <2>2, <3>1, <4>1 DEF LiveOf
      <4> QED BY <1>6, <4>1, <4>2, <4>3 DEF Owns
    <3>7. HasLock(t)'
      BY <1>2, <1>3, <1>5, <1>6, <2>2 DEF HasLock
    <3>8. WorksOn(t)'
      <4>1. LiveOf(th[t].x, Registering!netid(t))'
        BY <1>6, <2>2, <3>1 DEF LiveOf
      <4>2. th'[t].op \in Registers /\ th'[t].pc = "unset" /\ th'[t].made /\ th'[t].i /= 0
        BY <1>2, <1>5, <1>6, <2>2 DEF WorksOn
      <4>3. (/\ th[t].op \in {"svc_create", "svc_tp_create"} => th[t].prog \in Programs /\ th[t].disp \in Dispatches
             /\ th[t].op = "rpc_reg" => th[t].prog \in SimplePrograms /\ th[t].disp = "universal" /\ th[t].proc \in Procs)'
        BY <1>2, <1>5, <1>6 DEF WorksOn
      <4>4. \A k \in DOMAIN xprtlist : xprts'[xprtlist[k]].netid = xprts[xprtlist[k]].netid
        BY <3>1, <3>2 DEF XprtsStay
      <4>5. (/\ th[t].op = "svc_create" => \A k \in DOMAIN xprtlist : xprts[xprtlist[k]].netid /= Registering!netid(t)
             /\ th[t].op = "rpc_reg" => \A k \in DOMAIN proglst : proglst[k].netid /= Registering!netid(t))'
        BY <1>3, <1>5, <1>6, <3>3, <4>4
      <4>6. ~InLists(th[t].x)'
        BY <1>3, <1>6, <2>2, <3>1, <3>2 DEF InLists
      <4>7. \A u \in Threads : u /= t /\ th'[u].pc \in Working => th'[u].x /= th'[t].x
        BY <1>6, <2>2, <3>1, <3>2
      <4> QED BY <4>1, <4>2, <4>3, <4>5, <4>6, <4>7 DEF WorksOn, Working
    <3> QED BY <1>5, <3>5, <3>6, <3>7, <3>8 DEF GenericSafe
  <2>3. ASSUME f.pc = "getconf", ~f.made, UNCHANGED <<fds, xprts>>
        PROVE  GenericSafe'
    <3>1. t /= "none" /\ t /= "server"
      BY <1>1 DEF Registering!GenericAssumption
    <3>2. /\ RegTypes' /\ FdsOwned' /\ Listed' /\ ServerLock'
          /\ \A u \in Threads \ {t} : th'[u] = th[u] /\ HasLock(u)' /\ WorksOn(u)'
      BY <1>1, <1>3, <1>5, <1>7, <2>3, <3>1, ThreadMoves DEF Working
    <3>3. RpcbLive'
      <4>1. \A k \in AllPrograms \X Registering!Netids : rpcb'[k] \in {0, rpcb[k]}
        BY <1>3
      <4> QED BY <1>5, <2>3, <4>1, AddressesStay
    <3>4. HasLock(t)' /\ WorksOn(t)'
      BY <1>2, <1>5, <1>6, <2>3 DEF HasLock, WorksOn, Owns, Working
    <3> QED BY <1>5, <3>2, <3>3, <3>4 DEF GenericSafe
  <2> QED BY <1>4, <2>1, <2>2, <2>3 DEF Finds
<1>9. ASSUME AllPromised PROVE AllPromised'
  <2>1. f.ok = th[t].ok /\ f.pc \in {"unset", "getconf"} /\ Goes(t, f)
    BY <1>4 DEF Finds
  <2> QED BY <1>1, <1>2, <1>3, <1>9, <2>1, FindPromised
<1> QED BY <1>8, <1>9

(* A transport nobody else knows is destroyed.                             *)
LEMMA TransportGone ==
  ASSUME Registering!GenericAssumption, GenericSafe, NEW z \in DOMAIN xprts, xprts[z].live, Registering!SVC_DESTROY(z)
  PROVE  /\ FdsOwned' /\ xprts' \in Seq([netid : Registering!Netids, fd : Registering!Fds, live : BOOLEAN])
         /\ DOMAIN xprts' = DOMAIN xprts
         /\ \A w \in DOMAIN xprts : xprts'[w].netid = xprts[w].netid
         /\ \A w \in DOMAIN xprts \ {z} : xprts'[w] = xprts[w]
<1> DEFINE T == [netid : Registering!Netids, fd : Registering!Fds, live : BOOLEAN]
           e == [xprts[z] EXCEPT !.live = FALSE]
           g == xprts[z].fd
<1>1. xprts \in Seq(T) /\ DOMAIN xprts = 1 .. Len(xprts) /\ Len(xprts) \in Nat /\ FdsOwned
  BY RegElements DEF GenericSafe, RegTypes
<1>2. \A w \in DOMAIN xprts : xprts[w] \in T
  BY <1>1, ElementOfSeq
<1>3. e \in T /\ e.netid = xprts[z].netid /\ e.fd = g /\ ~e.live /\ g \in Registering!Fds
  BY <1>2
<1>4. xprts' = [xprts EXCEPT ![z] = e] /\ fds' = [fds EXCEPT ![g] = "free"]
  BY DEF Registering!SVC_DESTROY
<1> HIDE DEF e, g, T
<1>5. xprts' \in Seq(T) /\ Len(xprts') = Len(xprts)
  BY <1>1, <1>3, <1>4, ExceptSeq
<1>6. /\ DOMAIN xprts' = DOMAIN xprts /\ xprts'[z] = e
      /\ \A w \in DOMAIN xprts \ {z} : xprts'[w] = xprts[w]
  BY <1>1, <1>4
<1>7. \A w \in DOMAIN xprts : xprts'[w].netid = xprts[w].netid
  BY <1>3, <1>6
<1>8. fds' \in [Registering!Fds -> {"free", "app", "lib"}] /\ fds'[g] = "free"
      /\ \A h \in Registering!Fds \ {g} : fds'[h] = fds[h]
  BY <1>1, <1>3, <1>4 DEF FdsOwned
<1>9. \A w \in DOMAIN xprts' : xprts'[w].live => w /= z /\ xprts[w].live /\ xprts'[w].fd = xprts[w].fd
  BY <1>3, <1>6
<1>10. \A w \in DOMAIN xprts : xprts[w].live /\ w /= z => xprts[w].fd \in Registering!Fds \ {g}
  BY <1>1, RegElements DEF FdsOwned, g, GenericSafe
<1>11. FdsOwned'
  <2>1. (\A w \in DOMAIN xprts : xprts[w].live => fds[xprts[w].fd] = "lib")'
    BY <1>1, <1>6, <1>8, <1>9, <1>10 DEF FdsOwned
  <2>2. (\A w, v \in DOMAIN xprts : xprts[w].live /\ xprts[v].live /\ xprts[w].fd = xprts[v].fd => w = v)'
    BY <1>1, <1>6, <1>9 DEF FdsOwned
  <2>3. ASSUME NEW h \in Registering!Fds, fds'[h] = "lib"
        PROVE  \E w \in DOMAIN xprts' : xprts'[w].live /\ xprts'[w].fd = h
    <3>1. h /= g /\ fds[h] = "lib"
      BY <1>8, <2>3
    <3>2. PICK w \in DOMAIN xprts : xprts[w].live /\ xprts[w].fd = h
      BY <1>1, <3>1 DEF FdsOwned
    <3> QED BY <1>6, <3>1, <3>2 DEF g
  <2> QED BY <1>8, <2>1, <2>2, <2>3 DEF FdsOwned
<1> QED BY <1>5, <1>6, <1>7, <1>11 DEF T

LEMMA RegFailed ==
  ASSUME Registering!GenericAssumption, GenericInv, NEW t \in Threads, Registering!failed(t)
  PROVE  GenericInv'
<1> USE DEF GenericInv
<1> DEFINE f == [th[t] EXCEPT !.pc = "getconf", !.made = FALSE]
<1>1. /\ UNCHANGED <<xprtlist, proglst, gen_callouts, rpcb, registered, server, gen_calls, proglst_lock>>
      /\ xprtlist_lock' \in {xprtlist_lock} \cup (IF xprtlist_lock = t THEN {"none"} ELSE {})
      /\ th[t].pc = "failed" /\ closed' = {} /\ th' = [th EXCEPT ![t] = f]
      /\ IF th[t].made THEN Registering!SVC_DESTROY(th[t].x) ELSE UNCHANGED <<fds, xprts>>
  BY DEF Registering!failed, Registering!skip_netid, Registering!NoThread, Registering!becomes, Registering!at
<1>2. th[t] \in RegThread /\ WorksOn(t) /\ th[t].op \in Registers
  BY <1>1, RegThreadOk DEF GenericSafe, Working
<1>3. /\ f \in RegThread /\ f.pc = "getconf" /\ ~f.made /\ f.op = th[t].op /\ f.prog = th[t].prog
      /\ f.disp = th[t].disp /\ f.proc = th[t].proc /\ f.i = th[t].i /\ f.ok = th[t].ok
  BY <1>2 DEF RegThread
<1> HIDE DEF f
<1>4. th'[t] = f /\ \A u \in Threads \ {t} : th'[u] = th[u]
  BY <1>1 DEF GenericSafe, RegTypes
<1>5. gen_calls' \in Nat /\ rpcb' \in [AllPrograms \X Registering!Netids -> Nat]
  BY <1>1 DEF GenericSafe, RegTypes
<1>6. t /= "none" /\ t /= "server"
  BY DEF Registering!GenericAssumption
<1>7. HasLock(t)' /\ WorksOn(t)'
  BY <1>2, <1>3, <1>4 DEF HasLock, WorksOn, Owns, Working
<1>8. closed' = {}
  BY <1>1
<1>9. ASSUME ~th[t].made PROVE GenericSafe'
  <2>1. /\ RegTypes' /\ FdsOwned' /\ Listed' /\ ServerLock'
        /\ \A u \in Threads \ {t} : th'[u] = th[u] /\ HasLock(u)' /\ WorksOn(u)'
    BY <1>1, <1>3, <1>5, <1>6, <1>9, ThreadMoves DEF Working
  <2>2. RpcbLive'
    <3>1. \A k \in AllPrograms \X Registering!Netids : rpcb'[k] \in {0, rpcb[k]}
      BY <1>1
    <3> QED BY <1>1, <1>3, <1>9, <3>1, AddressesStay
  <2> QED BY <1>8, <1>7, <2>1, <2>2 DEF GenericSafe
<1>10. ASSUME th[t].made PROVE GenericSafe'
  <2>1. PICK z : z = th[t].x
    OBVIOUS
  <2>2. LiveOf(z, Registering!netid(t)) /\ Owns(t) /\ ~InLists(z)
        /\ \A u \in Threads : u /= t /\ th[u].pc \in Working => th[u].x /= z
    BY <1>1, <1>2, <1>10, <2>1 DEF WorksOn, Owns, Working
  <2>3. /\ FdsOwned' /\ xprts' \in Seq([netid : Registering!Netids, fd : Registering!Fds, live : BOOLEAN])
        /\ DOMAIN xprts' = DOMAIN xprts
        /\ \A w \in DOMAIN xprts : xprts'[w].netid = xprts[w].netid
        /\ \A w \in DOMAIN xprts \ {z} : xprts'[w] = xprts[w]
    BY <1>1, <1>10, <2>1, <2>2, TransportGone DEF LiveOf
  <2>4. \A w, n : w /= z /\ LiveOf(w, n) => LiveOf(w, n)'
    BY <2>3 DEF LiveOf
  <2>5. RegTypes'
    <3>1. th' \in [Threads -> RegThread]
      BY <1>1, <1>3 DEF GenericSafe, RegTypes
    <3> QED BY <1>1, <1>5, <2>3, <3>1 DEF GenericSafe, RegTypes
  <2>6. Listed /\ (\A k \in DOMAIN xprtlist : xprtlist[k] /= z) /\ (\A k \in DOMAIN proglst : proglst[k].x /= z)
        /\ (\A k \in DOMAIN xprtlist : xprtlist[k] \in DOMAIN xprts)
    BY <2>2 DEF GenericSafe, InLists, Listed, LiveOf
  <2>7. \A k \in DOMAIN xprtlist : xprts'[xprtlist[k]].netid = xprts[xprtlist[k]].netid
    BY <2>3, <2>6
  <2>8. Listed'
    BY <1>1, <2>4, <2>6, <2>7 DEF Listed
  <2>9. ServerLock'
    BY <1>1 DEF GenericSafe, ServerLock
  <2>10. ASSUME NEW u \in Threads \ {t} PROVE HasLock(u)' /\ WorksOn(u)'
    <3>1. HasLock(u)'
      BY <1>1, <1>4, <1>6 DEF GenericSafe, HasLock
    <3>2. WorksOn(u)
      BY DEF GenericSafe
    <3>3. Owns(u)' = Owns(u) /\ InLists(th[u].x)' = InLists(th[u].x) /\ Registering!netid(u)' = Registering!netid(u)
      BY <1>1, <1>4 DEF Owns, InLists, Registering!netid
    <3>4. Owns(u) => ~InLists(th[u].x)' /\ \A v \in Threads : v /= u /\ th'[v].pc \in Working => th'[v].x /= th[u].x
      BY <1>3, <1>4, <3>2, <3>3 DEF WorksOn, Working
    <3>5. th[u].pc \in Working /\ LiveOf(th[u].x, Registering!netid(u)) => LiveOf(th[u].x, Registering!netid(u))'
      BY <1>4, <2>2, <2>4, <3>3 DEF LiveOf
    <3>6. WorksOn(u)'
      BY <1>1, <1>4, <2>7, <3>2, <3>3, <3>4, <3>5 DEF WorksOn
    <3> QED BY <3>1, <3>6
  <2>11. RpcbLive'
    <3> SUFFICES ASSUME NEW p \in AllPrograms, NEW m \in Registering!Netids, rpcb'[<<p, m>>] /= 0
                 PROVE  /\ LiveOf(rpcb[<<p, m>>], m)'
                        /\ \A u \in Threads : Owns(u)' /\ th'[u].pc /= "done" => th'[u].x /= rpcb'[<<p, m>>]
      BY DEF RpcbLive
    <3>1. rpcb'[<<p, m>>] = rpcb[<<p, m>>] /\ LiveOf(rpcb[<<p, m>>], m)
          /\ \A u \in Threads : Owns(u) /\ th[u].pc /= "done" => th[u].x /= rpcb[<<p, m>>]
      BY <1>1 DEF GenericSafe, RpcbLive
    <3>2. rpcb[<<p, m>>] /= z
      BY <1>1, <2>1, <2>2, <3>1
    <3>3. LiveOf(rpcb[<<p, m>>], m)'
      BY <2>3, <3>1, <3>2 DEF LiveOf
    <3>4. \A u \in Threads : Owns(u)' => Owns(u) /\ th'[u] = th[u]
      BY <1>3, <1>4 DEF Owns
    <3> QED BY <3>1, <3>3, <3>4
  <2> QED BY <1>8, <1>7, <2>3, <2>5, <2>8, <2>9, <2>10, <2>11 DEF GenericSafe
<1>11. ASSUME AllPromised PROVE AllPromised'
  <2>1. Goes(t, f)
    BY <1>1, <1>3 DEF Goes
  <2> QED BY <1>1, <1>3, <1>11, <2>1, FindPromised
<1> QED BY <1>9, <1>10, <1>11

LEMMA ListGrows ==
  ASSUME NEW S, NEW s \in Seq(S), NEW e \in S
  PROVE  /\ <<e>> \o s \in Seq(S) /\ 1 \in DOMAIN (<<e>> \o s) /\ (<<e>> \o s)[1] = e
         /\ \A k \in DOMAIN (<<e>> \o s) \ {1} : k \in Nat /\ k - 1 \in DOMAIN s /\ (<<e>> \o s)[k] = s[k - 1]
         /\ \A k \in DOMAIN s : k + 1 \in DOMAIN (<<e>> \o s) /\ (<<e>> \o s)[k + 1] = s[k]
<1>1. <<e>> \in Seq(S) /\ Len(<<e>>) = 1 /\ <<e>>[1] = e
  OBVIOUS
<1>2. Len(s) \in Nat /\ DOMAIN s = 1 .. Len(s)
  BY LenProperties
<1>3. /\ <<e>> \o s \in Seq(S) /\ Len(<<e>> \o s) = 1 + Len(s)
      /\ \A k \in 1 .. 1 + Len(s) : (<<e>> \o s)[k] = IF k <= 1 THEN <<e>>[k] ELSE s[k - 1]
  BY <1>1, ConcatProperties
<1>4. DOMAIN (<<e>> \o s) = 1 .. 1 + Len(s)
  BY <1>3, LenProperties
<1> QED BY <1>1, <1>2, <1>3, <1>4

(* A registration succeeds.                                                *)
LEMMA RegDone ==
  ASSUME Registering!GenericAssumption, GenericInv, NEW t \in Threads, Registering!done(t)
  PROVE  GenericInv'
<1> USE DEF GenericInv
<1> DEFINE n == Registering!netid(t)
           f == [th[t] EXCEPT !.pc = "getconf", !.made = FALSE, !.ok = @ \cup {n}]
           e == [prog |-> th[t].prog, proc |-> th[t].proc, netid |-> n, x |-> th[t].x, routine |-> th[t].id]
           E == [prog : AllPrograms, proc : Procs, netid : Registering!Netids, x : Nat, routine : Nat]
<1>1. /\ UNCHANGED <<fds, xprts, gen_callouts, rpcb, registered, server, gen_calls, proglst_lock>>
      /\ xprtlist_lock' = (IF xprtlist_lock = t THEN "none" ELSE xprtlist_lock)
      /\ th[t].pc = "done" /\ closed' = {} /\ th' = [th EXCEPT ![t] = f]
      /\ xprtlist' = (IF th[t].op = "svc_create" /\ th[t].made THEN <<th[t].x>> \o xprtlist ELSE xprtlist)
      /\ proglst' = (IF th[t].op = "rpc_reg" THEN <<e>> \o proglst ELSE proglst)
  BY DEF Registering!done, Registering!enlist, Registering!NoThread, Registering!becomes, Registering!at
<1>2. /\ th[t] \in RegThread /\ WorksOn(t) /\ HasLock(t) /\ th[t].op \in Registers
      /\ n \in Registering!Netids /\ th[t].prog \in AllPrograms
  BY <1>1, RegThreadOk DEF GenericSafe, Working
<1>3. /\ f \in RegThread /\ f.pc = "getconf" /\ ~f.made /\ f.op = th[t].op /\ f.prog = th[t].prog
      /\ f.disp = th[t].disp /\ f.proc = th[t].proc /\ f.i = th[t].i /\ f.ok = th[t].ok \cup {n}
  BY <1>2 DEF RegThread
<1>4. th[t].op = "rpc_reg" => e \in E
  BY <1>2 DEF RegThread, WorksOn
<1>5. e.prog = th[t].prog /\ e.netid = n /\ e.x = th[t].x /\ th[t].x \in Nat
  BY <1>2 DEF RegThread
<1> HIDE DEF f, e, n
<1>6. th'[t] = f /\ \A u \in Threads \ {t} : th'[u] = th[u]
  BY <1>1 DEF GenericSafe, RegTypes
<1>7. t /= "none" /\ t /= "server"
  BY DEF Registering!GenericAssumption
<1>8. /\ LiveOf(th[t].x, n)
      /\ th[t].op = "svc_create" /\ th[t].made => \A k \in DOMAIN xprtlist : xprts[xprtlist[k]].netid /= n
      /\ th[t].op = "rpc_reg" =>
            IF th[t].made THEN \A k \in DOMAIN proglst : proglst[k].netid /= n
            ELSE \E k \in DOMAIN proglst : proglst[k].netid = n /\ proglst[k].x = th[t].x
  BY <1>1, <1>2 DEF WorksOn, Working, n
<1>9. /\ xprtlist \in Seq(Nat) /\ proglst \in Seq(E)
      /\ DOMAIN xprtlist \subseteq Nat /\ DOMAIN proglst \subseteq Nat
  BY RegElements DEF GenericSafe, RegTypes
(* The lists grow at their head.                                           *)
<1> HIDE DEF E
<1>10. /\ xprtlist' \in Seq(Nat)
       /\ \A k \in DOMAIN xprtlist' :
            \/ k \in DOMAIN xprtlist /\ xprtlist' = xprtlist
            \/ /\ th[t].op = "svc_create" /\ th[t].made
               /\ \/ k = 1 /\ xprtlist'[k] = th[t].x
                  \/ k /= 1 /\ k \in Nat /\ k - 1 \in DOMAIN xprtlist /\ xprtlist'[k] = xprtlist[k - 1]
  BY <1>1, <1>5, <1>9, ListGrows
<1>11. /\ proglst' \in Seq(E)
       /\ \A k \in DOMAIN proglst' :
            \/ \E j \in DOMAIN proglst : proglst'[k] = proglst[j]
            \/ th[t].op = "rpc_reg" /\ proglst'[k] = e
       /\ \A j \in DOMAIN proglst : \E k \in DOMAIN proglst' : proglst'[k] = proglst[j]
  <2>1. CASE th[t].op = "rpc_reg"
    <3> DEFINE r == <<e>> \o proglst
    <3>1. /\ r \in Seq(E) /\ 1 \in DOMAIN r /\ r[1] = e
          /\ \A k \in DOMAIN r \ {1} : k \in Nat /\ k - 1 \in DOMAIN proglst /\ r[k] = proglst[k - 1]
          /\ \A k \in DOMAIN proglst : k + 1 \in DOMAIN r /\ r[k + 1] = proglst[k]
      BY <1>4, <1>9, <2>1, ListGrows
    <3>2. proglst' = r
      BY <1>1, <2>1
    <3> HIDE DEF r
    <3> QED BY <2>1, <3>1, <3>2
  <2>2. CASE th[t].op /= "rpc_reg"
    BY <1>1, <1>9, <2>2
  <2> QED BY <2>1, <2>2
<1>12. RegTypes'
  <2>1. th' \in [Threads -> RegThread]
    BY <1>1, <1>3 DEF GenericSafe, RegTypes
  <2> QED BY <1>1, <1>10, <1>11, <2>1 DEF GenericSafe, RegTypes, E
<1>13. Listed'
  <2>1. Listed
    BY DEF GenericSafe
  <2>2. (\A k \in DOMAIN xprtlist : LiveOf(xprtlist[k], xprts[xprtlist[k]].netid))'
    BY <1>1, <1>8, <1>10, <2>1 DEF Listed, LiveOf
  <2>3. (\A j, k \in DOMAIN xprtlist : xprts[xprtlist[j]].netid = xprts[xprtlist[k]].netid => j = k)'
    <3> SUFFICES ASSUME NEW j \in DOMAIN xprtlist', NEW k \in DOMAIN xprtlist',
                        xprts[xprtlist'[j]].netid = xprts[xprtlist'[k]].netid
                 PROVE  j = k
      BY <1>1
    <3>1. CASE xprtlist' = xprtlist
      BY <2>1, <3>1 DEF Listed
    <3>2. CASE xprtlist' /= xprtlist
      <4>1. th[t].op = "svc_create" /\ th[t].made /\ xprts[th[t].x].netid = n
        BY <1>1, <1>8, <3>2 DEF LiveOf
      <4>2. j /= 1 => j \in Nat /\ j - 1 \in DOMAIN xprtlist /\ xprtlist'[j] = xprtlist[j - 1]
        BY <1>10, <3>2
      <4>3. k /= 1 => k \in Nat /\ k - 1 \in DOMAIN xprtlist /\ xprtlist'[k] = xprtlist[k - 1]
        BY <1>10, <3>2
      <4>4. (j = 1 => xprtlist'[j] = th[t].x) /\ (k = 1 => xprtlist'[k] = th[t].x)
        BY <1>10, <3>2
      <4>5. CASE j /= 1 /\ k /= 1
        <5>1. j - 1 = k - 1
          BY <2>1, <4>2, <4>3, <4>5 DEF Listed
        <5> QED BY <4>2, <4>3, <4>5, <5>1
      <4> QED BY <1>8, <4>1, <4>2, <4>3, <4>4, <4>5
    <3> QED BY <3>1, <3>2
  <2>4. (\A k \in DOMAIN proglst : LiveOf(proglst[k].x, proglst[k].netid))'
    <3> SUFFICES ASSUME NEW k \in DOMAIN proglst' PROVE LiveOf(proglst[k].x, proglst[k].netid)'
      OBVIOUS
    <3>1. \A w, m : LiveOf(w, m)' = LiveOf(w, m)
      BY <1>1 DEF LiveOf
    <3>2. PICK w, m : w = proglst'[k].x /\ m = proglst'[k].netid
      OBVIOUS
    <3>3. LiveOf(w, m)
      BY <1>5, <1>8, <1>11, <2>1, <3>2 DEF Listed
    <3>4. LiveOf(w, m)'
      BY <3>1, <3>3
    <3> QED BY <3>2, <3>4
  <2>5. (\A j, k \in DOMAIN proglst : proglst[j].netid = proglst[k].netid => proglst[j].x = proglst[k].x)'
    <3>1. th[t].op = "rpc_reg" => \A k \in DOMAIN proglst : proglst[k].netid = n => proglst[k].x = th[t].x
      <4>1. \A j, k \in DOMAIN proglst : proglst[j].netid = proglst[k].netid => proglst[j].x = proglst[k].x
        BY <2>1 DEF Listed
      <4>2. ASSUME th[t].op = "rpc_reg", NEW k \in DOMAIN proglst, proglst[k].netid = n PROVE proglst[k].x = th[t].x
        BY <1>8, <4>1, <4>2
      <4> QED BY <4>2
    <3>2. \A j, k \in DOMAIN proglst : proglst[j].netid = proglst[k].netid => proglst[j].x = proglst[k].x
      BY <2>1 DEF Listed
    <3>3. ASSUME NEW k \in DOMAIN proglst'
          PROVE  \/ \E j \in DOMAIN proglst : proglst'[k].netid = proglst[j].netid /\ proglst'[k].x = proglst[j].x
                 \/ th[t].op = "rpc_reg" /\ proglst'[k].netid = n /\ proglst'[k].x = th[t].x
      BY <1>5, <1>11
    <3>4. ASSUME NEW j \in DOMAIN proglst', NEW k \in DOMAIN proglst', proglst'[j].netid = proglst'[k].netid
          PROVE  proglst'[j].x = proglst'[k].x
      BY <3>1, <3>2, <3>3, <3>4
    <3> QED BY <3>4
  <2> QED BY <2>2, <2>3, <2>4, <2>5 DEF Listed
<1>14. ServerLock' /\ FdsOwned'
  BY <1>1 DEF GenericSafe, ServerLock, FdsOwned
<1>15. HasLock(t)' /\ WorksOn(t)'
  BY <1>2, <1>3, <1>6 DEF HasLock, WorksOn, Owns, Working
<1>16. ASSUME NEW u \in Threads \ {t} PROVE HasLock(u)' /\ WorksOn(u)'
  <2>1. WorksOn(u) /\ HasLock(u) /\ th'[u] = th[u]
    BY <1>6 DEF GenericSafe
  <2>2. HasLock(u)'
    BY <1>1, <2>1 DEF HasLock
  <2>3. Owns(u)' = Owns(u) /\ Registering!netid(u)' = Registering!netid(u)
    BY <2>1 DEF Owns, Registering!netid
  <2>4. Owns(u) => th[t].x /= th[u].x
    BY <1>1, <2>1 DEF WorksOn, Working
  <2>5. Owns(u) => ~InLists(th[u].x)'
    <3> SUFFICES ASSUME Owns(u) PROVE ~InLists(th[u].x)'
      OBVIOUS
    <3>1. /\ \A k \in DOMAIN xprtlist : xprtlist[k] /= th[u].x
          /\ \A k \in DOMAIN proglst : proglst[k].x /= th[u].x
      BY <2>1 DEF InLists, WorksOn
    <3>2. \A k \in DOMAIN xprtlist' : xprtlist'[k] /= th[u].x
      BY <1>10, <2>4, <3>1
    <3>3. \A k \in DOMAIN proglst' : proglst'[k].x /= th[u].x
      BY <1>5, <1>11, <2>4, <3>1
    <3> QED BY <2>1, <3>2, <3>3 DEF InLists
  <2>6. Owns(u) => \A v \in Threads : v /= u /\ th'[v].pc \in Working => th'[v].x /= th[u].x
    BY <1>3, <1>6, <2>1 DEF WorksOn, Working
  <2>7. /\ th[u].op = "svc_create" /\ th[u].pc \in Working => xprtlist' = xprtlist
        /\ th[u].op = "rpc_reg" /\ th[u].pc \in Working => proglst' = proglst
    BY <1>1, <1>2, <2>1 DEF HasLock, Working
  <2>8. \A m : LiveOf(th[u].x, m)' = LiveOf(th[u].x, m)
    BY <1>1, <2>1 DEF LiveOf
  <2>9. (/\ IF th[u].op \in Registers THEN th[u].pc \in Working \cup {"find", "getconf"}
           ELSE th[u].ok = {} /\ th[u].pc \in {"idle", "unreg"}
         /\ th[u].op \in {"svc_create", "svc_tp_create"} => th[u].prog \in Programs /\ th[u].disp \in Dispatches
         /\ th[u].op = "rpc_reg" => th[u].prog \in SimplePrograms /\ th[u].disp = "universal" /\ th[u].proc \in Procs
         /\ th[u].pc \in Working \cup {"find"} => th[u].i /= 0)'
    BY <2>1 DEF WorksOn
  <2>10. (th[u].pc \in Working =>
           /\ LiveOf(th[u].x, Registering!netid(u))
           /\ th[u].made \/ th[u].op /= "svc_tp_create"
           /\ th[u].op = "svc_create" =>
                IF th[u].made THEN \A k \in DOMAIN xprtlist : xprts[xprtlist[k]].netid /= Registering!netid(u)
                ELSE \E k \in DOMAIN xprtlist : xprtlist[k] = th[u].x
           /\ th[u].op = "rpc_reg" =>
                IF th[u].made THEN \A k \in DOMAIN proglst : proglst[k].netid /= Registering!netid(u)
                ELSE \E k \in DOMAIN proglst : proglst[k].netid = Registering!netid(u) /\ proglst[k].x = th[u].x)'
    BY <1>1, <2>1, <2>3, <2>7, <2>8 DEF WorksOn
  <2>11. WorksOn(u)'
    BY <2>1, <2>3, <2>5, <2>6, <2>9, <2>10 DEF WorksOn
  <2> QED BY <2>2, <2>11
<1>17. RpcbLive'
  <2>1. \A u \in Threads : Owns(u)' => Owns(u) /\ th'[u] = th[u]
    BY <1>3, <1>6 DEF Owns
  <2>2. \A w, m : LiveOf(w, m)' = LiveOf(w, m)
    BY <1>1 DEF LiveOf
  <2>3. rpcb' = rpcb /\ RpcbLive
    BY <1>1 DEF GenericSafe
  <2> QED BY <2>1, <2>2, <2>3 DEF RpcbLive
<1>18. GenericSafe'
  BY <1>1, <1>12, <1>13, <1>14, <1>15, <1>16, <1>17 DEF GenericSafe
<1>19. ASSUME AllPromised PROVE AllPromised'
  <2>1. Promises(t)
    BY <1>19 DEF AllPromised
  <2>2. Promised(th[t].prog, n, th[t].disp)
    BY <1>1, <2>1 DEF Promises, n
  <2>3. \A p \in AllPrograms, m \in Registering!Netids :
          rpcb[<<p, m>>] /= 0 \/ Resetting(t, p, m) => rpcb'[<<p, m>>] /= 0 \/ Resetting(t, p, m)'
    BY <1>1 DEF Resetting
  <2>4. /\ \A p \in AllPrograms, m \in Registering!Netids : \A d : Promised(p, m, d) => Promised(p, m, d)'
        /\ \A u \in Threads \ {t} : Promises(u)'
    BY <1>1, <1>11, <1>19, <2>3, PromisesStay
  <2>5. \A m \in th[t].ok \cup {n} : m \in Registering!Netids /\ Promised(th[t].prog, m, th[t].disp)
    BY <1>2, <2>1, <2>2, RegThreadOk DEF Promises
  <2>6. Promises(t)'
    BY <1>2, <1>3, <1>6, <2>4, <2>5 DEF Promises
  <2>7. ASSUME NEW k \in DOMAIN proglst', NEW c, c = proglst'[k]
        PROVE  c.prog \in SimplePrograms /\ Promised(c.prog, c.netid, "universal")'
    <3>1. ASSUME NEW j \in DOMAIN proglst, c = proglst[j] PROVE c.prog \in SimplePrograms /\ Promised(c.prog, c.netid, "universal")'
      <4>1. /\ proglst[j].prog \in SimplePrograms /\ Promised(proglst[j].prog, proglst[j].netid, "universal")
            /\ proglst[j].prog \in AllPrograms /\ proglst[j].netid \in Registering!Netids
        BY <1>19, RegElements DEF AllPromised, GenericSafe
      <4> QED BY <2>4, <3>1, <4>1
    <3>2. ASSUME th[t].op = "rpc_reg", c = e PROVE c.prog \in SimplePrograms /\ Promised(c.prog, c.netid, "universal")'
      <4>1. th[t].prog \in SimplePrograms /\ th[t].disp = "universal"
        BY <1>2, <3>2 DEF WorksOn
      <4>2. Promised(c.prog, c.netid, "universal") /\ c.prog \in AllPrograms /\ c.netid \in Registering!Netids
        BY <1>2, <1>5, <2>2, <3>2, <4>1
      <4> QED BY <1>5, <2>4, <3>2, <4>1, <4>2
    <3> QED BY <1>11, <2>7, <3>1, <3>2
  <2>8. (\A k \in DOMAIN proglst :
          proglst[k].prog \in SimplePrograms /\ Promised(proglst[k].prog, proglst[k].netid, "universal"))'
    BY <2>7
  <2>9. (\A r \in registered :
          /\ r = [prog |-> r.prog, netid |-> r.netid, disp |-> r.disp]
          /\ r.prog \in AllPrograms /\ r.netid \in Registering!Netids /\ Promised(r.prog, r.netid, r.disp))'
    <3> SUFFICES ASSUME NEW r, r \in registered'
                 PROVE  /\ r = [prog |-> r.prog, netid |-> r.netid, disp |-> r.disp]
                        /\ r.prog \in AllPrograms /\ r.netid \in Registering!Netids
                        /\ Promised(r.prog, r.netid, r.disp)'
      OBVIOUS
    <3>1. r \in registered
      BY <1>1
    <3> QED BY <1>19, <2>4, <3>1 DEF AllPromised
  <2>10. (\A c \in gen_callouts :
           /\ c.prog \in Programs => c.disp \in Dispatches
           /\ c.prog \in SimplePrograms => c.disp = "universal")'
    BY <1>1, <1>19 DEF AllPromised
  <2>11. \A u \in Threads : Promises(u)'
    BY <2>4, <2>6
  <2> QED BY <2>8, <2>9, <2>10, <2>11 DEF AllPromised
<1> QED BY <1>18, <1>19

LEMMA PromisesSame ==
  ASSUME AllPromised, UNCHANGED <<gen_callouts, registered, proglst, th, rpcb>>
  PROVE  AllPromised'
BY DEF AllPromised, Promised, Promises, Resetting, Registering!netid, Registering!already

(* The application opens a descriptor and gives it to svc_tli_create.      *)
LEMMA RegTli ==
  ASSUME Registering!GenericAssumption, GenericInv, NEW n \in Registering!Netids, Registering!app_tli_create(n)
  PROVE  GenericInv'
<1> USE DEF GenericInv
<1> DEFINE fd1 == Registering!lowest
<1>1. /\ UNCHANGED <<xprtlist, proglst, xprtlist_lock, proglst_lock, gen_callouts, rpcb, th, registered, server>>
      /\ gen_calls' = gen_calls + 1 /\ closed' = {} /\ fd1 /= -1
      /\ \/ fds' = [fds EXCEPT ![fd1] = "lib"] /\ xprts' = Append(xprts, [netid |-> n, fd |-> fd1, live |-> TRUE])
         \/ fds' = [fds EXCEPT ![fd1] = "app"] /\ xprts' = xprts
  BY DEF Registering!app_tli_create
<1>2. fd1 \in Registering!Fds /\ fds[fd1] = "free"
  BY <1>1, LowestFree
<1> HIDE DEF fd1
<1>3. gen_calls' \in Nat /\ rpcb' \in [AllPrograms \X Registering!Netids -> Nat]
  BY <1>1 DEF GenericSafe, RegTypes
<1>4. /\ FdsOwned' /\ XprtsStay
      /\ xprts' \in Seq([netid : Registering!Netids, fd : Registering!Fds, live : BOOLEAN])
  <2>1. CASE fds' = [fds EXCEPT ![fd1] = "lib"] /\ xprts' = Append(xprts, [netid |-> n, fd |-> fd1, live |-> TRUE])
    BY <1>2, <2>1, NewTransport
  <2>2. CASE fds' = [fds EXCEPT ![fd1] = "app"] /\ xprts' = xprts
    <3>1. /\ fds' \in [Registering!Fds -> {"free", "app", "lib"}]
          /\ \A g \in Registering!Fds : fds'[g] = "lib" <=> fds[g] = "lib"
      BY <1>2, <2>2 DEF GenericSafe, FdsOwned
    <3>2. \A w \in DOMAIN xprts : xprts[w].fd \in Registering!Fds
      BY RegElements DEF GenericSafe
    <3> QED BY <2>2, <3>1, <3>2 DEF GenericSafe, RegTypes, FdsOwned, XprtsStay
  <2> QED BY <1>1, <2>1, <2>2
<1>5. "none" \notin Threads
  BY DEF Registering!GenericAssumption
<1>6. \E t : t \notin Threads
  BY <1>5
<1>7. PICK t : t \notin Threads
  BY <1>6
<1>8. \/ t \in Threads /\ t \in RegThread /\ th' = [th EXCEPT ![t] = t]
      \/ t \notin Threads /\ th' = th
  BY <1>1, <1>7
<1>9. /\ RegTypes' /\ FdsOwned' /\ Listed' /\ ServerLock'
      /\ \A u \in Threads \ {t} : th'[u] = th[u] /\ HasLock(u)' /\ WorksOn(u)'
  <2>1. /\ \A u \in Threads \ {t} :
             /\ xprtlist_lock = u => xprtlist_lock' = u
             /\ proglst_lock = u => proglst_lock' = u
        /\ proglst_lock = "server" => proglst_lock' = "server"
        /\ UNCHANGED <<xprtlist, proglst, server>>
    BY <1>1
  <2>2. t \in Threads => \A u \in Threads \ {t} : t.pc \in Working /\ Owns(u) => t.x /= th[u].x
    BY <1>7
  <2>3. GenericSafe
    OBVIOUS
  <2> QED BY <1>3, <1>4, <1>8, <2>1, <2>2, <2>3, ThreadMovesOn
<1>10. RpcbLive'
  <2>1. \A k \in AllPrograms \X Registering!Netids : rpcb'[k] \in {0, rpcb[k]}
    BY <1>1
  <2>2. t \in Threads /\ t.made /\ t.pc \in Working \ {"done"} => Owns(t) /\ th[t].pc /= "done" /\ t.x = th[t].x
    BY <1>7
  <2>3. GenericSafe
    OBVIOUS
  <2> QED BY <1>4, <1>8, <2>1, <2>2, <2>3, AddressesStayOn
<1>11. GenericSafe'
  BY <1>1, <1>7, <1>9, <1>10 DEF GenericSafe
<1> QED BY <1>1, <1>11, PromisesSame

(* universal works on a request: registration stays as it is.              *)
LEMMA RegServe ==
  ASSUME Registering!GenericAssumption, GenericInv,
         Registering!Request \/ Registering!Serve \/ UNCHANGED Registering!vars
  PROVE  GenericInv'
<1> USE DEF GenericInv
<1> DEFINE Same == UNCHANGED <<fds, xprts, xprtlist, proglst, xprtlist_lock, gen_callouts, rpcb, th, registered, gen_calls>>
           Moves == Same /\ closed' = {} /\ "pc" \in DOMAIN server'
           Keeps == Moves /\ server'.pc /= "run" /\ proglst_lock' = proglst_lock
           Takes == Moves /\ proglst_lock = "none" /\ proglst_lock' = "server"
           Gives == Moves /\ server.pc = "run" /\ server'.pc /= "run" /\ proglst_lock' = "none"
<1>1. ServerLock /\ \A t \in Threads : t /= "none" /\ t /= "server"
  BY DEF GenericSafe, Registering!GenericAssumption
<1>2. \/ Keeps \/ Takes \/ Gives
      \/ Same /\ closed' = {} /\ UNCHANGED <<server, proglst_lock>>
  <2>1. ASSUME NEW n \in Registering!Netids, NEW p \in SimplePrograms, NEW q \in Procs, Registering!request(n, p, q)
        PROVE  Keeps
    <3>1. Same /\ closed' = {} /\ proglst_lock' = proglst_lock
      BY <2>1 DEF Registering!request, Registering!regvars
    <3>2. "pc" \in DOMAIN server' /\ server'.pc /= "run"
      <4>1. CASE q = 0
        BY <2>1, <4>1 DEF Registering!request, Registering!Quiet
      <4>2. CASE q /= 0
        BY <2>1, <4>2 DEF Registering!request, Registering!Quiet
      <4> QED BY <4>1, <4>2
    <3> QED BY <3>1, <3>2
  <2>2. ASSUME NEW k \in DOMAIN proglst, Registering!universal(k)
        PROVE  Takes
    <3>1. Same /\ closed' = {} /\ proglst_lock' = "server"
      BY <2>2 DEF Registering!universal, Registering!regvars
    <3>2. proglst_lock = "none"
      BY <2>2 DEF Registering!universal, Registering!selected, Registering!NoThread
    <3>3. "pc" \in DOMAIN server'
      BY <1>1, <2>2 DEF Registering!universal, ServerLock
    <3> QED BY <3>1, <3>2, <3>3
  <2>3. ASSUME NEW k \in DOMAIN proglst, Registering!svcerr_decode(k)
        PROVE  Keeps
    <3>1. Same /\ closed' = {} /\ proglst_lock' = proglst_lock
      BY <2>3 DEF Registering!svcerr_decode, Registering!regvars
    <3>2. PICK n \in DOMAIN Registering!shape(server.proc) :
            server' = [server EXCEPT !.pc = "idle", !.words = n,
                         !.buf = Registering!cleaned(xdrbuf[server.netid]), !.outcome = "decode"]
      BY <2>3 DEF Registering!svcerr_decode
    <3>3. "pc" \in DOMAIN server' /\ server'.pc /= "run"
      BY <1>1, <3>2 DEF ServerLock
    <3> QED BY <3>1, <3>3
  <2>4. ASSUME Registering!never_registered
        PROVE  Keeps
    BY <1>1, <2>4 DEF ServerLock, Registering!never_registered, Registering!regvars
  <2>5. ASSUME NEW o, Registering!ended(o)
        PROVE  Gives
    BY <1>1, <2>5 DEF ServerLock, Registering!ended, Registering!NoThread, Registering!regvars
  <2>6. CASE UNCHANGED Registering!vars
    <3>1. Same /\ UNCHANGED <<closed, server, proglst_lock>>
      BY <2>6 DEF Registering!vars
    <3> QED BY <3>1 DEF GenericSafe
  <2>7. CASE Registering!Request
    BY <2>1, <2>7 DEF Registering!Request
  <2>8. CASE Registering!Serve
    <3>1. \/ \E k \in DOMAIN proglst : Registering!universal(k) \/ Registering!svcerr_decode(k)
          \/ Registering!never_registered \/ \E o : Registering!ended(o)
      BY <2>8 DEF Registering!Serve, Registering!svc_sendreply, Registering!reply_fails, Registering!no_result
    <3> HIDE DEF Keeps, Takes, Gives
    <3> QED BY <2>2, <2>3, <2>4, <2>5, <3>1
  <2> QED BY <2>6, <2>7, <2>8
<1>3. Same /\ closed' = {}
  BY <1>2
<1>4. ServerLock' /\ \A t \in Threads : proglst_lock = t => proglst_lock' = t
  BY <1>1, <1>2 DEF ServerLock
<1> HIDE DEF Keeps, Takes, Gives
<1>5. ASSUME NEW t \in Threads PROVE HasLock(t)' /\ WorksOn(t)'
  <2>1. HasLock(t) /\ WorksOn(t)
    BY DEF GenericSafe
  <2>2. HasLock(t)'
    BY <1>3, <1>4, <2>1 DEF HasLock
  <2>3. WorksOn(t)'
    BY <1>3, <2>1 DEF WorksOn, Owns, LiveOf, InLists, Registering!netid
  <2> QED BY <2>2, <2>3
<1>6. RegTypes' /\ FdsOwned' /\ Listed'
  BY <1>3 DEF GenericSafe, RegTypes, FdsOwned, Listed, LiveOf
<1>7. RpcbLive'
  BY <1>3 DEF GenericSafe, RpcbLive, LiveOf, Owns
<1>8. GenericSafe'
  BY <1>3, <1>4, <1>5, <1>6, <1>7 DEF GenericSafe
<1> QED BY <1>3, <1>8, PromisesSame

LEMMA RegNext ==
  ASSUME RegisteringAssumption, GenericInv, [Registering!Next]_(Registering!vars)
  PROVE  GenericInv'
<1>1. Registering!GenericAssumption
  BY DEF RegisteringAssumption
<1>2. ASSUME NEW t \in Threads, Registering!Begin(t) PROVE GenericInv'
  <2>1. PICK f \in RegThread : Starts(t, f)
    BY <1>1, <1>2, RegStarts DEF GenericInv
  <2> QED BY <1>1, <2>1, RegBegins, BeginPromised DEF GenericInv
<1>3. ASSUME NEW t \in Threads, Registering!Register(t) PROVE GenericInv'
  BY <1>1, <1>3, RegGetconf, RegReturn, RegFind, RegUnset, RegReg, RegSet, RegFailed, RegDone DEF Registering!Register
<1>4. ASSUME NEW n \in Registering!Netids, Registering!app_tli_create(n) PROVE GenericInv'
  BY <1>1, <1>4, RegTli
<1>5. ASSUME Registering!Request \/ Registering!Serve \/ UNCHANGED Registering!vars PROVE GenericInv'
  BY <1>1, <1>5, RegServe
<1> QED BY <1>2, <1>3, <1>4, <1>5 DEF Registering!Next

(* What the invariant is for.                                              *)
LEMMA RegistrationsFollow ==
  ASSUME GenericInv
  PROVE  Registering!Registrations
<1> USE DEF GenericInv
<1>1. Registering!OneTransport
  BY DEF GenericSafe, Listed, LiveOf, Registering!OneTransport
<1>2. Registering!NoLeak
  <2>1. FdsOwned /\ \A w \in DOMAIN xprts : xprts[w].fd \in Registering!Fds
    BY RegElements DEF GenericSafe
  <2>2. {f1 \in Registering!Fds : fds[f1] = "lib"} = {xprts[w].fd : w \in {w \in DOMAIN xprts : xprts[w].live}}
    BY <2>1 DEF FdsOwned
  <2> QED BY <2>2 DEF Registering!NoLeak
<1>3. Registering!ClosesOwn
  BY DEF GenericSafe, Registering!ClosesOwn
<1>4. ASSUME Registering!Undisturbed, Registering!quiet, NEW r \in registered
      PROVE  /\ rpcb[<<r.prog, r.netid>>] /= 0 /\ xprts[rpcb[<<r.prog, r.netid>>]].live
             /\ xprts[rpcb[<<r.prog, r.netid>>]].netid = r.netid
             /\ r \in gen_callouts
  <2>1. /\ r = [prog |-> r.prog, netid |-> r.netid, disp |-> r.disp]
        /\ r.prog \in AllPrograms /\ r.netid \in Registering!Netids
        /\ Promised(r.prog, r.netid, r.disp)
    BY <1>4 DEF AllPromised
  <2>2. \A t \in Threads : ~Resetting(t, r.prog, r.netid)
    BY <1>4 DEF Resetting, Registering!quiet, Registering!at
  <2>3. r \in gen_callouts /\ rpcb[<<r.prog, r.netid>>] /= 0
    BY <2>1, <2>2 DEF Promised
  <2> QED BY <2>1, <2>3 DEF GenericSafe, RpcbLive, LiveOf
<1>5. Registering!Undisturbed => Registering!Reachable
  BY <1>4 DEF Registering!Reachable, Registering!Nowhere
<1> QED BY <1>1, <1>2, <1>3, <1>5 DEF Registering!Registrations

(* Whatever fails and however threads interleave, svc_create and rpc_reg   *)
(* keep one live transport for each netid, no descriptor is left open      *)
(* without a transport and none of the application's is closed; and what   *)
(* was reported as registered can be called, when nobody unregisters it,   *)
(* gives its program another dispatch routine, or finds rpcbind not        *)
(* answering.                                                              *)
THEOREM RegisteredCallable == Registering!Spec /\ [](part /= "failing") => []RegistrationSound
<1>1. RegisteringAssumption
  BY RegisteringAssumption
<1>2. Registering!Init => GenericInv
  BY <1>1, GenericStart
<1>3. GenericInv /\ [Registering!Next]_(Registering!vars) => GenericInv'
  BY <1>1, RegNext
<1>4. GenericInv /\ part /= "failing" => RegistrationSound
  BY RegistrationsFollow DEF RegistrationSound
<1>5. Registering!Spec => []GenericInv
  BY <1>2, <1>3, PTL DEF Registering!Spec
<1> QED BY <1>4, <1>5, PTL
=============================================================================
