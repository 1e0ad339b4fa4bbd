------------------------- MODULE CornflakeRegistry -------------------------
(***************************************************************************)
(* The static registry of one process (src/cornflakes/cornflake.c) under   *)
(* any sequence of registrations.  Lookups are cornflake_get_schema, which *)
(* changes nothing; the properties ask every lookup in every state.        *)
(***************************************************************************)
EXTENDS Flexrpc, TLAPS

CONSTANTS Services,          \* entries that processes register
          MaxRegistrations   \* bound on the calls of cornflake_register

Triples    == {<<e.prog, e.vers, e.proc>> : e \in Services}
Directions == {CALL, REPLY, 2}   \* 2 stands for any other decoded direction

ASSUME RegistryAssumption ==
  /\ MaxRegistrations \in Nat
  /\ \A e \in Services :
       e = Entry(e.prog, e.vers, e.proc, e.cf_call_schema, e.cf_reply_schema)

VARIABLES rpc_registry,   \* the entries reachable from the static head
          registered      \* history: what cornflake_register returned TRUE for

vars == <<rpc_registry, registered>>

(* cornflake_register only ever fills in the static head: the list that    *)
(* cornflake_get_schema walks has one entry.                               *)
TypeOK == /\ rpc_registry \in Seq(Services \cup {EmptyRegistry[1]})
          /\ Len(rpc_registry) = 1
          /\ registered \in Seq(Services)

Init == rpc_registry = EmptyRegistry /\ registered = << >>

Register(e) ==
  /\ Len(registered) < MaxRegistrations
  /\ rpc_registry' = cornflake_register(rpc_registry, e)
  /\ registered' = Append(registered, e)

Next == \E e \in Services : Register(e)

Spec == Init /\ [][Next]_vars

-----------------------------------------------------------------------------
Lookup(t, d) == cornflake_get_schema(rpc_registry, t[1], t[2], t[3], d)

(* i is the first registration whose version is not zero.                  *)
FirstVersioned(i) ==
  /\ registered[i].vers # 0
  /\ \A j \in 1 .. i - 1 : registered[j].vers = 0

(* Only the first registration with a version other than zero is ever      *)
(* found, and it is found with the schema of the direction asked for:      *)
(* later registrations return TRUE but cornflake_register links them       *)
(* nowhere, and version zero reads as an empty registry.                   *)
OnlyFirstResolves ==
  \A t \in Triples, d \in Directions :
    Lookup(t, d) # NULL =>
      \E i \in 1 .. Len(registered) :
        LET e == registered[i]
        IN  /\ FirstVersioned(i)
            /\ Matches(e, t[1], t[2], t[3])
            /\ \/ d = CALL  /\ Lookup(t, d) = e.cf_call_schema
               \/ d = REPLY /\ Lookup(t, d) = e.cf_reply_schema

(* The first versioned registration stays available for good.              *)
FirstAvailable ==
  \A i \in 1 .. Len(registered) :
    LET e == registered[i]
        t == <<e.prog, e.vers, e.proc>>
    IN  FirstVersioned(i) => /\ Lookup(t, CALL) = e.cf_call_schema
                             /\ Lookup(t, REPLY) = e.cf_reply_schema

-----------------------------------------------------------------------------
(* Proofs, for every set of services and any number of registrations.  The *)
(* inductive invariant ties the static head to the history: the head is    *)
(* the first registration with a version, or has version zero and so did   *)
(* every registration so far.                                              *)

HeadIsFirst ==
  \/ /\ rpc_registry[1].vers = 0
     /\ \A j \in 1 .. Len(registered) : registered[j].vers = 0
  \/ \E i \in 1 .. Len(registered) :
       FirstVersioned(i) /\ rpc_registry[1] = registered[i]

Inv == TypeOK /\ HeadIsFirst

-----------------------------------------------------------------------------
(* On a one-entry list the walk of cornflake_get_schema is a comparison    *)
(* with the head.                                                          *)
LEMMA HeadLookup ==
  ASSUME NEW S, NEW reg \in Seq(S), Len(reg) = 1, NEW p, NEW v, NEW c, NEW d
  PROVE  cornflake_get_schema(reg, p, v, c, d) =
           IF reg[1].vers = 0 \/ ~Matches(reg[1], p, v, c) THEN NULL
           ELSE IF d = CALL THEN reg[1].cf_call_schema
           ELSE IF d = REPLY THEN reg[1].cf_reply_schema
           ELSE NULL
<1> DEFINE hits == {i \in 1 .. Len(reg) : Matches(reg[i], p, v, c)}
           k == CHOOSE i \in hits : \A j \in hits : i <= j
<1>1. CASE ~Matches(reg[1], p, v, c)
  <2>1. hits = {}
    BY <1>1
  <2> QED
    BY <1>1, <2>1 DEF cornflake_get_schema
<1>2. CASE Matches(reg[1], p, v, c)
  <2>1. hits = {1}
    BY <1>2
  <2>2. k = 1
    <3> HIDE DEF hits
    <3>1. \E i \in hits : \A j \in hits : i <= j
      BY <2>1
    <3>2. k \in hits
      BY <3>1
    <3> QED
      BY <2>1, <3>2
  <2>3. /\ hits # {}
        /\ cornflake_get_schema(reg, p, v, c, d) =
             CASE reg[1].vers = 0 \/ hits = {} -> NULL
               [] reg[1].vers # 0 /\ hits # {} /\ d = CALL  -> reg[k].cf_call_schema
               [] reg[1].vers # 0 /\ hits # {} /\ d = REPLY -> reg[k].cf_reply_schema
               [] OTHER -> NULL
    BY <2>1 DEF cornflake_get_schema
  <2> HIDE DEF hits, k
  <2>4. CALL # REPLY
    BY DEF CALL, REPLY
  <2> QED
    BY <1>2, <2>2, <2>3, <2>4
<1> QED
  BY <1>1, <1>2

(* A registration keeps an entry with a version at the head, and otherwise *)
(* puts the new entry there.                                               *)
LEMMA RegisterHead ==
  ASSUME NEW S, NEW reg \in Seq(S), Len(reg) = 1, NEW e \in S
  PROVE  /\ cornflake_register(reg, e) \in Seq(S)
         /\ Len(cornflake_register(reg, e)) = 1
         /\ cornflake_register(reg, e)[1] = IF reg[1].vers = 0 THEN e ELSE reg[1]
<1>1. CASE reg[1].vers = 0
  <2>1. cornflake_register(reg, e) = [reg EXCEPT ![1] = e]
    BY <1>1 DEF cornflake_register
  <2>2. [reg EXCEPT ![1] = e] \in Seq(S)
    OBVIOUS
  <2>3. Len([reg EXCEPT ![1] = e]) = 1 /\ [reg EXCEPT ![1] = e][1] = e
    OBVIOUS
  <2> HIDE DEF cornflake_register
  <2> QED
    BY <1>1, <2>1, <2>2, <2>3
<1>2. CASE reg[1].vers # 0
  BY <1>2 DEF cornflake_register
<1> QED
  BY <1>1, <1>2

(* Every state satisfies Inv.                                              *)
THEOREM Safety == Spec => []Inv
<1>1. Init => Inv
  <2> SUFFICES ASSUME Init PROVE Inv
    OBVIOUS
  <2>1. rpc_registry = << Entry(0, 0, 0, NULL, NULL) >> /\ registered = << >>
    BY DEF Init, EmptyRegistry
  <2>2. TypeOK
    BY <2>1 DEF TypeOK, EmptyRegistry
  <2>3. HeadIsFirst
    BY <2>1 DEF HeadIsFirst, Entry
  <2> QED
    BY <2>2, <2>3 DEF Inv
<1>2. Inv /\ [Next]_vars => Inv'
  <2> SUFFICES ASSUME Inv, [Next]_vars PROVE Inv'
    OBVIOUS
  <2>1. CASE UNCHANGED vars
    BY <2>1 DEF vars, Inv, TypeOK, HeadIsFirst, FirstVersioned
  <2>2. ASSUME NEW e \in Services, Register(e) PROVE Inv'
    <3> DEFINE S == Services \cup {EmptyRegistry[1]}
    <3>1. /\ rpc_registry' = cornflake_register(rpc_registry, e)
          /\ registered' = Append(registered, e)
      BY <2>2 DEF Register
    <3>2. /\ rpc_registry \in Seq(S) /\ Len(rpc_registry) = 1 /\ e \in S
          /\ registered \in Seq(Services)
      BY DEF Inv, TypeOK
    <3>3. /\ rpc_registry' \in Seq(S) /\ Len(rpc_registry') = 1
          /\ rpc_registry'[1] = IF rpc_registry[1].vers = 0 THEN e ELSE rpc_registry[1]
      <4> HIDE DEF S
      <4> QED
        BY <3>1, <3>2, RegisterHead
    <3>4. /\ registered' \in Seq(Services)
          /\ Len(registered') = Len(registered) + 1
          /\ registered'[Len(registered) + 1] = e
          /\ \A j \in 1 .. Len(registered) : registered'[j] = registered[j]
          /\ Len(registered) \in Nat
      BY <3>1, <3>2
    <3>5. TypeOK'
      BY <3>3, <3>4 DEF TypeOK
    <3>6. HeadIsFirst'
      <4>1. CASE /\ rpc_registry[1].vers = 0
                 /\ \A j \in 1 .. Len(registered) : registered[j].vers = 0
        <5>1. rpc_registry'[1] = e
          BY <3>3, <4>1
        <5>2. \A j \in 1 .. Len(registered) : registered'[j].vers = 0
          BY <3>4, <4>1
        <5>3. CASE e.vers = 0
          <6>1. \A j \in 1 .. Len(registered') : registered'[j].vers = 0
            BY <3>4, <5>2, <5>3
          <6> QED
            BY <5>1, <5>3, <6>1 DEF HeadIsFirst
        <5>4. CASE e.vers # 0
          <6>1. PICK n \in Nat : n = Len(registered) + 1
            BY <3>4
          <6>2. n \in 1 .. Len(registered') /\ registered'[n] = e
            BY <3>4, <6>1
          <6>3. FirstVersioned(n)'
            BY <3>4, <5>2, <5>4, <6>1, <6>2 DEF FirstVersioned
          <6> QED
            BY <5>1, <6>2, <6>3 DEF HeadIsFirst
        <5> QED
          BY <5>3, <5>4
      <4>2. ASSUME NEW i \in 1 .. Len(registered),
                   FirstVersioned(i), rpc_registry[1] = registered[i]
            PROVE  HeadIsFirst'
        <5>1. rpc_registry'[1] = registered'[i] /\ i \in 1 .. Len(registered')
          BY <3>3, <3>4, <4>2 DEF FirstVersioned
        <5>2. FirstVersioned(i)'
          BY <3>4, <4>2 DEF FirstVersioned
        <5> QED
          BY <5>1, <5>2 DEF HeadIsFirst
      <4> QED
        BY <4>1, <4>2 DEF Inv, HeadIsFirst
    <3> QED
      BY <3>5, <3>6 DEF Inv
  <2> QED
    BY <2>1, <2>2 DEF Next
<1> QED
  BY <1>1, <1>2, PTL DEF Spec

-----------------------------------------------------------------------------
(* The first registration with a version is the only one a lookup finds.   *)
THEOREM OnlyFirst == Spec => []OnlyFirstResolves
<1>1. Inv => OnlyFirstResolves
  <2> SUFFICES ASSUME Inv, NEW t \in Triples, NEW d \in Directions, Lookup(t, d) # NULL
               PROVE  \E i \in 1 .. Len(registered) :
                        LET e == registered[i]
                        IN  /\ FirstVersioned(i)
                            /\ Matches(e, t[1], t[2], t[3])
                            /\ \/ d = CALL  /\ Lookup(t, d) = e.cf_call_schema
                               \/ d = REPLY /\ Lookup(t, d) = e.cf_reply_schema
    BY DEF OnlyFirstResolves
  <2>1. Lookup(t, d) =
          IF rpc_registry[1].vers = 0 \/ ~Matches(rpc_registry[1], t[1], t[2], t[3])
          THEN NULL
          ELSE IF d = CALL THEN rpc_registry[1].cf_call_schema
          ELSE IF d = REPLY THEN rpc_registry[1].cf_reply_schema
          ELSE NULL
    BY HeadLookup DEF Inv, TypeOK, Lookup
  <2>2. rpc_registry[1].vers # 0
    BY <2>1
  <2>3. PICK i \in 1 .. Len(registered) :
          FirstVersioned(i) /\ rpc_registry[1] = registered[i]
    BY <2>2 DEF Inv, HeadIsFirst
  <2> QED
    BY <2>1, <2>3
<1> QED
  BY <1>1, Safety, PTL

(* The first registration with a version is always found.                  *)
THEOREM FirstStaysAvailable == Spec => []FirstAvailable
<1>1. Inv => FirstAvailable
  <2> SUFFICES ASSUME Inv, NEW i \in 1 .. Len(registered), FirstVersioned(i)
               PROVE  LET e == registered[i]
                          t == <<e.prog, e.vers, e.proc>>
                      IN  /\ Lookup(t, CALL) = e.cf_call_schema
                          /\ Lookup(t, REPLY) = e.cf_reply_schema
    BY DEF FirstAvailable
  <2> DEFINE e == registered[i]
             t == <<e.prog, e.vers, e.proc>>
  <2>1. Len(registered) \in Nat
    BY DEF Inv, TypeOK
  <2>2. rpc_registry[1] = e
    <3>1. PICK k \in 1 .. Len(registered) :
            FirstVersioned(k) /\ rpc_registry[1] = registered[k]
      BY DEF Inv, HeadIsFirst, FirstVersioned
    <3>2. k = i
      BY <2>1, <3>1 DEF FirstVersioned
    <3> QED
      BY <3>1, <3>2
  <2>3. e.vers # 0
    BY DEF FirstVersioned
  <2>4. Matches(rpc_registry[1], t[1], t[2], t[3])
    BY <2>2 DEF Matches
  <2> HIDE DEF t
  <2>5. /\ Lookup(t, CALL) = rpc_registry[1].cf_call_schema
        /\ Lookup(t, REPLY) = rpc_registry[1].cf_reply_schema
    <3>1. CALL # REPLY
      BY DEF CALL, REPLY
    <3> QED
      BY <2>2, <2>3, <2>4, <3>1, HeadLookup DEF Inv, TypeOK, Lookup
  <2> QED
    BY <2>2, <2>5 DEF t
<1> QED
  BY <1>1, Safety, PTL
=============================================================================
