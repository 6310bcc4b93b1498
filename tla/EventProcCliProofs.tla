-------------------------- MODULE EventProcCliProofs --------------------------
(***************************************************************************)
(* Proofs about EventProcCli, for any clients, devices, attributes, event  *)
(* types and subscription ids.                                             *)
(***************************************************************************)
EXTENDS EventProcCli, TLAPS

\* The four maps of EventProcCli agree. This is inductive as it stands.
IInv == TypeOK /\ BackRefs /\ IdsMatch /\ LiveIsHeld /\ DevicesInUse

\* An EventProcCli without subscriptions.
LEMMA InitInv == Init => IInv
<1> SUFFICES ASSUME Init PROVE IInv
  OBVIOUS
<1> USE ConstantsAssumption DEF Init
<1>1. TypeOK
  BY DEF TypeOK
<1>2. BackRefs
  BY DEF BackRefs, Recorded, Key
<1>3. IdsMatch /\ LiveIsHeld /\ DevicesInUse
  BY DEF IdsMatch, LiveIsHeld, DevicesInUse
<1> QED
  BY <1>1, <1>2, <1>3 DEF IInv

\* _delSubHdl and _clearSubscrInfoMaps keep subscriptions, ids and devices in step.
LEMMA UnsubscribeInv ==
    ASSUME IInv, NEW h \in Hdl, NEW ks \in SUBSET Key, ks \subseteq subscribed,
           Unsubscribe(h, ks)
    PROVE  /\ connList' \in [Key -> SUBSET Hdl]
           /\ subscribed' \in SUBSET Key
           /\ usedDevices' \in SUBSET Dev
           /\ listOfId' \in [SubId -> Key \cup {NoKey}]
           /\ eventSubId' \in [Key -> SubId \cup {NoId}]
           /\ wasException' \in SUBSET Key
           /\ heard' \in SUBSET (Hdl \X Key)
           /\ behind' \in SUBSET (Hdl \X Key)
           /\ \A k \in subscribed' : eventSubId'[k] \in SubId
           /\ IdsMatch'
           /\ LiveIsHeld'
           /\ DevicesInUse'
<1> USE DEF IInv, TypeOK
<1> DEFINE dead == Deserted(h, ks)
<1>1. dead \subseteq ks
  BY DEF Deserted
<1>2. /\ subscribed' = subscribed \ dead
      /\ eventSubId' = [k \in Key |-> IF k \in dead THEN NoId ELSE eventSubId[k]]
      /\ listOfId' = [i \in SubId |-> IF \E k \in dead : eventSubId[k] = i THEN NoKey
                                      ELSE listOfId[i]]
      /\ connList' = [k \in Key |-> IF k \in ks THEN connList[k] \ {h} ELSE connList[k]]
  BY DEF Unsubscribe, EraseIds, EraseListener
<1>3. usedDevices' = {d \in usedDevices :
          (\E k \in dead : k[1] = d) => \E k \in subscribed \ dead : k[1] = d}
  BY DEF Unsubscribe
<1>4. /\ wasException' \in SUBSET Key
      /\ heard' \in SUBSET (Hdl \X Key) /\ behind' \in SUBSET (Hdl \X Key)
  BY DEF Unsubscribe
<1>5. LiveIsHeld'
  BY <1>1, <1>2 DEF LiveIsHeld, Deserted
<1> HIDE DEF dead
<1>6. IdsMatch'
  BY <1>1, <1>2, ConstantsAssumption DEF IdsMatch
<1>7. DevicesInUse'
  BY <1>1, <1>2, <1>3 DEF DevicesInUse
<1> QED
  BY <1>1, <1>2, <1>3, <1>4, <1>5, <1>6, <1>7

\* RemDev, Off and Disconnect unsubscribe h and forget what eventTypes said of it.
LEMMA LeaveInv ==
    ASSUME IInv, NEW h \in Hdl, NEW ks \in SUBSET Key, ks \subseteq subscribed,
           Unsubscribe(h, ks),
           connected' \in SUBSET Hdl,
           answer' = {},
           eventTypes' \in [Hdl -> [Dev \X Attr -> EvType \cup {NoType}]],
           \A g \in Hdl : Recorded(g)' \subseteq Recorded(g),
           Recorded(h)' \cap ks = {}
    PROVE  IInv'
<1>1. TypeOK' /\ IdsMatch' /\ LiveIsHeld' /\ DevicesInUse'
  BY UnsubscribeInv DEF IInv, TypeOK
<1>2. BackRefs'
  <2> SUFFICES ASSUME NEW g \in Hdl, NEW k \in Recorded(g)'
               PROVE  k \in subscribed' /\ g \in connList'[k]
    BY DEF BackRefs
  <2>1. k \in Key /\ k \in Recorded(g) /\ g \in connList[k] /\ k \in subscribed
    BY DEF IInv, BackRefs, Recorded
  <2>2. g = h => k \notin ks
    OBVIOUS
  <2>3. g # h => ~(connList[k] \subseteq {h})
    BY <2>1
  <2>4. connList' = [l \in Key |-> IF l \in ks THEN connList[l] \ {h} ELSE connList[l]]
    BY DEF Unsubscribe, EraseListener
  <2>5. subscribed' = subscribed \ Deserted(h, ks)
    BY DEF Unsubscribe
  <2> QED
    BY <2>1, <2>2, <2>3, <2>4, <2>5 DEF Deserted
<1> QED
  BY <1>1, <1>2 DEF IInv

LEMMA RemDevInv ==
    ASSUME IInv, NEW h \in Hdl, NEW i \in SubId, RemDev(h, i)
    PROVE  IInv'
<1> DEFINE k == listOfId[i]
<1>1. k \in Key /\ k \in subscribed
  BY DEF RemDev, IInv, TypeOK, IdsMatch
<1>2. <<k[1], k[2]>> \in Dev \X Attr /\ k = <<k[1], k[2], k[3]>>
  BY <1>1 DEF Key
<1>3. /\ eventTypes' \in [Hdl -> [Dev \X Attr -> EvType \cup {NoType}]]
      /\ \A g \in Hdl, da \in Dev \X Attr :
            eventTypes'[g][da] = IF g = h /\ da = <<k[1], k[2]>> THEN NoType ELSE eventTypes[g][da]
  BY <1>2 DEF RemDev, IInv, TypeOK
<1>4. \A l \in Key : l[3] # NoType /\ <<l[1], l[2]>> \in Dev \X Attr
  BY ConstantsAssumption DEF Key
<1>5. \A g \in Hdl : Recorded(g)' \subseteq Recorded(g)
  BY <1>3, <1>4 DEF Recorded
<1>6. k \notin Recorded(h)'
  BY <1>1, <1>3, <1>4 DEF Recorded
<1>7. Unsubscribe(h, {k}) /\ answer' = {} /\ connected' \in SUBSET Hdl
  BY DEF RemDev, IInv, TypeOK
<1> HIDE DEF k
<1> QED
  BY <1>1, <1>3, <1>5, <1>6, <1>7, LeaveInv

LEMMA UnsubscribeAllDevInv ==
    ASSUME IInv, NEW h \in Hdl, UnsubscribeAllDev(h), connected' \in SUBSET Hdl
    PROVE  IInv'
<1>1. Recorded(h) \subseteq subscribed /\ Recorded(h) \in SUBSET Key
  BY DEF IInv, BackRefs, Recorded
<1>2. eventTypes' = [eventTypes EXCEPT ![h] = [da \in Dev \X Attr |-> NoType]]
  BY DEF UnsubscribeAllDev
<1>3. eventTypes' \in [Hdl -> [Dev \X Attr -> EvType \cup {NoType}]]
  BY <1>2 DEF IInv, TypeOK
<1>4. \A l \in Key : l[3] # NoType /\ <<l[1], l[2]>> \in Dev \X Attr
  BY ConstantsAssumption DEF Key
<1>5. Recorded(h)' = {}
  BY <1>2, <1>4 DEF Recorded, IInv, TypeOK
<1>6. \A g \in Hdl : Recorded(g)' \subseteq Recorded(g)
  BY <1>2, <1>5 DEF Recorded, IInv, TypeOK
<1> QED
  BY <1>1, <1>3, <1>5, <1>6, LeaveInv DEF UnsubscribeAllDev

\* eventreq_add_dev: new and joined subscriptions get the listener and the record in
\* eventTypes together.
LEMMA AddDevInv ==
    ASSUME IInv, NEW h \in Hdl, NEW d \in Dev, NEW t \in EvType,
           NEW As \in SUBSET Attr, As # {}, NEW Fail \in SUBSET As, NEW new, NEW Bad,
           AddDev(h, d, t, As, Fail, new, Bad)
    PROVE  IInv'
<1> DEFINE fresh  == Keys(d, As \ Fail, t) \ subscribed
           joined == {k \in Keys(d, As, t) \cap subscribed : h \notin connList[k]}
           early  == {k \in Keys(d, As, t) \cap subscribed : h \in connList[k]}
<1>1. /\ fresh \in SUBSET Key /\ fresh \cap subscribed = {}
      /\ joined \in SUBSET subscribed
      /\ early \in SUBSET subscribed
      /\ \A k \in fresh \cup joined \cup early : k[1] = d /\ k[3] = t
  BY DEF Key, Keys
<1>2. As = Fail => fresh = {} /\ joined = {}
  BY DEF AddDev, Keys
<1>3. As # Fail => fresh \cup joined \cup early # {}
  <2> SUFFICES ASSUME As # Fail PROVE fresh \cup joined \cup early # {}
    OBVIOUS
  <2>1. PICK a \in As \ Fail : TRUE
    OBVIOUS
  <2>2. <<d, a, t>> \in fresh \cup joined \cup early
    BY <2>1 DEF Keys
  <2> QED
    BY <2>2
<1>4. /\ new \in [fresh -> {i \in SubId : listOfId[i] = NoKey}]
      /\ \A k, l \in fresh : new[k] = new[l] => k = l
      /\ UseDevice(d, As = Fail)
      /\ StoreIds(new)
      /\ subscribed' = subscribed \cup fresh
      /\ connList' = [k \in Key |-> IF k \in fresh \cup joined THEN connList[k] \cup {h}
                                    ELSE connList[k]]
      /\ eventTypes' = [eventTypes EXCEPT ![h] =
             [da \in Dev \X Attr |->
                 IF <<da[1], da[2], t>> \in fresh \cup joined THEN t ELSE @[da]]]
      /\ wasException' = wasException \cup Bad /\ Bad \subseteq fresh
      /\ behind' = behind \cup ({h} \X (fresh \cup joined))
      /\ UNCHANGED <<connected, heard>>
  BY DEF AddDev
<1>5. \E garbage \in [joined -> SubId \cup {NoId}] :
          answer' = {<<k, eventSubId'[k]>> : k \in fresh \cup early}
                    \cup {<<k, garbage[k]>> : k \in joined}
  BY DEF AddDev
<1> HIDE DEF fresh, joined, early
<1>6. /\ eventSubId' = [k \in Key |-> IF k \in fresh THEN new[k] ELSE eventSubId[k]]
      /\ listOfId' = [i \in SubId |-> IF \E k \in fresh : new[k] = i
                                      THEN CHOOSE k \in fresh : new[k] = i
                                      ELSE listOfId[i]]
  BY <1>4 DEF StoreIds
<1>7. TypeOK'
  <2>1. usedDevices' \in SUBSET Dev
    BY <1>4 DEF UseDevice, IInv, TypeOK
  <2>2. eventSubId' \in [Key -> SubId \cup {NoId}] /\ \A k \in subscribed' : eventSubId'[k] \in SubId
    BY <1>1, <1>4, <1>6 DEF IInv, TypeOK
  <2>3. listOfId' \in [SubId -> Key \cup {NoKey}]
    BY <1>1, <1>6 DEF IInv, TypeOK
  <2>4. eventTypes' \in [Hdl -> [Dev \X Attr -> EvType \cup {NoType}]]
    BY <1>4 DEF IInv, TypeOK
  <2>5. answer' \in SUBSET (Key \X (SubId \cup {NoId}))
    BY <1>1, <1>5, <2>2 DEF IInv, TypeOK
  <2>6. connList' \in [Key -> SUBSET Hdl] /\ subscribed' \in SUBSET Key
    BY <1>1, <1>4 DEF IInv, TypeOK
  <2>7. /\ wasException' \in SUBSET Key
        /\ heard' \in SUBSET (Hdl \X Key) /\ behind' \in SUBSET (Hdl \X Key)
    <3>1. {h} \X (fresh \cup joined) \subseteq Hdl \X Key
      BY <1>1, Zenon DEF IInv, TypeOK
    <3> QED
      BY <1>1, <1>4, <3>1 DEF IInv, TypeOK
  <2> QED
    BY <1>4, <2>1, <2>2, <2>3, <2>4, <2>5, <2>6, <2>7 DEF IInv, TypeOK
<1>8. BackRefs'
  <2> SUFFICES ASSUME NEW g \in Hdl, NEW k \in Recorded(g)'
               PROVE  k \in subscribed' /\ g \in connList'[k]
    BY DEF BackRefs
  <2>1. k \in Key /\ <<k[1], k[2]>> \in Dev \X Attr /\ k = <<k[1], k[2], k[3]>>
    BY DEF Recorded, Key
  <2>2. CASE k \in Recorded(g)
    BY <1>4, <2>1, <2>2 DEF IInv, BackRefs, TypeOK
  <2>3. CASE k \notin Recorded(g)
    <3>1. g = h /\ k \in fresh \cup joined
      BY <1>4, <2>1, <2>3 DEF Recorded, IInv, TypeOK
    <3> QED
      BY <1>1, <1>4, <2>1, <3>1
  <2> QED
    BY <2>2, <2>3
<1>9. IdsMatch'
  <2> SUFFICES ASSUME NEW i \in SubId, NEW k \in Key
               PROVE  listOfId'[i] = k <=> k \in subscribed' /\ eventSubId'[k] = i
    BY DEF IdsMatch
  <2>1. listOfId[i] = k <=> k \in subscribed /\ eventSubId[k] = i
    BY DEF IInv, IdsMatch
  <2>2. CASE \E l \in fresh : new[l] = i
    <3> PICK l \in fresh : new[l] = i
      BY <2>2
    <3>1. listOfId'[i] = l
      BY <1>4, <1>6
    <3>2. listOfId[i] = NoKey
      BY <1>4
    <3>3. ~(k \in subscribed /\ eventSubId[k] = i)
      BY <2>1, <3>2, ConstantsAssumption
    <3> QED
      BY <1>1, <1>4, <1>6, <3>1, <3>3
  <2>3. CASE ~\E l \in fresh : new[l] = i
    BY <1>1, <1>4, <1>6, <2>1, <2>3
  <2> QED
    BY <2>2, <2>3
<1>10. LiveIsHeld'
  BY <1>1, <1>4 DEF IInv, LiveIsHeld, TypeOK
<1>11. DevicesInUse'
  BY <1>1, <1>2, <1>3, <1>4 DEF IInv, DevicesInUse, UseDevice
<1> QED
  BY <1>7, <1>8, <1>9, <1>10, <1>11 DEF IInv

\* Every step preserves the invariant.
LEMMA NextInv == IInv /\ [Next]_vars => IInv'
<1> SUFFICES ASSUME IInv, [Next]_vars PROVE IInv'
  OBVIOUS
<1>1. ASSUME NEW h \in Hdl, Connect(h) PROVE IInv'
  BY <1>1 DEF Connect, subVars, errVars, IInv, TypeOK, BackRefs, Recorded, IdsMatch,
     LiveIsHeld, DevicesInUse
<1>2. ASSUME NEW h \in Hdl, SomeAddDev(h) PROVE IInv'
  <2>1. PICK d \in Dev, t \in EvType, As \in (SUBSET Attr) \ {{}} :
          \E Fail \in SUBSET As : \E new, Bad : AddDev(h, d, t, As, Fail, new, Bad)
    BY <1>2 DEF SomeAddDev
  <2>2. PICK Fail \in SUBSET As : \E new, Bad : AddDev(h, d, t, As, Fail, new, Bad)
    BY <2>1
  <2>3. PICK new, Bad : AddDev(h, d, t, As, Fail, new, Bad)
    BY <2>2
  <2>4. As \in SUBSET Attr /\ As # {}
    OBVIOUS
  <2> QED
    BY <2>3, <2>4, AddDevInv, Zenon
<1>3. ASSUME NEW h \in Hdl, Off(h) PROVE IInv'
  BY <1>3, UnsubscribeAllDevInv DEF Off, IInv, TypeOK
<1>4. ASSUME NEW h \in Hdl, Disconnect(h) PROVE IInv'
  BY <1>4, UnsubscribeAllDevInv DEF Disconnect, IInv, TypeOK
<1>5. ASSUME NEW h \in Hdl, NEW i \in SubId, RemDev(h, i) PROVE IInv'
  BY <1>5, RemDevInv
<1>6. ASSUME NEW h \in Hdl, NEW k \in Key, CheckDev(h, k) PROVE IInv'
  <2>1. answer' \in SUBSET (Key \X (SubId \cup {NoId}))
    BY <1>6 DEF CheckDev, IInv, TypeOK
  <2> QED
    BY <1>6, <2>1 DEF CheckDev, subVars, errVars, IInv, TypeOK, BackRefs, Recorded, IdsMatch,
       LiveIsHeld, DevicesInUse
<1>7. ASSUME NEW k \in Key, NEW err \in BOOLEAN, NEW busy \in BOOLEAN, PushEvent(k, err, busy)
      PROVE  IInv'
  <2>1. wasException' \in SUBSET Key
    BY <1>7 DEF PushEvent, IInv, TypeOK
  <2>2. heard' \in SUBSET (Hdl \X Key) /\ behind' \in SUBSET (Hdl \X Key)
    <3>1. connList[k] \X {k} \subseteq Hdl \X Key
      BY DEF IInv, TypeOK
    <3> QED
      BY <1>7, <3>1 DEF PushEvent, sendMessage, IInv, TypeOK
  <2>3. UNCHANGED <<connected, subVars, answer>>
    BY <1>7 DEF PushEvent
  <2> QED
    BY <2>1, <2>2, <2>3 DEF subVars, IInv, TypeOK, BackRefs, Recorded, IdsMatch,
       LiveIsHeld, DevicesInUse
<1>8. ASSUME UNCHANGED vars PROVE IInv'
  BY <1>8 DEF vars, subVars, errVars, IInv, TypeOK, BackRefs, Recorded, IdsMatch,
     LiveIsHeld, DevicesInUse
<1> QED
  BY <1>1, <1>2, <1>3, <1>4, <1>5, <1>6, <1>7, <1>8 DEF Next

\* The four maps agree in every reachable state.
THEOREM MapsAgree == Spec => []IInv
BY InitInv, NextInv, PTL DEF Spec

\* Every variable keeps its type, and a live subscription has a Tango id.
THEOREM TypeCorrect == Spec => []TypeOK
<1>1. IInv => TypeOK
  BY DEF IInv
<1> QED
  BY <1>1, MapsAgree, PTL

\* unsubscribeAllDev never meets an eventTypes entry without its subscription, so it
\* never calls unsubscribe_event through a null DeviceProxy.
THEOREM NoNullDevice == Spec => []BackRefs
<1>1. IInv => BackRefs
  BY DEF IInv
<1> QED
  BY <1>1, MapsAgree, PTL

\* Subscription ids and subscriptions correspond one to one.
THEOREM IdsUnique == Spec => []IdsMatch
<1>1. IInv => IdsMatch
  BY DEF IInv
<1> QED
  BY <1>1, MapsAgree, PTL

\* A Tango subscription lives exactly as long as it has listeners, and its DeviceProxy
\* as long as it has subscriptions.
THEOREM NothingLeaks == Spec => []NoneLeaked
<1>1. IInv => NoneLeaked
  BY DEF IInv, NoneLeaked
<1> QED
  BY <1>1, MapsAgree, PTL

\* What is remembered of a client is about subscriptions it listens to.
OfListeners == \A p \in heard \cup behind : p[1] \in connList[p[2]]

\* What the proof of KnownToListeners needs besides: a callback is there while its
\* subscription is.
KInv == OfListeners /\ wasException \subseteq subscribed /\ KnownToListeners

\* Who leaves a subscription is forgotten in it, and who stays has been told what it was told.
LEMMA UnsubscribeKnown ==
    ASSUME IInv, KInv, NEW h \in Hdl, NEW ks \in SUBSET Key, Unsubscribe(h, ks)
    PROVE  KInv'
<1>1. /\ connList' = [k \in Key |-> IF k \in ks THEN connList[k] \ {h} ELSE connList[k]]
      /\ subscribed' = subscribed \ Deserted(h, ks)
      /\ wasException' = wasException \ Deserted(h, ks)
      /\ heard' = heard \ ({h} \X ks) /\ behind' = behind \ ({h} \X ks)
  BY DEF Unsubscribe, EraseListener
<1>2. OfListeners'
  <2> SUFFICES ASSUME NEW p \in heard' \cup behind' PROVE p[1] \in connList'[p[2]]
    BY DEF OfListeners
  <2>1. p \in heard \cup behind /\ p \notin {h} \X ks
    BY <1>1
  <2>2. p[1] \in Hdl /\ p[2] \in Key /\ p = <<p[1], p[2]>> /\ p[1] \in connList[p[2]]
    BY <2>1 DEF KInv, OfListeners, IInv, TypeOK
  <2>3. ~(p[1] = h /\ p[2] \in ks)
    BY <2>1, <2>2
  <2> QED
    BY <1>1, <2>2, <2>3
<1>3. KnownToListeners'
  <2> SUFFICES ASSUME NEW k \in subscribed', NEW g \in connList'[k], <<g, k>> \notin behind'
               PROVE  <<g, k>> \in heard' <=> k \in wasException'
    BY DEF KnownToListeners
  <2>1. k \in subscribed /\ k \in Key /\ k \notin Deserted(h, ks)
    BY <1>1 DEF IInv, TypeOK
  <2>2. g \in connList[k] /\ ~(g = h /\ k \in ks)
    BY <1>1, <2>1
  <2>3. <<g, k>> \notin {h} \X ks
    BY <2>2
  <2>4. <<g, k>> \in heard <=> k \in wasException
    BY <1>1, <2>1, <2>2, <2>3 DEF KInv, KnownToListeners
  <2> QED
    BY <1>1, <2>1, <2>3, <2>4
<1> QED
  BY <1>1, <1>2, <1>3 DEF KInv

\* A client that subscribes or joins is behind, since the first event of a subscription is
\* dropped and a former one is not told again.
LEMMA AddDevKnown ==
    ASSUME IInv, KInv, NEW h \in Hdl, NEW d \in Dev, NEW t \in EvType,
           NEW As \in SUBSET Attr, NEW Fail \in SUBSET As, NEW new, NEW Bad,
           AddDev(h, d, t, As, Fail, new, Bad)
    PROVE  KInv'
<1> DEFINE fresh  == Keys(d, As \ Fail, t) \ subscribed
           joined == {k \in Keys(d, As, t) \cap subscribed : h \notin connList[k]}
<1>1. /\ fresh \in SUBSET Key /\ fresh \cap subscribed = {}
      /\ joined \in SUBSET subscribed /\ joined \in SUBSET Key
  BY DEF Key, Keys
<1>2. /\ subscribed' = subscribed \cup fresh
      /\ connList' = [k \in Key |-> IF k \in fresh \cup joined THEN connList[k] \cup {h}
                                    ELSE connList[k]]
      /\ wasException' = wasException \cup Bad /\ Bad \subseteq fresh
      /\ behind' = behind \cup ({h} \X (fresh \cup joined))
      /\ heard' = heard
  BY DEF AddDev
<1> HIDE DEF fresh, joined
<1>3. OfListeners'
  <2> SUFFICES ASSUME NEW p \in heard' \cup behind' PROVE p[1] \in connList'[p[2]]
    BY DEF OfListeners
  <2>1. CASE p \in heard \cup behind
    BY <1>2, <2>1 DEF KInv, OfListeners, IInv, TypeOK
  <2>2. CASE p \in {h} \X (fresh \cup joined)
    BY <1>1, <1>2, <2>2
  <2> QED
    BY <1>2, <2>1, <2>2
<1>4. KnownToListeners'
  <2> SUFFICES ASSUME NEW k \in subscribed', NEW g \in connList'[k], <<g, k>> \notin behind'
               PROVE  <<g, k>> \in heard' <=> k \in wasException'
    BY DEF KnownToListeners
  <2>1. k \in Key
    BY <1>1, <1>2 DEF IInv, TypeOK
  <2>2. ~(g = h /\ k \in fresh \cup joined) /\ <<g, k>> \notin behind
    BY <1>2
  <2>3. g \in connList[k]
    BY <1>2, <2>1, <2>2
  <2>4. k \in subscribed /\ k \notin Bad
    BY <1>1, <1>2, <2>1, <2>3 DEF IInv, LiveIsHeld
  <2> QED
    BY <1>2, <2>2, <2>3, <2>4 DEF KInv, KnownToListeners
<1> QED
  BY <1>1, <1>2, <1>3, <1>4 DEF KInv

\* An event that is sent leaves every listener with what _wasException keeps of it; one that
\* is dropped leaves every listener behind.
LEMMA PushEventKnown ==
    ASSUME IInv, KInv, NEW k \in Key, NEW err \in BOOLEAN, NEW busy \in BOOLEAN,
           PushEvent(k, err, busy)
    PROVE  KInv'
<1>1. /\ k \in subscribed /\ connList' = connList /\ subscribed' = subscribed
      /\ wasException' = IF err THEN wasException \cup {k} ELSE wasException \ {k}
  BY DEF PushEvent, subVars
<1>2. \/ /\ ~busy
         /\ heard' = IF err THEN heard \cup (connList[k] \X {k}) ELSE heard \ (connList[k] \X {k})
         /\ behind' = behind \ (connList[k] \X {k})
      \/ /\ busy
         /\ behind' = behind \cup (connList[k] \X {k}) /\ heard' = heard
  BY DEF PushEvent, sendMessage
<1>3. OfListeners'
  <2> SUFFICES ASSUME NEW p \in heard' \cup behind' PROVE p[1] \in connList'[p[2]]
    BY DEF OfListeners
  <2>1. p \in heard \cup behind \/ p \in connList[k] \X {k}
    BY <1>2
  <2> QED
    BY <1>1, <2>1 DEF KInv, OfListeners
<1>4. KnownToListeners'
  <2> SUFFICES ASSUME NEW l \in subscribed, NEW g \in connList[l], <<g, l>> \notin behind'
               PROVE  <<g, l>> \in heard' <=> l \in wasException'
    BY <1>1 DEF KnownToListeners
  <2>1. CASE l = k
    BY <1>1, <1>2, <2>1
  <2>2. CASE l # k
    BY <1>1, <1>2, <2>2 DEF KInv, KnownToListeners
  <2> QED
    BY <2>1, <2>2
<1> QED
  BY <1>1, <1>3, <1>4 DEF KInv

\* Every step keeps _wasException and what the listeners know together.
LEMMA NextKnown == IInv /\ KInv /\ [Next]_vars => KInv'
<1> SUFFICES ASSUME IInv, KInv, [Next]_vars PROVE KInv'
  OBVIOUS
<1>1. ASSUME NEW h \in Hdl, SomeAddDev(h) PROVE KInv'
  <2>1. PICK d \in Dev, t \in EvType, As \in (SUBSET Attr) \ {{}} :
          \E Fail \in SUBSET As : \E new, Bad : AddDev(h, d, t, As, Fail, new, Bad)
    BY <1>1 DEF SomeAddDev
  <2>2. PICK Fail \in SUBSET As : \E new, Bad : AddDev(h, d, t, As, Fail, new, Bad)
    BY <2>1
  <2>3. PICK new, Bad : AddDev(h, d, t, As, Fail, new, Bad)
    BY <2>2
  <2> QED
    BY <2>3, AddDevKnown, Zenon
<1>2. ASSUME NEW h \in Hdl, Off(h) \/ Disconnect(h) PROVE KInv'
  <2>1. Recorded(h) \in SUBSET Key /\ Unsubscribe(h, Recorded(h))
    BY <1>2 DEF Off, Disconnect, UnsubscribeAllDev, Recorded
  <2> QED
    BY <2>1, UnsubscribeKnown
<1>3. ASSUME NEW h \in Hdl, NEW i \in SubId, RemDev(h, i) PROVE KInv'
  <2>1. {listOfId[i]} \in SUBSET Key /\ Unsubscribe(h, {listOfId[i]})
    BY <1>3 DEF RemDev, IInv, TypeOK
  <2> QED
    BY <2>1, UnsubscribeKnown
<1>4. CASE UNCHANGED <<connList, subscribed, wasException, heard, behind>>
  BY <1>4 DEF KInv, OfListeners, KnownToListeners
<1>5. ASSUME NEW h \in Hdl, Connect(h) \/ \E k \in Key : CheckDev(h, k) PROVE KInv'
  BY <1>4, <1>5 DEF Connect, CheckDev, subVars, errVars
<1>6. ASSUME NEW k \in Key, NEW err \in BOOLEAN, NEW busy \in BOOLEAN, PushEvent(k, err, busy)
      PROVE  KInv'
  BY <1>6, PushEventKnown
<1>7. CASE UNCHANGED vars
  BY <1>4, <1>7 DEF vars, subVars, errVars
<1> QED
  BY <1>1, <1>2, <1>3, <1>5, <1>6, <1>7 DEF Next

\* Whoever listens to a subscription and is not behind was told last what _wasException keeps
\* (WsEvCallBackCli::push_event), however clients come and go and subscriptions begin anew.
THEOREM FlagIsKnown == Spec => []KnownToListeners
<1>1. Init => KInv
  BY DEF Init, KInv, OfListeners, KnownToListeners
<1>2. KInv => KnownToListeners
  BY DEF KInv
<1> QED
  BY <1>1, <1>2, NextKnown, MapsAgree, PTL DEF Spec

\* What one step's answer tells of a subscription.
Usable(r) ==
    \/ r[2] # NoId /\ listOfId'[r[2]] = r[1]
    \/ r[1] \in subscribed /\ connList'[r[1]] # connList[r[1]]
    \/ answer' = answer

\* eventreq_add_dev answers with the ids it has stored, but for those it joined.
LEMMA AddDevUsable ==
    ASSUME IInv, IInv', NEW h \in Hdl, NEW d \in Dev, NEW t \in EvType,
           NEW As \in SUBSET Attr, NEW Fail \in SUBSET As, NEW new, NEW Bad,
           AddDev(h, d, t, As, Fail, new, Bad), NEW r \in answer'
    PROVE  Usable(r)
<1> DEFINE fresh  == Keys(d, As \ Fail, t) \ subscribed
           joined == {k \in Keys(d, As, t) \cap subscribed : h \notin connList[k]}
           early  == {k \in Keys(d, As, t) \cap subscribed : h \in connList[k]}
<1>1. /\ fresh \in SUBSET Key
      /\ joined \in SUBSET subscribed /\ joined \in SUBSET Key
      /\ early \in SUBSET subscribed /\ early \in SUBSET Key
      /\ \A k \in joined : h \notin connList[k]
  BY DEF Key, Keys
<1>2. /\ subscribed' = subscribed \cup fresh
      /\ connList' = [k \in Key |-> IF k \in fresh \cup joined THEN connList[k] \cup {h}
                                    ELSE connList[k]]
  BY DEF AddDev
<1>3. PICK garbage \in [joined -> SubId \cup {NoId}] :
          answer' = {<<k, eventSubId'[k]>> : k \in fresh \cup early}
                    \cup {<<k, garbage[k]>> : k \in joined}
  BY DEF AddDev
<1> HIDE DEF fresh, joined, early
<1>4. ASSUME NEW k \in fresh \cup early, r = <<k, eventSubId'[k]>> PROVE Usable(r)
  <2>1. k \in Key /\ k \in subscribed'
    BY <1>1, <1>2
  <2>2. eventSubId'[k] \in SubId
    BY <2>1 DEF IInv, TypeOK
  <2>3. listOfId'[eventSubId'[k]] = k
    BY <2>1, <2>2 DEF IInv, IdsMatch
  <2>4. eventSubId'[k] # NoId
    BY <2>2, ConstantsAssumption
  <2> QED
    BY <1>4, <2>3, <2>4 DEF Usable
<1>5. ASSUME NEW k \in joined, r = <<k, garbage[k]>> PROVE Usable(r)
  BY <1>1, <1>2, <1>5 DEF Usable, IInv, TypeOK
<1> QED
  BY <1>3, <1>4, <1>5

\* An id that a client is told names the subscription it was told for: a later
\* eventreq_rem_dev with it removes this subscription and no other.
THEOREM IdsAsTold == Spec => ToldUsableId
<1>1. IInv /\ IInv' /\ [Next]_vars => [\A r \in answer' : Usable(r)]_vars
  <2> SUFFICES ASSUME IInv, IInv', Next, NEW r \in answer' PROVE Usable(r)
    OBVIOUS
  <2>1. ASSUME NEW h \in Hdl, SomeAddDev(h) PROVE Usable(r)
    <3>1. PICK d \in Dev, t \in EvType, As \in (SUBSET Attr) \ {{}} :
            \E Fail \in SUBSET As : \E new, Bad : AddDev(h, d, t, As, Fail, new, Bad)
      BY <2>1 DEF SomeAddDev
    <3>2. PICK Fail \in SUBSET As : \E new, Bad : AddDev(h, d, t, As, Fail, new, Bad)
      BY <3>1
    <3>3. PICK new, Bad : AddDev(h, d, t, As, Fail, new, Bad)
      BY <3>2
    <3> QED
      BY <3>3, AddDevUsable, Zenon
  <2>2. ASSUME NEW h \in Hdl, NEW k \in Key, CheckDev(h, k) PROVE Usable(r)
    <3>1. /\ r = <<k, eventSubId[k]>> /\ k \in subscribed
          /\ listOfId' = listOfId
      BY <2>2 DEF CheckDev, subVars
    <3>2. eventSubId[k] \in SubId /\ listOfId[eventSubId[k]] = k
      BY <3>1 DEF IInv, TypeOK, IdsMatch
    <3> QED
      BY <3>1, <3>2, ConstantsAssumption DEF Usable
  <2>3. ASSUME NEW h \in Hdl, Off(h) \/ Disconnect(h) \/ \E i \in SubId : RemDev(h, i)
        PROVE  Usable(r)
    BY <2>3 DEF Off, Disconnect, UnsubscribeAllDev, RemDev
  <2>4. ASSUME NEW h \in Hdl, Connect(h) PROVE Usable(r)
    BY <2>4 DEF Connect, Usable
  <2>5. ASSUME NEW k \in Key, NEW err \in BOOLEAN, NEW busy \in BOOLEAN, PushEvent(k, err, busy)
        PROVE  Usable(r)
    BY <2>5 DEF PushEvent, Usable
  <2> QED
    BY <2>1, <2>2, <2>3, <2>4, <2>5 DEF Next
<1> QED
  BY <1>1, MapsAgree, PTL DEF Spec, ToldUsableId, Usable

===============================================================================
