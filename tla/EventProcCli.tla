----------------------------- MODULE EventProcCli -----------------------------
(***************************************************************************)
(* Event subscriptions in client mode: class EventProcCli and its          *)
(* callbacks WsEvCallBackCli.                                              *)
(*                                                                         *)
(* The clients share one Tango subscription per (device, attribute, event  *)
(* type). Its bookkeeping is spread over four maps that every request has  *)
(* to keep in step: usedDevices, eventSubs, eventTypes and listOfId. The   *)
(* requests come from the asio thread and hold m_eventproc_lock, so each   *)
(* is one action; push_event, on Tango's event thread, only tries the lock *)
(* and drops the event when it is taken.                                   *)
(*                                                                         *)
(* Tango gives each subscription a new id and each connection has a new    *)
(* handle; one that is not referenced any more returns to the pool.        *)
(***************************************************************************)
EXTENDS Integers, FiniteSets

CONSTANTS
    Hdl,         \* connection handles
    Dev, Attr,   \* device and attribute names
    EvType,      \* event types
    SubId,       \* Tango's subscription ids
    NoKey,       \* "no subscription"
    NoType,      \* "no event type"
    NoId         \* an int that is no subscription id

Key == Dev \X Attr \X EvType

ASSUME ConstantsAssumption ==
    /\ NoKey \notin Key
    /\ NoType \notin EvType
    /\ NoId \notin SubId

VARIABLES
    connected,    \* handles of the connected clients
    usedDevices,  \* devices with a DeviceProxy
    subscribed,   \* keys of eventSubs (those with an evCallback)
    connList,     \* UsedEventSubscr::connList
    eventSubId,   \* UsedEventSubscr::eventSubId
    eventTypes,   \* per connection, device and attribute: one event type
    listOfId,     \* per subscription id: its key
    wasException, \* subscriptions whose WsEvCallBackCli has _wasException set
    heard,        \* <<h, k>>: an exception is the last that h was told of k (history)
    behind,       \* <<h, k>>: h was not told the last event of k (history)
    answer        \* the (key, event_sub_id) pairs of the last add or check answer

subVars == <<usedDevices, subscribed, connList, eventSubId, eventTypes, listOfId>>
errVars == <<wasException, heard, behind>>
vars == <<connected, subVars, errVars, answer>>

TypeOK ==
    /\ connected \in SUBSET Hdl
    /\ usedDevices \in SUBSET Dev
    /\ subscribed \in SUBSET Key
    /\ connList \in [Key -> SUBSET Hdl]
    /\ eventSubId \in [Key -> SubId \cup {NoId}]
    /\ eventTypes \in [Hdl -> [Dev \X Attr -> EvType \cup {NoType}]]
    /\ listOfId \in [SubId -> Key \cup {NoKey}]
    /\ wasException \in SUBSET Key
    /\ heard \in SUBSET (Hdl \X Key)
    /\ behind \in SUBSET (Hdl \X Key)
    /\ answer \in SUBSET (Key \X (SubId \cup {NoId}))
    /\ \A k \in subscribed : eventSubId[k] \in SubId

Init ==
    /\ connected = {}
    /\ usedDevices = {}
    /\ subscribed = {}
    /\ connList = [k \in Key |-> {}]
    /\ eventSubId = [k \in Key |-> NoId]
    /\ eventTypes = [h \in Hdl |-> [da \in Dev \X Attr |-> NoType]]
    /\ listOfId = [i \in SubId |-> NoKey]
    /\ wasException = {}
    /\ heard = {}
    /\ behind = {}
    /\ answer = {}

-------------------------------------------------------------------------------

\* A connection is opened: its handle is not in any of the maps.
Connect(h) ==
    /\ h \notin connected
    /\ \A k \in Key : h \notin connList[k]
    /\ connected' = connected \cup {h}
    /\ UNCHANGED <<subVars, errVars, answer>>

\* The subscriptions to the attributes As of a device under one event type.
Keys(d, As, t) == {d} \X As \X {t}

\* The new ids go into listOfId only.
ListNewIds(new) ==
    /\ listOfId' = [i \in SubId |->
           IF \E k \in DOMAIN new : new[k] = i THEN CHOOSE k \in DOMAIN new : new[k] = i
           ELSE listOfId[i]]
    /\ UNCHANGED eventSubId

\* The ids of new subscriptions are stored in eventSubs and listOfId.
StoreIds(new) ==
    /\ listOfId' = [i \in SubId |->
           IF \E k \in DOMAIN new : new[k] = i THEN CHOOSE k \in DOMAIN new : new[k] = i
           ELSE listOfId[i]]
    /\ eventSubId' = [k \in Key |-> IF k \in DOMAIN new THEN new[k] ELSE eventSubId[k]]

\* The DeviceProxy is kept although nothing could be subscribed.
KeepDevice(d, nothingSubscribed) == usedDevices' = usedDevices \cup {d}

\* A DeviceProxy made for this request is deleted when nothing could be subscribed.
UseDevice(d, nothingSubscribed) ==
    usedDevices' = IF nothingSubscribed THEN usedDevices ELSE usedDevices \cup {d}

\* eventreq_add_dev: _checkEventReqList for the attributes As of device d under event
\* type t. New subscriptions get the ids new; subscribe_event raises for the attributes
\* in Fail. (When the DeviceProxy cannot be created nothing changes.) Tango calls the
\* callback of a new subscription at once, while the lock is taken: the first event, with
\* an error for the keys in Bad, is dropped. Nobody tells a client that joins a subscription
\* what its last event was.
AddDev(h, d, t, As, Fail, new, Bad) ==
    LET asked  == Keys(d, As, t)
        fresh  == Keys(d, As \ Fail, t) \ subscribed
        joined == {k \in asked \cap subscribed : h \notin connList[k]}
        early  == {k \in asked \cap subscribed : h \in connList[k]}
    IN
    /\ h \in connected
    /\ Keys(d, Fail, t) \cap subscribed = {}
    /\ new \in [fresh -> {i \in SubId : listOfId[i] = NoKey}]
    /\ \A k, l \in fresh : new[k] = new[l] => k = l
    /\ Bad \subseteq fresh
    /\ UseDevice(d, As = Fail)
    /\ subscribed' = subscribed \cup fresh
    /\ connList' = [k \in Key |-> IF k \in fresh \cup joined THEN connList[k] \cup {h}
                                  ELSE connList[k]]
    /\ StoreIds(new)
    /\ eventTypes' = [eventTypes EXCEPT ![h] =
           [da \in Dev \X Attr |->
               IF <<da[1], da[2], t>> \in fresh \cup joined THEN t ELSE @[da]]]
    /\ wasException' = wasException \cup Bad
    /\ behind' = behind \cup ({h} \X (fresh \cup joined))
    \* resp.eventSubId is not assigned for a subscription that is joined
    /\ \E garbage \in [joined -> SubId \cup {NoId}] :
          answer' = {<<k, eventSubId'[k]>> : k \in fresh \cup early}
                    \cup {<<k, garbage[k]>> : k \in joined}
    /\ UNCHANGED <<connected, heard>>

\* The listeners are counted before the connection is erased.
DesertedBefore(h, ks) == {k \in ks : connList[k] = {}}

\* The subscriptions of ks whose last listener is h.
Deserted(h, ks) == {k \in ks : connList[k] \subseteq {h}}

\* connList.clear() in the place of connList.erase(hdl).
ClearListeners(h, ks) == connList' = [k \in Key |-> IF k \in ks THEN {} ELSE connList[k]]

\* connList.erase(hdl)
EraseListener(h, ks) ==
    connList' = [k \in Key |-> IF k \in ks THEN connList[k] \ {h} ELSE connList[k]]

\* The ids stay in listOfId.
KeepIds(dead) ==
    /\ eventSubId' = [k \in Key |-> IF k \in dead THEN NoId ELSE eventSubId[k]]
    /\ UNCHANGED listOfId

\* The ids of deleted subscriptions are forgotten.
EraseIds(dead) ==
    /\ listOfId' = [i \in SubId |-> IF \E k \in dead : eventSubId[k] = i THEN NoKey
                                    ELSE listOfId[i]]
    /\ eventSubId' = [k \in Key |-> IF k \in dead THEN NoId ELSE eventSubId[k]]

\* _delSubHdl, which returns the subscriptions that have lost their last listener, and
\* _clearSubscrInfoMaps for those: the connection h leaves the subscriptions ks.
Unsubscribe(h, ks) ==
    LET dead == Deserted(h, ks)
        live == subscribed \ dead
    IN
    /\ EraseListener(h, ks)
    /\ subscribed' = live
    /\ EraseIds(dead)
    /\ usedDevices' = {d \in usedDevices :
           (\E k \in dead : k[1] = d) => \E k \in live : k[1] = d}
    /\ wasException' = wasException \ dead
    /\ heard' = heard \ ({h} \X ks)
    /\ behind' = behind \ ({h} \X ks)

\* An eventreq_rem_dev that leaves eventTypes alone.
RemDevKeepsType(h, i) ==
    /\ h \in connected
    /\ listOfId[i] # NoKey
    /\ Unsubscribe(h, {listOfId[i]})
    /\ answer' = {}
    /\ UNCHANGED <<connected, eventTypes>>

\* eventreq_rem_dev with the id of some subscription, the client's own or not. Only an
\* id that is not in listOfId is refused.
RemDev(h, i) ==
    /\ h \in connected
    /\ listOfId[i] # NoKey
    /\ Unsubscribe(h, {listOfId[i]})
    /\ eventTypes' = [eventTypes EXCEPT ![h][<<listOfId[i][1], listOfId[i][2]>>] = NoType]
    /\ answer' = {}
    /\ UNCHANGED connected

\* The subscriptions unsubscribeAllDev finds for h: one event type per attribute.
Recorded(h) == {k \in Key : eventTypes[h][<<k[1], k[2]>>] = k[3]}

\* unsubscribeAllDev
UnsubscribeAllDev(h) ==
    /\ Unsubscribe(h, Recorded(h))
    /\ eventTypes' = [eventTypes EXCEPT ![h] = [da \in Dev \X Attr |-> NoType]]
    /\ answer' = {}

\* eventreq_off
Off(h) ==
    /\ h \in connected
    /\ UnsubscribeAllDev(h)
    /\ UNCHANGED connected

\* clientDisconnected, from on_close
Disconnect(h) ==
    /\ h \in connected
    /\ UnsubscribeAllDev(h)
    /\ connected' = connected \ {h}

\* eventreq_check_dev: _getIdOfEventSubscription
CheckDev(h, k) ==
    /\ h \in connected
    /\ k \in subscribed
    /\ h \in connList[k]
    /\ answer' = {<<k, eventSubId[k]>>}
    /\ UNCHANGED <<connected, subVars, errVars>>

\* sendMessage: the event goes to every listener, or to none when the lock is busy.
sendMessage(k, err, busy) ==
    LET listeners == connList[k] \X {k} IN
    \/ /\ ~busy
       /\ heard' = IF err THEN heard \cup listeners ELSE heard \ listeners
       /\ behind' = behind \ listeners
    \/ /\ busy
       /\ behind' = behind \cup listeners
       /\ UNCHANGED heard

\* A push_event whose flag is reset by the exception it suppresses.
PushEventToggles(k, err, busy) ==
    /\ k \in subscribed
    /\ \/ err /\ k \in wasException /\ UNCHANGED <<heard, behind>>
       \/ ~(err /\ k \in wasException) /\ sendMessage(k, err, busy)
    /\ wasException' = IF err /\ k \notin wasException
                       THEN wasException \cup {k} ELSE wasException \ {k}
    /\ UNCHANGED <<connected, subVars, answer>>

\* push_event: of exceptions that follow each other only the first is passed on, and
\* _wasException is set or cleared whether or not the event was sent.
PushEvent(k, err, busy) ==
    /\ k \in subscribed
    /\ ~(err /\ k \in wasException)
    /\ sendMessage(k, err, busy)
    /\ wasException' = IF err THEN wasException \cup {k} ELSE wasException \ {k}
    /\ UNCHANGED <<connected, subVars, answer>>

-------------------------------------------------------------------------------

\* A device with some of its attributes under one event type.
SomeAddDev(h) ==
    \E d \in Dev, t \in EvType, As \in (SUBSET Attr) \ {{}} :
        \E Fail \in SUBSET As :
            LET fresh == Keys(d, As \ Fail, t) \ subscribed IN
            \E new \in [fresh -> SubId] :
                \E Bad \in SUBSET fresh :
                    AddDev(h, d, t, As, Fail, new, Bad)

Next ==
    \/ \E h \in Hdl :
        \/ Connect(h) \/ SomeAddDev(h) \/ Off(h) \/ Disconnect(h)
        \/ \E i \in SubId : RemDev(h, i)
        \/ \E k \in Key : CheckDev(h, k)
    \/ \E k \in Key, err, busy \in BOOLEAN : PushEvent(k, err, busy)

Spec == Init /\ [][Next]_vars

-------------------------------------------------------------------------------
(* Properties *)

\* unsubscribeAllDev finds a live subscription with this listener for everything it
\* reads from eventTypes: for anything else operator[] would make an empty entry and
\* _delSubHdl would call unsubscribe_event through a null DeviceProxy.
BackRefs ==
    \A h \in Hdl : \A k \in Recorded(h) : k \in subscribed /\ h \in connList[k]

\* listOfId and eventSubs name the same subscriptions under the same ids, so
\* eventreq_rem_dev never removes another subscription than the one it names.
IdsMatch ==
    \A i \in SubId, k \in Key : listOfId[i] = k <=> k \in subscribed /\ eventSubId[k] = i

\* No Tango subscription is kept without a listener, none is dropped with one.
LiveIsHeld == \A k \in Key : k \in subscribed <=> connList[k] # {}

\* A DeviceProxy is kept exactly as long as it has subscriptions, whatever the order in
\* which lists fail, are joined and are removed.
DevicesInUse == usedDevices = {k[1] : k \in subscribed}

\* Over any sequence of requests, failures and disconnections by several clients, neither a
\* Tango subscription nor a DeviceProxy is left over, nor dropped while somebody uses it.
NoneLeaked == LiveIsHeld /\ DevicesInUse

\* The id a client is told is one eventreq_rem_dev takes for this very subscription,
\* whatever was subscribed, shared and removed before; except when the client joins a
\* subscription, whose answer has an id that was never assigned (EventProcCli.cpp:475).
ToldUsableId ==
    [][\A r \in answer' :
         \/ r[2] # NoId /\ listOfId'[r[2]] = r[1]
         \/ r[1] \in subscribed /\ connList'[r[1]] # connList[r[1]]
         \/ answer' = answer]_vars

\* What _wasException keeps of a subscription is what each of its clients was told last,
\* whenever the client came and whoever else came and left since: push_event suppresses an
\* exception only towards clients that know of it. The clients that are behind are excepted:
\* those who were not told the last event because they have joined later, or because it was
\* dropped with the lock taken (EventProcCli.cpp:58).
KnownToListeners ==
    \A k \in subscribed : \A h \in connList[k] :
        <<h, k>> \notin behind => (<<h, k>> \in heard <=> k \in wasException)

\* push_event's comment, "to avoid sending repeated messages about exceptions"
\* (WsEvCallBackCli.cpp:18): no client is told of an exception twice in a row. It is when the
\* normal event in between was dropped, which clears the flag all the same.
SentOnce ==
    [][\A k \in Key : PushEvent(k, TRUE, FALSE) =>
           \A h \in connList[k] : <<h, k>> \notin heard]_vars

===============================================================================
