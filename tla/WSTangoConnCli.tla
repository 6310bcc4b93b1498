----------------------------- MODULE WSTangoConnCli -----------------------------
(***************************************************************************)
(* The client-mode gateway on top of the connection table of WSThread: a   *)
(* client names the device of each request, so sendRequestAsync makes a    *)
(* DeviceProxy (one per device of a group) and hands it over to the        *)
(* TaskInfo of the request as a raw pointer. checkResponse deletes it      *)
(* with the answer. Every step of WSThread is taken together with what it  *)
(* does to these proxies.                                                  *)
(***************************************************************************)
EXTENDS WSThread

VARIABLES
    proxy   \* TaskInfo::deviceForWs of each request: "none", "live", "deleted"

cliVars == <<vars, proxy>>

ProxyInit == proxy = [i \in Id |-> "none"]

-------------------------------------------------------------------------------

\* TaskInfos are destroyed and their pointers with them; a proxy that is still live leaks.
Drop(ids) == proxy' = [i \in Id |-> IF i \in ids THEN "none" ELSE proxy[i]]

-------------------------------------------------------------------------------
(* Requests *)

\* _sendRequestAsyncDevOrGr with processAsyncReq: every request issued owns a proxy. The
\* proxy of a device that refuses has no owner: it is never deleted.
SendRequestAsync(c, ids, errs) ==
    /\ OnMessageAsync(c, ids, errs)
    /\ proxy' = [i \in Id |-> IF i \in ids THEN "live" ELSE proxy[i]]

\* addActive for a connection that is gone forgets the TaskInfos.
AddTasks ==
    /\ AddActive
    /\ IF asioConn \in active \cup connections THEN UNCHANGED proxy ELSE Drop(asioIds)

-------------------------------------------------------------------------------
(* Answers *)

\* A checkResponse that deletes the proxy only after a reply that is no DevFailed.
CheckResponseKeeps(i) ==
    /\ CheckRequest(i)
    /\ IF reply[i] = "pending"
       THEN UNCHANGED proxy
       ELSE proxy' \in {proxy, [proxy EXCEPT ![i] = "deleted"]}

\* checkResponse: asks the proxy for the reply; unless it has not arrived, the proxy is
\* deleted, before the answer (or the error of a DevFailed) is sent.
CheckResponse(i) ==
    /\ CheckRequest(i)
    /\ IF reply[i] = "pending"
       THEN UNCHANGED proxy
       ELSE proxy' = [proxy EXCEPT ![i] = "deleted"]

\* _checkRequests erases the TaskInfos of the answered requests.
EraseTasks ==
    /\ LeaveConn
    /\ Drop(sentIds)

\* on_close deletes the ConnectionData with its TaskInfos.
CloseTasks(c) ==
    /\ OnClose(c)
    /\ Drop(tasks[c])

-------------------------------------------------------------------------------

\* The steps of WSThread that touch no TaskInfo.
Other ==
    \/ Listen \/ PortBusy
    \/ \E c \in Conn : OnValidate(c) \/ OnFail(c) \/ OnOpen(c) \/ PeerCloses(c) \/ VisitConn(c)
                        \/ OnMessageSync(c) \/ OnMessageRaises(c)
    \/ Notify \/ SendGroupError \/ DropActive
    \/ EvalWait \/ Block \/ PollLoop \/ EndScan \/ SpuriousWakeup
    \/ \E i \in Id : ReplyArrives(i)
    \/ \E F \in SUBSET Conn : EventSend(F)
    \/ EventClose

CliNext ==
    \/ \E c \in Conn :
        \/ \E ids \in SUBSET Id, errs \in 0..MaxErr : SendRequestAsync(c, ids, errs)
        \/ CloseTasks(c)
    \/ AddTasks
    \/ \E i \in Id : CheckResponse(i)
    \/ EraseTasks
    \/ Other /\ UNCHANGED proxy

CliSpec == Init /\ ProxyInit /\ [][CliNext]_cliVars

-------------------------------------------------------------------------------

\* As long as the socket of a client is open, the requests actTh will ask about have a
\* proxy that can be asked: a failed send, which leaves TaskInfos with deleted proxies
\* behind, has closed the socket.
OpenTasksLive ==
    \A c \in Conn, i \in Id :
        sock[c] = "open" /\ i \in tasks[c] /\ proxy[i] = "deleted" => scanConn = c /\ i \in sentIds

===============================================================================
