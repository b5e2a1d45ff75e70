--------------------------- MODULE ControlClient ---------------------------
(***************************************************************************)
(* The Python client of the control server (AsyncClient) under the tasks   *)
(* that use it: users that put parameters and the job that reads the       *)
(* configuration back into the parameter tree.  Tasks run on one event     *)
(* loop and are interleaved where they sleep.  The server handles the      *)
(* requests one by one (ScalarWindows).  The connection may drop, with     *)
(* what is in flight lost, and a task gives up after a timeout while its   *)
(* request or its reply is still on the way.                               *)
(***************************************************************************)
EXTENDS ScalarWindows

CONSTANTS
  Users,         \* tasks of HTTP requests
  Poller,        \* the task of AsyncPeriodicJob
  Ids,           \* message ids
  Lists,         \* the whole lists that users put
  MaxPuts        \* bound: requests of users

ASSUME ClientAssumption ==
  /\ Poller \notin Users
  /\ Lists \subseteq Seq(Values)
  /\ MaxPuts \in Nat

VARIABLES
  connected,    \* AbstractClient.connected
  wire,         \* requests on the way to the server
  replies,      \* replies on the way to the client
  sendBuffer,   \* send_buffer: the requests sent
  recvBuffer,   \* recv_buffer: the replies kept for the tasks
  waiting,      \* the tasks in send_recv, with what they wait for
  tree,         \* the values of the two ListParameters
  polling,      \* AsyncPeriodicJob._running
  puts

clientVars == <<connected, wire, replies, sendBuffer, recvBuffer, waiting,
                tree, polling, puts>>
vars == <<serverVars, clientVars>>

Tasks == Users \union {Poller}
Message == [id : Ids, ask : Limits \union {"request"}, values : Seq(Values)]
Reply == [to : Message, ack : BOOLEAN, shows : [Limits -> ValueLists]]
Wait == [task : Tasks, msg : Message, element : BOOLEAN]
Nothing == [limit \in Limits |-> <<>>]

Init ==
  /\ WindowsInit
  /\ connected = FALSE
  /\ wire = <<>> /\ replies = <<>>
  /\ sendBuffer = {} /\ recvBuffer = {} /\ waiting = {}
  /\ tree = Nothing
  /\ polling = TRUE
  /\ puts = 0

OnWire(id) == \E i \in DOMAIN wire : wire[i].id = id
OnWayBack(id) == \E i \in DOMAIN replies : replies[i].to.id = id
Buffered(id) == \E m \in sendBuffer : m.id = id
Kept(id) == \E r \in recvBuffer : r.to.id = id

(* get_id counts up to 2^32, starts over, and does not look whether an id  *)
(* is in use.  An id of the model is one that nothing refers to: that also *)
(* after 2^32 requests none is met that was left in the send buffer by a   *)
(* cancelled request is an assumption.                                     *)
FreeIds == {id \in Ids : ~(OnWire(id) \/ OnWayBack(id) \/ Buffered(id))}
GetId == CHOOSE id \in FreeIds : TRUE

(* send_recv up to its first sleep.  Without a connection it raises an     *)
(* error, and nothing changes.                                             *)
Send(task, ask, values, element) ==
  LET msg == [id |-> GetId, ask |-> ask, values |-> values]
  IN  /\ connected
      /\ FreeIds # {}
      /\ \A w \in waiting : w.task # task
      /\ wire' = Append(wire, msg)
      /\ sendBuffer' = sendBuffer \union {msg}
      /\ waiting' = waiting \union
           {[task |-> task, msg |-> msg, element |-> element]}
      /\ UNCHANGED <<serverVars, connected, replies, recvBuffer, tree, polling>>

UserCalls == puts < MaxPuts /\ puts' = puts + 1

(* A user puts a whole list, or one element: the list of the tree is       *)
(* copied, and all of it is sent.                                          *)
Put(user, limit) ==
  UserCalls /\ \E values \in Lists : Send(user, limit, values, FALSE)
PutElement(user, limit) ==
  UserCalls /\ \E i \in DOMAIN tree[limit], value \in Values :
                 Send(user, limit, [tree[limit] EXCEPT ![i] = value], TRUE)

(* A user asks for the configuration to be read, or the job does.          *)
ReadConfig(user) == UserCalls /\ Send(user, "request", <<>>, FALSE)
Poll == polling /\ Send(Poller, "request", <<>>, FALSE) /\ UNCHANGED puts

(* The server handles the next request, and replies with the id of it: to  *)
(* a client that is gone, nothing.                                         *)
Answer(msg) ==
  [to |-> msg, ack |-> msg.ask = "request" \/ acked',
   shows |-> IF msg.ask = "request" THEN cached ELSE Nothing]

Serve ==
  /\ wire # <<>>
  /\ LET msg == Head(wire)
     IN  /\ \/ msg.ask = "request" /\ UNCHANGED serverVars
            \/ msg.ask # "request" /\ SetLimits(msg.ask, msg.values)
         /\ replies' = IF connected THEN Append(replies, Answer(msg)) ELSE replies
  /\ wire' = Tail(wire)
  /\ UNCHANGED <<connected, sendBuffer, recvBuffer, waiting, tree, polling,
                 puts>>

(* Mutant: every reply is kept.                                            *)
AwaitedAlways(reply) == TRUE

(* Is the reply for a request that was sent and has not been given up?     *)
Awaited(reply) == Buffered(reply.to.id)

Stored(reply) == {r \in recvBuffer : r.to.id # reply.to.id} \union {reply}

Receive ==
  /\ replies # <<>>
  /\ replies' = Tail(replies)
  /\ recvBuffer' = IF Awaited(Head(replies)) THEN Stored(Head(replies)) ELSE recvBuffer
  /\ UNCHANGED <<serverVars, connected, wire, sendBuffer, waiting, tree,
                 polling, puts>>

Forget(w) ==
  /\ sendBuffer' = {m \in sendBuffer : m.id # w.msg.id}
  /\ waiting' = waiting \ {w}

(* Mutant: the lists are only filled once.                                 *)
TreeAfterFirst(w, reply) ==
  [limit \in Limits |->
     IF w.msg.ask = "request" /\ tree[limit] = <<>> THEN reply.shows[limit]
     ELSE IF w.element /\ w.msg.ask = limit THEN w.msg.values ELSE tree[limit]]

(* The tree after the answer.  A configuration without a list leaves the   *)
(* parameter of that list alone, an element is put whatever the answer is, *)
(* and a whole list is left to the next configuration.  The values of a    *)
(* configuration are taken to be of the types of the tree: the exception   *)
(* of a validator would leave the rest of the tree as it was.              *)
TreeAfter(w, reply) ==
  [limit \in Limits |->
     IF w.msg.ask = "request" /\ reply.shows[limit] # <<>> THEN reply.shows[limit]
     ELSE IF w.element /\ w.msg.ask = limit THEN w.msg.values ELSE tree[limit]]

(* A task wakes up and finds its reply.                                    *)
Wake(task) ==
  \E w \in waiting, reply \in recvBuffer :
    /\ w.task = task
    /\ reply.to.id = w.msg.id
    /\ tree' = TreeAfter(w, reply)
    /\ recvBuffer' = recvBuffer \ {reply}
    /\ Forget(w)
    /\ UNCHANGED <<serverVars, connected, wire, replies, polling, puts>>

(* A task wakes up, finds no reply, and its time is over: the request or   *)
(* the reply is late, or it is lost.                                       *)
OnTheWay(id) == OnWire(id) \/ OnWayBack(id)
GiveUp(w) ==
  /\ ~Kept(w.msg.id)
  /\ Forget(w)
  /\ UNCHANGED <<windowVars, connected, wire, replies, recvBuffer, tree,
                 polling, puts>>
Late(task) ==
  \E w \in waiting :
    /\ w.task = task /\ OnTheWay(w.msg.id)
    /\ Trouble
    /\ GiveUp(w)
Lost(task) ==
  \E w \in waiting :
    /\ w.task = task /\ ~OnTheWay(w.msg.id)
    /\ GiveUp(w)
    /\ UNCHANGED trouble

(* do_updates(0) cancels the job: in the middle of send_recv, the request  *)
(* stays in the send buffer.  do_updates(1) starts it again.               *)
Stop ==
  /\ polling /\ Trouble
  /\ polling' = FALSE
  /\ waiting' = {w \in waiting : w.task # Poller}
  /\ UNCHANGED <<windowVars, connected, wire, replies, sendBuffer, recvBuffer,
                 tree, puts>>
Start ==
  /\ ~polling
  /\ polling' = TRUE
  /\ UNCHANGED <<serverVars, connected, wire, replies, sendBuffer, recvBuffer,
                 waiting, tree, puts>>

(* The monitor of the socket reports a connection, or the end of one; what *)
(* is on the way in a direction is then lost altogether or not at all.     *)
Reconnect ==
  /\ ~connected
  /\ connected' = TRUE
  /\ UNCHANGED <<serverVars, wire, replies, sendBuffer, recvBuffer, waiting,
                 tree, polling, puts>>
Drop ==
  /\ connected /\ Trouble
  /\ connected' = FALSE
  /\ wire' \in {wire, <<>>}
  /\ replies' \in {replies, <<>>}
  /\ UNCHANGED <<windowVars, sendBuffer, recvBuffer, waiting, tree, polling,
                 puts>>

Commands == (Restore \/ Detach) /\ UNCHANGED clientVars

Next ==
  \/ \E user \in Users, limit \in Limits : Put(user, limit) \/ PutElement(user, limit)
  \/ \E user \in Users : ReadConfig(user)
  \/ Poll \/ Serve \/ Receive
  \/ \E task \in Tasks : Wake(task) \/ Late(task) \/ Lost(task)
  \/ Stop \/ Start \/ Reconnect \/ Drop \/ Commands

(* The server and both directions of the connection make progress, a       *)
(* dropped connection comes back, a sleep ends, a loop with a time limit   *)
(* ends, and the job goes on after each poll.                              *)
Fairness ==
  /\ WF_vars(Serve) /\ WF_vars(Receive) /\ WF_vars(Reconnect) /\ WF_vars(Poll)
  /\ \A task \in Tasks : WF_vars(Wake(task)) /\ WF_vars(Lost(task))

Spec == Init /\ [][Next]_vars /\ Fairness

TypeOK ==
  /\ WindowsTypeOK
  /\ connected \in BOOLEAN /\ polling \in BOOLEAN
  /\ wire \in Seq(Message) /\ replies \in Seq(Reply)
  /\ sendBuffer \subseteq Message /\ recvBuffer \subseteq Reply
  /\ waiting \subseteq Wait
  /\ tree \in [Limits -> Seq(Values)]
  /\ puts \in 0 .. MaxPuts

(* A reply that is kept for a task is the answer to the request of that    *)
(* task, also when requests before it have timed out and are answered      *)
(* late, so that no task takes the acknowledgement of another request for  *)
(* its own (AsyncClient.send_recv and _on_recv_callback).                  *)
AnswersMatch ==
  /\ \A reply \in recvBuffer : reply.to \in sendBuffer
  /\ \A w \in waiting, reply \in recvBuffer :
       reply.to.id = w.msg.id => reply.to = w.msg
  /\ \A v, w \in waiting : v.msg.id = w.msg.id => v = w

(* As long as the job runs, the parameter tree comes to show what the      *)
(* server has: after elements whose put was refused or has timed out, late *)
(* configurations, lost messages and dropped connections, and after faults *)
(* of the detector unless no channel at all could be read.                 *)
TreeCatchesUp ==
  <>[]polling =>
    <>[](\A limit \in Limits : cached[limit] \in {<<>>, tree[limit]})
=============================================================================
