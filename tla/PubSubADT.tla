----------------------------- MODULE PubSubADT ------------------------------
(***************************************************************************)
(* What Pub/Sub promises the connected clients: a client is a member of    *)
(* the channels it has subscribed to, a message goes to each member of its *)
(* channel, one publication after the other, and nobody but the client     *)
(* itself changes its memberships.  Clients that are gone are not members  *)
(* of anything.                                                            *)
(***************************************************************************)
EXTENDS Naturals, Sequences, FiniteSets

CONSTANTS Clients, Channels, Requests, Unset

VARIABLES
    connected,  \* [Clients -> BOOLEAN]
    members,    \* [Channels -> set of clients]
    stream,     \* messages sent to each connected client, read by it or not
    request,    \* what each client has asked for
    reached,    \* the clients its message has been sent to
    answer      \* the number in the answer it is given

vars == <<connected, members, stream, request, reached, answer>>

Init ==
    /\ connected = [c \in Clients |-> TRUE]
    /\ members = [ch \in Channels |-> {}]
    /\ stream = [c \in Clients |-> << >>]
    /\ request = [c \in Clients |-> Unset]
    /\ reached = [c \in Clients |-> {}]
    /\ answer = [c \in Clients |-> Unset]

Asks(c, op) == IF request[c] = Unset THEN FALSE ELSE request[c].op = op
Leaves(c) == Asks(c, "unsubscribe") \/ Asks(c, "unsubscribeAll")
Named(c) == {request[c].args[i] : i \in 1..Len(request[c].args)}
Memberships(c) == Cardinality({ch \in Channels : c \in members[ch]})

Ask(c) ==
    /\ connected[c] /\ request[c] = Unset
    /\ request'[c] \in Requests[c]
    /\ request' = [request EXCEPT ![c] = request'[c]]
    /\ UNCHANGED <<connected, members, stream, reached, answer>>

Join(c, ch) ==
    /\ Asks(c, "subscribe") /\ ch \in Named(c)
    /\ members' = [members EXCEPT ![ch] = @ \cup {c}]
    /\ UNCHANGED <<connected, stream, request, reached, answer>>

Leave(c, ch) ==
    /\ Leaves(c) /\ ch \in Named(c)
    /\ members' = [members EXCEPT ![ch] = @ \ {c}]
    /\ UNCHANGED <<connected, stream, request, reached, answer>>

Topic(c) == request[c].args[1]
Publishing(c) == Asks(c, "publish") /\ reached[c] # {} /\ answer[c] = Unset

\* Nobody is sent a message twice, and no two publications overlap: clients
\* that receive two messages receive them in the same order.
Deliver(c, d) ==
    /\ Asks(c, "publish") /\ d \in members[Topic(c)] \ reached[c]
    /\ \A e \in Clients \ {c} : ~Publishing(e)
    /\ stream' = [stream EXCEPT ![d] = Append(stream[d], request[c])]
    /\ reached' = [reached EXCEPT ![c] = @ \cup {d}]
    /\ UNCHANGED <<connected, members, request, answer>>

\* The answer: the request has been carried out, and the client is told how
\* many its message was sent to, or how many channels it is a member of.
Finish(c) ==
    /\ connected[c] /\ answer[c] = Unset
    /\ Asks(c, "subscribe") => \A ch \in Named(c) : c \in members[ch]
    /\ Leaves(c) => \A ch \in Named(c) : c \notin members[ch]
    /\ Asks(c, "publish") => members[Topic(c)] \subseteq reached[c]
    /\ answer' = [answer EXCEPT ![c] =
                    IF Asks(c, "publish") THEN Cardinality(reached[c]) ELSE Memberships(c)]
    /\ UNCHANGED <<connected, members, stream, request, reached>>

\* The client reads the answer.  The request of one that is gone ends
\* unseen.
Forget(c) ==
    /\ connected[c] => answer[c] # Unset
    /\ request' = [request EXCEPT ![c] = Unset]
    /\ reached' = [reached EXCEPT ![c] = {}]
    /\ answer' = [answer EXCEPT ![c] = Unset]
    /\ UNCHANGED <<connected, members, stream>>

Disconnect(c) ==
    /\ connected[c]
    /\ connected' = [connected EXCEPT ![c] = FALSE]
    /\ members' = [ch \in Channels |-> members[ch] \ {c}]
    /\ stream' = [stream EXCEPT ![c] = << >>]
    /\ answer' = [answer EXCEPT ![c] = Unset]
    /\ request' = [request EXCEPT ![c] = IF answer[c] = Unset THEN @ ELSE Unset]
    /\ reached' = [reached EXCEPT ![c] = IF answer[c] = Unset THEN @ ELSE {}]

Next ==
    \E c \in Clients :
        \/ Ask(c) \/ Finish(c) \/ Forget(c) \/ Disconnect(c)
        \/ \E d \in Clients : Deliver(c, d)
        \/ \E ch \in Channels : Join(c, ch) \/ Leave(c, ch)

Spec == Init /\ [][Next]_vars
=============================================================================
