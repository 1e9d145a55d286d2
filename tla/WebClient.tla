----------------------------- MODULE WebClient -----------------------------
(***************************************************************************)
(* The browser side of a node: the controllers of main.js, which turn the  *)
(* clicks of a user into HTTP requests to the node, and the answers into   *)
(* flash messages, tables, result panels and chat messages.                *)
(*                                                                         *)
(* Everything between two awaits of a handler runs without interruption,   *)
(* so a handler is one action up to its first await and one action for     *)
(* each continuation.  A call is one activation of an async handler.  What *)
(* the node stores is abstracted to the calls it carried out; an answer is *)
(* the set of the calls whose effect it shows.                             *)
(*                                                                         *)
(* Definitions named ...Bug... are slips of this code that would break a   *)
(* property, written before the definition they are a variant of; no       *)
(* action uses them.                                                       *)
(***************************************************************************)
EXTENDS Naturals, Sequences, FiniteSets

CONSTANTS Pages,       \* the pages: sequences of controllers in document order
          Value,       \* what a user may type in a field
          Empty,       \* the content of an empty field
          MaxClicks,   \* bound: calls a user starts on each page
          MaxOpen,     \* bound: calls in flight, for a user to start one more
          MaxPackets   \* bound: packets the node notifies

Controller == {"flash", "peerInfo", "messaging", "unicast", "routing",
               "packets", "broadcast", "catalog", "dataSharing", "search",
               "naming", "blockchain"}

Edits == [routing |-> {"addPeer", "setEntry"}, catalog |-> {"add"}]

Op == {"send", "routing", "addPeer", "setEntry", "sendChat", "sendPrivate",
       "catalog", "add", "upload", "download", "searchAll", "searchFirst",
       "resolve", "tag", "get"}

Searches == {"searchAll", "searchFirst"}
Results  == Searches \union {"upload", "resolve"}

ASSUME WebAssumption ==
    /\ Empty \notin Value
    /\ MaxClicks \in [Pages -> Nat]
    /\ MaxOpen \in Nat
    /\ MaxPackets \in Nat
    /\ \A p \in Pages : p \in Seq(Controller)

VARIABLES
    page,      \* the page that is open
    booted,    \* how many of its controllers are initialized
    endpoint,  \* is peerInfo.endpoint set
    socket,    \* the request of peerInfo for the address of the socket
    form,      \* the content of the field the calls read
    clicks,    \* calls the user started
    calls,     \* the activations of handlers, in the order they started
    handled,   \* the requests the node carried out
    flash,     \* every flash message ever shown
    shown,     \* the contents of the routing table, its graph, the catalog
    panel,     \* the result panels
    chat,      \* the messages of the messaging controller
    packets    \* the packets listed, and how many were notified

vars == <<page, booted, endpoint, socket, form, clicks, calls, handled, flash,
          shown, panel, chat, packets>>

CallId == DOMAIN calls
Field  == Value \union {Empty}
Screen == {"table", "graph", "content"}

\* What a result panel says, and the call that wrote it.
Text(is, c) == [is |-> is, by |-> c]

Has(ctl) == \E i \in 1..booted : page[i] = ctl
Ready == booted = Len(page)

Over(c) == calls[c].at \in {"done", "thrown", "unread"}

----------------------------------------------------------------------------
(* One activation of a handler, and the messages it shows.                 *)

NewCall(op, arg, at) ==
    [op |-> op, arg |-> arg, at |-> at, reply |-> "pending", got |-> {}]

\* getAPIURL needs peerInfo and its endpoint; without them the handler throws.
Request(op, arg) == NewCall(op, arg, IF endpoint THEN "fetch" ELSE "thrown")

Message(c, kind, about) == [call |-> c, kind |-> kind, about |-> about]
Say(c, kind, about) == flash' = flash \union {Message(c, kind, about)}

Finish(c) == [calls EXCEPT ![c].at = "done", ![c].got = {}]

Answered(c, op, at) ==
    /\ c \in CallId
    /\ calls[c].op = op
    /\ calls[c].at = at
    /\ calls[c].reply # "pending"

Accepted(c) == calls[c].reply = "ok"

\* Bug: the call is counted before its number is taken.
RejectBugNumber(op) ==
    /\ calls' = Append(calls, [NewCall(op, form, "done") EXCEPT !.reply = "none"])
    /\ Say(Len(calls) + 2, "error", form)

\* A click that checkInputs rejects: one error message and no request.
Reject(op) ==
    /\ calls' = Append(calls, [NewCall(op, form, "done") EXCEPT !.reply = "none"])
    /\ Say(Len(calls) + 1, "error", form)

\* The other fields of a form are filled or not: filled.
CheckInputs(op, required, filled) ==
    IF filled /\ (required => form # Empty)
    THEN /\ calls' = Append(calls, Request(op, form))
         /\ UNCHANGED flash
    ELSE Reject(op)

Click(ctl) ==
    /\ Ready
    /\ Has(ctl)
    /\ clicks < MaxClicks[page]
    /\ Cardinality({c \in CallId : ~Over(c)}) < MaxOpen
    /\ clicks' = clicks + 1
    /\ UNCHANGED <<page, booted, endpoint, socket, form, handled, shown, chat,
                   packets>>

\* What a continuation leaves alone.
Continue == UNCHANGED <<page, booted, endpoint, socket, form, clicks, handled,
                        packets>>

\* A continuation that only reports.
Report(c) ==
    /\ Continue
    /\ calls' = Finish(c)
    /\ Say(c, IF Accepted(c) THEN "success" ELSE "error", calls[c].arg)
    /\ UNCHANGED <<shown, chat>>

----------------------------------------------------------------------------
(* The start of the page: Stimulus creates the controllers in document     *)
(* order, in one task, and calls initialize on each.                       *)

\* Bug: the endpoint is set after the await.
PeerInfoInitializeBugLate ==
    /\ socket' = "pending"
    /\ UNCHANGED <<endpoint, calls>>

PeerInfoInitialize ==
    /\ endpoint' = TRUE
    /\ socket' = "pending"
    /\ UNCHANGED calls

RoutingInitialize ==
    /\ calls' = Append(calls, Request("routing", Empty))
    /\ UNCHANGED <<endpoint, socket>>

CatalogInitialize ==
    /\ calls' = Append(calls, Request("catalog", Empty))
    /\ UNCHANGED <<endpoint, socket>>

Initialize ==
    /\ ~Ready
    /\ booted' = booted + 1
    /\ CASE page[booted + 1] = "peerInfo" -> PeerInfoInitialize
         [] page[booted + 1] = "routing"  -> RoutingInitialize
         [] page[booted + 1] = "catalog"  -> CatalogInitialize
         [] OTHER -> UNCHANGED <<endpoint, socket, calls>>
    /\ UNCHANGED <<page, form, clicks, handled, flash, shown, panel, chat,
                   packets>>

\* The answer of /socket/address; its status is not looked at.
SocketAddress ==
    /\ Ready
    /\ socket = "pending"
    /\ socket' = "known"
    /\ UNCHANGED <<page, booted, endpoint, form, clicks, calls, handled, flash,
                   shown, panel, chat, packets>>

SocketAddressFails ==
    /\ Ready
    /\ socket = "pending"
    /\ socket' = "failed"
    /\ Say(0, "error", Empty)
    /\ UNCHANGED <<page, booted, endpoint, form, clicks, calls, handled, shown,
                   panel, chat, packets>>

\* The user types: a field may change while a call waits for its answer.
Type ==
    /\ Ready
    /\ form' \in Field \ {form}
    /\ UNCHANGED <<page, booted, endpoint, socket, clicks, calls, handled,
                   flash, shown, panel, chat, packets>>

----------------------------------------------------------------------------
(* The node and the network, modelled from how main.js uses them.          *)

Snapshot(op) ==
    IF op \in DOMAIN Edits
    THEN {h.call : h \in {x \in handled : calls[x.call].op \in Edits[op]}}
    ELSE {}

Carried(c) == handled \union {[call |-> c, arg |-> calls[c].arg]}

Waiting(c) ==
    /\ Ready
    /\ c \in CallId
    /\ calls[c].at \in {"fetch", "graph"}
    /\ calls[c].reply = "pending"

Serve(c) ==
    /\ Waiting(c)
    /\ handled' = Carried(c)
    /\ calls' = [calls EXCEPT ![c].reply = "ok",
                              ![c].got = Snapshot(calls[c].op)]
    /\ UNCHANGED <<page, booted, endpoint, socket, form, clicks, flash, shown,
                   panel, chat, packets>>

\* An answer with another status, or no answer: the node may have acted.
Break(c) ==
    /\ Waiting(c)
    /\ handled' \in {handled, Carried(c)}
    /\ calls' = [calls EXCEPT ![c].reply = "failed"]
    /\ UNCHANGED <<page, booted, endpoint, socket, form, clicks, flash, shown,
                   panel, chat, packets>>

----------------------------------------------------------------------------
(* Unicast and Broadcast.                                                  *)

UnicastSend ==
    /\ Click("unicast")
    /\ \E filled \in BOOLEAN : CheckInputs("send", TRUE, filled)
    /\ UNCHANGED panel

\* Bug: without a messaging element nothing is shown.
UnicastSentBugSilent(c) ==
    /\ Answered(c, "send", "fetch")
    /\ Continue
    /\ calls' = Finish(c)
    /\ IF ~Accepted(c)
       THEN Say(c, "error", calls[c].arg) /\ UNCHANGED chat
       ELSE /\ UNCHANGED flash
            /\ chat' = IF Has("messaging")
                       THEN Append(chat, [call |-> c, side |-> "sent"]) ELSE chat
    /\ UNCHANGED <<shown, panel>>

\* The message is shown by the messaging controller, if the page has one;
\* otherwise the handler reports a failure although the node sent it.
UnicastSent(c) ==
    /\ Answered(c, "send", "fetch")
    /\ Continue
    /\ calls' = Finish(c)
    /\ IF Accepted(c) /\ Has("messaging")
       THEN chat' = Append(chat, [call |-> c, side |-> "sent"]) /\ UNCHANGED flash
       ELSE Say(c, "error", calls[c].arg) /\ UNCHANGED chat
    /\ UNCHANGED <<shown, panel>>

SendChat ==
    /\ Click("broadcast")
    /\ CheckInputs("sendChat", TRUE, TRUE)
    /\ UNCHANGED panel

ChatSent(c) == Answered(c, "sendChat", "fetch") /\ Report(c) /\ UNCHANGED panel

SendPrivate ==
    /\ Click("broadcast")
    /\ \E filled \in BOOLEAN : CheckInputs("sendPrivate", TRUE, filled)
    /\ UNCHANGED panel

PrivateSent(c) ==
    Answered(c, "sendPrivate", "fetch") /\ Report(c) /\ UNCHANGED panel

----------------------------------------------------------------------------
(* Packets: an EventSource calls packetMessage for each notified packet.   *)

PacketMessage(isChat, own) ==
    /\ Ready
    /\ Has("packets")
    /\ packets.notified < MaxPackets
    /\ LET throws == isChat /\ ~Has("messaging")
           side == IF own /\ socket = "known" THEN "sent" ELSE "received"
       IN  /\ packets' = [notified |-> packets.notified + 1,
                          listed |-> packets.listed + (IF throws THEN 0 ELSE 1)]
           /\ chat' = IF isChat /\ ~throws
                      THEN Append(chat, [call |-> 0, side |-> side])
                      ELSE chat
    /\ UNCHANGED <<page, booted, endpoint, socket, form, clicks, calls, handled,
                   flash, shown, panel>>

PacketError ==
    /\ Ready
    /\ Has("packets")
    /\ Say(0, "error", Empty)
    /\ UNCHANGED <<page, booted, endpoint, socket, form, clicks, calls, handled,
                   shown, panel, chat, packets>>

----------------------------------------------------------------------------
(* Routing: a table and a graph, from two requests one after the other.    *)

\* Bug: rows are appended without clearing the ones shown.
DisplayBugAppends(screen, c) ==
    [shown EXCEPT ![screen] = Append(@, [by |-> c, got |-> calls[c].got])]

Display(screen, c) == [shown EXCEPT ![screen] = <<[by |-> c, got |-> calls[c].got]>>]

RoutingUpdate ==
    /\ Click("routing")
    /\ calls' = Append(calls, Request("routing", Empty))
    /\ UNCHANGED <<flash, panel>>

\* Whatever becomes of the table, the graph is asked for next.
UpdateTable(c) ==
    /\ Answered(c, "routing", "fetch")
    /\ Continue
    /\ calls' = [calls EXCEPT ![c].at = "graph", ![c].reply = "pending",
                              ![c].got = {}]
    /\ shown' = IF Accepted(c) THEN Display("table", c) ELSE shown
    /\ Say(c, IF Accepted(c) THEN "success" ELSE "error", Empty)
    /\ UNCHANGED <<panel, chat>>

UpdateGraph(c) ==
    /\ Answered(c, "routing", "graph")
    /\ Continue
    /\ IF Accepted(c)
       THEN calls' = [calls EXCEPT ![c].at = "render"] /\ UNCHANGED flash
       ELSE calls' = Finish(c) /\ Say(c, "error", Empty)
    /\ UNCHANGED <<shown, panel, chat>>

\* viz.renderSVGElement: the old graph is removed when the new one is there.
Rendered(c) ==
    /\ Answered(c, "routing", "render")
    /\ Continue
    /\ calls' = Finish(c)
    /\ shown' = Display("graph", c)
    /\ UNCHANGED <<flash, panel, chat>>

RenderFails(c) ==
    /\ Answered(c, "routing", "render")
    /\ Continue
    /\ calls' = Finish(c)
    /\ Say(c, "error", Empty)
    /\ UNCHANGED <<shown, panel, chat>>

\* Bug: what is shown is not updated.
EditDoneBugNoUpdate(c, op, says) ==
    /\ Continue
    /\ calls' = Finish(c)
    /\ Say(c, IF Accepted(c) THEN "success" ELSE "error", calls[c].arg)
    /\ UNCHANGED <<shown, panel, chat>>

\* The continuation of an edit: report, and update what is shown.
EditDone(c, op, says) ==
    /\ Continue
    /\ IF Accepted(c)
       THEN /\ calls' = Append(Finish(c), Request(op, Empty))
            /\ IF says THEN Say(c, "success", calls[c].arg) ELSE UNCHANGED flash
       ELSE /\ calls' = Finish(c)
            /\ Say(c, "error", calls[c].arg)
    /\ UNCHANGED <<shown, panel, chat>>

AddPeer ==
    /\ Click("routing")
    /\ CheckInputs("addPeer", TRUE, TRUE)
    /\ UNCHANGED panel

PeerAdded(c) == Answered(c, "addPeer", "fetch") /\ EditDone(c, "routing", TRUE)

\* The field is the relay, which may be empty: the entry is then deleted.
SetEntry ==
    /\ Click("routing")
    /\ \E filled \in BOOLEAN : CheckInputs("setEntry", FALSE, filled)
    /\ UNCHANGED panel

\* Bug: the field is read after the await.
EntrySetBugRereads(c) ==
    /\ Answered(c, "setEntry", "fetch")
    /\ Continue
    /\ calls' = IF Accepted(c) THEN Append(Finish(c), Request("routing", Empty))
               ELSE Finish(c)
    /\ Say(c, IF Accepted(c) THEN "success" ELSE "error", form)
    /\ UNCHANGED <<shown, panel, chat>>

EntrySet(c) == Answered(c, "setEntry", "fetch") /\ EditDone(c, "routing", TRUE)

----------------------------------------------------------------------------
(* Catalog.                                                                *)

CatalogUpdate ==
    /\ Click("catalog")
    /\ calls' = Append(calls, Request("catalog", Empty))
    /\ UNCHANGED <<flash, panel>>

CatalogShown(c) ==
    /\ Answered(c, "catalog", "fetch")
    /\ Continue
    /\ calls' = Finish(c)
    /\ shown' = IF Accepted(c) THEN Display("content", c) ELSE shown
    /\ Say(c, IF Accepted(c) THEN "success" ELSE "error", Empty)
    /\ UNCHANGED <<panel, chat>>

CatalogAdd ==
    /\ Click("catalog")
    /\ \E filled \in BOOLEAN : CheckInputs("add", TRUE, filled)
    /\ UNCHANGED panel

Added(c) == Answered(c, "add", "fetch") /\ EditDone(c, "catalog", FALSE)

----------------------------------------------------------------------------
(* DataSharing: upload reads the file first, then posts it.                *)

Upload ==
    /\ Click("dataSharing")
    /\ IF form = Empty
       THEN Reject("upload")
       ELSE /\ calls' = Append(calls, NewCall("upload", form, "read"))
            /\ UNCHANGED flash
    /\ UNCHANGED panel

Reading(c) ==
    /\ c \in CallId
    /\ calls[c].at = "read"
    /\ Continue
    /\ UNCHANGED <<shown, panel, chat>>

FileProgress(c) ==
    /\ Reading(c)
    /\ Say(c, "progress", calls[c].arg)
    /\ UNCHANGED calls

FileLoaded(c) ==
    /\ Reading(c)
    /\ calls' = [calls EXCEPT ![c].at = "fetch"]
    /\ UNCHANGED flash

\* No listener for the error event of the reader: nothing is shown.
FileUnreadable(c) ==
    /\ Reading(c)
    /\ calls' = [calls EXCEPT ![c].at = "unread"]
    /\ UNCHANGED flash

Uploaded(c) ==
    /\ Answered(c, "upload", "fetch")
    /\ Report(c)
    /\ panel' = IF Accepted(c) THEN [panel EXCEPT !["upload"] = Text("result", c)] ELSE panel

Download ==
    /\ Click("dataSharing")
    /\ CheckInputs("download", TRUE, TRUE)
    /\ UNCHANGED panel

\* Bug: no catch around the awaits.
DownloadedBugNoCatch(c) ==
    /\ Answered(c, "download", "fetch") /\ Accepted(c)
    /\ Report(c)
    /\ UNCHANGED panel

Downloaded(c) ==
    Answered(c, "download", "fetch") /\ Report(c) /\ UNCHANGED panel

----------------------------------------------------------------------------
(* Search.                                                                 *)

Search(op) ==
    /\ Click("search")
    /\ \E filled \in BOOLEAN :
         /\ CheckInputs(op, TRUE, filled)
         /\ panel' = IF filled /\ form # Empty
                     THEN [panel EXCEPT ![op] = Text("searching", Len(calls) + 1)]
                     ELSE panel

SearchAll == Search("searchAll")
SearchFirst == Search("searchFirst")

\* Bug: a search that finds nothing leaves "searching" in the panel.
SearchDoneBugLeft(c, op) ==
    /\ Answered(c, op, "fetch")
    /\ Report(c)
    /\ panel' \in {panel, [panel EXCEPT ![op] = Text("result", c)]}

SearchDone(c, op) ==
    /\ Answered(c, op, "fetch")
    /\ Report(c)
    /\ panel' = IF Accepted(c) THEN [panel EXCEPT ![op] = Text("result", c)] ELSE panel

SearchAllDone(c) == SearchDone(c, "searchAll")
SearchFirstDone(c) == SearchDone(c, "searchFirst")

----------------------------------------------------------------------------
(* Naming: resolve shows the error of checkInputs and goes on.             *)

Resolve ==
    /\ Click("naming")
    /\ calls' = Append(calls, Request("resolve", form))
    /\ IF form = Empty THEN Say(Len(calls) + 1, "error", form)
       ELSE UNCHANGED flash
    /\ UNCHANGED panel

Resolved(c) ==
    /\ Answered(c, "resolve", "fetch")
    /\ Report(c)
    /\ panel' = IF Accepted(c) THEN [panel EXCEPT !["resolve"] = Text("result", c)] ELSE panel

Tag ==
    /\ Click("naming")
    /\ \E filled \in BOOLEAN : CheckInputs("tag", TRUE, filled)
    /\ UNCHANGED panel

Tagged(c) == Answered(c, "tag", "fetch") /\ Report(c) /\ UNCHANGED panel

----------------------------------------------------------------------------
(* Blockchain: the chain is written to a new window, opened after the      *)
(* await; a browser that blocks it returns null, and the handler fails.    *)

BlockchainGet ==
    /\ Click("blockchain")
    /\ CheckInputs("get", TRUE, TRUE)
    /\ UNCHANGED panel

ChainShown(c) ==
    /\ Answered(c, "get", "fetch")
    /\ Continue
    /\ calls' = Finish(c)
    /\ \E opened \in BOOLEAN :
         Say(c, IF Accepted(c) /\ opened THEN "success" ELSE "error",
             calls[c].arg)
    /\ UNCHANGED <<shown, panel, chat>>

----------------------------------------------------------------------------
Init ==
    /\ page \in Pages
    /\ booted = 0
    /\ endpoint = FALSE
    /\ socket = "none"
    /\ form = Empty
    /\ clicks = 0
    /\ calls = <<>>
    /\ handled = {}
    /\ flash = {}
    /\ shown = [s \in Screen |-> <<>>]
    /\ panel = [r \in Results |-> Text("blank", 0)]
    /\ chat = <<>>
    /\ packets = [notified |-> 0, listed |-> 0]

UserClicks ==
    \/ UnicastSend \/ SendChat \/ SendPrivate
    \/ RoutingUpdate \/ AddPeer \/ SetEntry
    \/ CatalogUpdate \/ CatalogAdd
    \/ Upload \/ Download
    \/ SearchAll \/ SearchFirst
    \/ Resolve \/ Tag
    \/ BlockchainGet

FileRead(c) == FileLoaded(c) \/ FileUnreadable(c)

Continuation(c) ==
    \/ UnicastSent(c) \/ ChatSent(c) \/ PrivateSent(c)
    \/ UpdateTable(c) \/ UpdateGraph(c) \/ Rendered(c) \/ RenderFails(c)
    \/ PeerAdded(c) \/ EntrySet(c)
    \/ CatalogShown(c) \/ Added(c)
    \/ Uploaded(c) \/ Downloaded(c)
    \/ SearchAllDone(c) \/ SearchFirstDone(c)
    \/ Resolved(c) \/ Tagged(c)
    \/ ChainShown(c)

\* What the browser and the network do for a call that has started.
Progress(c) == Serve(c) \/ Break(c) \/ FileRead(c) \/ Continuation(c)

Next ==
    \/ Initialize
    \/ SocketAddress \/ SocketAddressFails
    \/ Type
    \/ UserClicks
    \/ \E isChat, own \in BOOLEAN : PacketMessage(isChat, own)
    \/ PacketError
    \/ \E c \in CallId : Progress(c) \/ FileProgress(c)

\* The browser settles every request and runs every continuation that is due.
Fairness ==
    /\ WF_vars(Initialize)
    /\ WF_vars(\E c \in CallId : Progress(c))

Spec == Init /\ [][Next]_vars /\ Fairness

----------------------------------------------------------------------------
CallRecord == [op : Op, arg : Field,
               at : {"read", "unread", "fetch", "graph", "render", "done",
                     "thrown"},
               reply : {"pending", "none", "ok", "failed"},
               got : SUBSET Nat]

TypeOK ==
    /\ page \in Pages
    /\ booted \in 0..Len(page)
    /\ endpoint \in BOOLEAN
    /\ socket \in {"none", "pending", "known", "failed"}
    /\ form \in Field
    /\ clicks \in 0..MaxClicks[page]
    /\ calls \in Seq(CallRecord)
    /\ handled \subseteq [call : CallId, arg : Field]
    /\ flash \subseteq [call : CallId \union {0},
                        kind : {"success", "error", "progress"}, about : Field]
    /\ shown \in [Screen -> Seq([by : CallId, got : SUBSET Nat])]
    /\ panel \in [Results -> [is : {"blank", "searching", "result"},
                            by : CallId \union {0}]]
    /\ chat \in Seq([call : CallId \union {0}, side : {"sent", "received"}])
    /\ packets \in [notified : 0..MaxPackets, listed : 0..MaxPackets]

Quiet == Ready /\ \A c \in CallId : Over(c)
Told(c, kind) == \E m \in flash : m.call = c /\ m.kind = kind

\* Every request is made after peerInfo learned the endpoint of the node:
\* getAPIURL (main.js:171) reads what PeerInfo.initialize sets before its
\* first await, and peerInfo precedes the controllers that update themselves.
EndpointKnown == \A c \in CallId : calls[c].at # "thrown"

\* A message of success tells the truth: the node carried out that call, with
\* the very input the message is about, though the user may have changed the
\* field meanwhile (the handlers read their inputs before the await).
SuccessIsTrue ==
    \A m \in flash : m.kind = "success" =>
        [call |-> m.call, arg |-> m.about] \in handled

\* No call ends in silence: when its request failed an error was shown, and
\* when it was accepted the user sees it (a message, a chat line, or the
\* update that it started).
OutcomeReported ==
    \A c \in CallId : calls[c].at = "done" =>
        \/ Told(c, "error")
        \/ /\ Accepted(c)
           /\ \/ Told(c, "success")
              \/ \E i \in DOMAIN chat : chat[i].call = c
              \/ calls[c].op = "add" /\ \E u \in CallId : u > c /\ calls[u].op = "catalog"

\* The table, the graph and the catalog never hold the rows of two updates,
\* however many updates overlap: each clears and fills in the same step.
NoDuplicateDisplay == \A s \in Screen : Len(shown[s]) <= 1

\* When nothing is in flight and the update started last is the one on the
\* screen, the screen shows every edit that was acknowledged on this page.
Source(s) == IF s = "content" THEN "catalog" ELSE "routing"

DisplayCurrent ==
    Quiet => \A s \in Screen : \A i \in DOMAIN shown[s] :
        (\A u \in CallId : calls[u].op = Source(s) => u <= shown[s][i].by) =>
            \A c \in CallId :
                (calls[c].op \in Edits[Source(s)] /\ calls[c].reply = "ok")
                    => c \in shown[s][i].got

\* A panel that still says "searching" when nothing is in flight belongs to a
\* search that failed and told the user so, and to none that succeeded since;
\* a panel with a result shows one the user was told about.
PanelHonest ==
    \A r \in Results :
        /\ panel[r].is = "result" => Told(panel[r].by, "success")
        /\ Quiet /\ panel[r].is = "searching" =>
             /\ Told(panel[r].by, "error")
             /\ \A c \in CallId : c > panel[r].by =>
                   ~(calls[c].op = r /\ Told(c, "success"))

\* Once the user stops clicking, every call a user or a controller has started
\* comes to an end: no handler waits for a promise that nobody settles.
CallsReturn == [](Ready => <>(\A c \in CallId : Over(c)))
============================================================================
