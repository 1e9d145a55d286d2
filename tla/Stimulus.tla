----------------------------- MODULE Stimulus -----------------------------
(***************************************************************************)
(* The runtime of Stimulus 2.0.0 that the pages of the node are built on:  *)
(* how elements with a data-controller attribute get their controllers,    *)
(* and elements with a data-action attribute their event bindings, while   *)
(* the document changes.                                                   *)
(*                                                                         *)
(* One MutationObserver belongs to the router and watches the document for *)
(* data-controller; each connected context (a controller on an element)    *)
(* has one that watches its element for data-action.  The browser queues a *)
(* record of each change for the observers concerned and delivers the      *)
(* queues in a microtask, when the document may have changed further.      *)
(*                                                                         *)
(* Sibling order, and methods and options of actions, are left out: an     *)
(* action token is the identifier it names.  Definitions named ...Bug...   *)
(* are variants that would break a property; no action uses them.          *)
(***************************************************************************)
EXTENDS Naturals, FiniteSets, SequencesExt

CONSTANTS Element, Root,   \* the elements, and documentElement
          Identifier,      \* the controllers
          Router,          \* names the observer of the router
          None,            \* the value of an absent attribute
          Documents,       \* the documents to start from
          Lists,           \* the values a script may give to an attribute
          MaxChanges       \* bound: changes of the document

Context == Element \X Identifier
RouterObserver == <<Root, Router>>
Tokens == Seq(Identifier)

\* A document is a tree: an element is with its ancestors, which form a chain,
\* and documentElement is at the top.
IsTree(p) ==
    /\ p \in [Element -> SUBSET Element]
    /\ p[Root] = {Root}
    /\ \A e \in Element :
         /\ e \in p[e]
         /\ \A m \in p[e] : p[m] \subseteq p[e] /\ (e \in p[m] => m = e)
         /\ \A m, n \in p[e] : m \in p[n] \/ n \in p[m]

ASSUME StimulusAssumption ==
    /\ Root \in Element
    /\ Router \notin Identifier
    /\ None \notin Tokens
    /\ Lists \subseteq Tokens \union {None}
    /\ \A d \in Documents :
         /\ IsTree(d.path)
         /\ {d.controller, d.action} \subseteq [Element -> Tokens \union {None}]
    /\ MaxChanges \in Nat

VARIABLES
    path,       \* the tree: an element and its ancestors
    controller, \* data-controller of an element
    action,     \* data-action of an element
    loaded,     \* the identifiers that are registered
    started,    \* has application.start got past domReady
    seen,       \* the elements the router's observer knows, with their tokens
    connected,  \* the contexts that are connected
    bound,      \* the elements their observers know, with their tokens
    created,    \* the contexts ever created, numbered
    records,    \* the mutation records that are due
    transient,  \* observers that follow a removed node until they are notified
    changes     \* changes of the document so far

dom  == <<path, controller, action>>
vars == <<dom, loaded, started, seen, connected, bound, created, records,
          transient, changes>>

----------------------------------------------------------------------------
(* The document.                                                           *)

Subtree(e) == {x \in Element : e \in path[x]}
IsConnected(e) == Root \in path[e]

Read(attribute, e) == IF attribute[e] = None THEN <<>> ELSE attribute[e]
Has(e, i) == i \in ToSet(Read(controller, e))

----------------------------------------------------------------------------
(* ElementObserver and TokenListObserver: the elements an observer of the  *)
(* subtree of root knows, for one attribute, after one record.  The record *)
(* says where to look; what is read is the document as it is now.          *)

Active(root, e) == root \in path[e]

Knows(map, e) == \E p \in map : p[1] = e

\* The elements of a set that have the attribute, with their tokens.
Match(elements, attribute) ==
    {<<e, attribute[e]>> : e \in {x \in elements : attribute[x] # None}}

Without(map, elements) == {p \in map : p[1] \notin elements}

Refresh(root, attribute) == Match(Subtree(root), attribute)

\* A change of another attribute leaves the tokens as they were read.
AttributeChanged(map, root, attribute, own, e) ==
    IF Knows(map, e) /\ attribute[e] # None /\ ~own THEN map
    ELSE Without(map, {e}) \union
         (IF Knows(map, e) \/ Active(root, e) THEN Match({e}, attribute) ELSE {})

\* Bug: the descendants of a removed node are not looked at.
NodeRemovedBugTop(map, attribute, n) ==
    Without(map, {e \in {n} : attribute[e] # None})

NodeRemoved(map, attribute, n) ==
    Without(map, {e \in Subtree(n) : attribute[e] # None})

\* Bug: the descendants of an added node are not looked at.
NodeAddedBugTop(map, root, attribute, n) ==
    IF ~Active(root, n) \/ Knows(map, n) THEN map ELSE map \union Match({n}, attribute)

NodeAdded(map, root, attribute, n) ==
    IF ~Active(root, n) THEN map
    ELSE map \union Match({e \in Subtree(n) : ~Knows(map, e)}, attribute)

ProcessMutation(map, root, attribute, name, r) ==
    CASE r.type = "remove" -> NodeRemoved(map, attribute, r.node)
      [] r.type = "add"    -> NodeAdded(map, root, attribute, r.node)
      [] OTHER -> AttributeChanged(map, root, attribute, r.type = name, r.node)

\* refreshTokensForElement: both lists from the first index that differs.
FirstDifferingIndex(old, new) ==
    CHOOSE k \in 1..(Len(old) + 1) :
        /\ k <= Len(new) + 1
        /\ SubSeq(old, 1, k - 1) = SubSeq(new, 1, k - 1)
        /\ k <= Len(old) /\ k <= Len(new) => old[k] # new[k]

\* Bug: the count of the tokens before that index is forgotten.
TokensFromBugUncounted(list, k) == ToSet(SubSeq(list, k + 1, Len(list)))

\* ScopeObserver counts the tokens of an element that name a scope: those
\* whose count drops to zero, or rises from it.
TokensFrom(list, k) ==
    ToSet(SubSeq(list, k, Len(list))) \ ToSet(SubSeq(list, 1, k - 1))

TokensOf(map, e) ==
    IF Knows(map, e) THEN (CHOOSE p \in map : p[1] = e)[2] ELSE <<>>

\* The scopes that disconnect when the first map becomes the second; with the
\* arguments swapped, those that connect.
Lost(map, next) ==
    UNION {LET old == TokensOf(map, e)
               k   == FirstDifferingIndex(old, TokensOf(next, e))
           IN  {e} \X TokensFrom(old, k) : e \in {p[1] : p \in map}}

----------------------------------------------------------------------------
(* Router, Module and Context.  A step of the router takes what it knows,  *)
(* the contexts, and the ones it touched, to the next ones.                *)

RouterState == [seen |-> seen, connected |-> connected, bound |-> bound,
                created |-> created, touched |-> {}]

\* Bug: a context is made anew whenever its scope connects.
FetchContextsBugNew(known, contexts) ==
    known \union {<<c, 1 + Cardinality({k \in known : k[1] = c})>> : c \in contexts}

\* A context is created once for a scope, and initialized then.
FetchContexts(known, contexts) ==
    known \union {<<c, 1>> : c \in {x \in contexts : \A k \in known : k[1] # x}}

\* A context that connects observes its element: all the actions there.
BindAll(contexts) == UNION {{c} \X Refresh(c[1], action) : c \in contexts}

\* Bug: the module connects a context and does not list it.
ConnectAllBugUnlisted(s, contexts) ==
    [s EXCEPT
        !.bound = @ \union BindAll(contexts),
        !.created = FetchContexts(@, contexts),
        !.touched = @ \union contexts]

ConnectAll(s, contexts) ==
    [s EXCEPT
        !.connected = @ \union contexts,
        !.bound = @ \union BindAll(contexts),
        !.created = FetchContexts(@, contexts),
        !.touched = @ \union contexts]

DisconnectAll(s, contexts) ==
    [s EXCEPT
        !.connected = @ \ contexts,
        !.bound = {b \in @ : b[1] \notin contexts},
        !.touched = @ \union contexts]

OfLoaded(scopes) == {c \in scopes : c[2] \in loaded}

\* Only a registered module has contexts for the scopes.
Route(s, map) ==
    ConnectAll(DisconnectAll([s EXCEPT !.seen = map], OfLoaded(Lost(s.seen, map))),
               OfLoaded(Lost(map, s.seen)))

RouterProcess(s, r) ==
    Route(s, ProcessMutation(s.seen, Root, controller, "data-controller", r))

----------------------------------------------------------------------------
(* Scripts change the document.                                            *)

Observers == connected \union (IF started THEN {RouterObserver} ELSE {})

\* The observers that are told of a change at a node with these ancestors.
Interested(ancestors) ==
    {o \in Observers : \E m \in ancestors : o[1] = m \/ <<o, m>> \in transient}

Record(type, node, ancestors) ==
    IF Interested(ancestors) = {} THEN <<>>
    ELSE <<[type |-> type, node |-> node, to |-> Interested(ancestors)]>>

Change ==
    /\ changes < MaxChanges
    /\ changes' = changes + 1
    /\ UNCHANGED <<loaded, started, seen, connected, bound, created>>

SetController(e, t) ==
    /\ Change
    /\ controller' = [controller EXCEPT ![e] = t]
    /\ records' = records \o Record("data-controller", e, path[e])
    /\ UNCHANGED <<path, action, transient>>

SetAction(e, t) ==
    /\ Change
    /\ action' = [action EXCEPT ![e] = t]
    /\ records' = records \o Record("data-action", e, path[e])
    /\ UNCHANGED <<path, controller, transient>>

\* Taking a node out of its parent, if it has one: those who watched it there
\* follow it.
Above(e) == path[e] \ {e}
Below(e, x) == path[x] \intersect Subtree(e)
Followed(e) == transient \union {<<o, e>> : o \in Interested(Above(e))}

Detach(e) ==
    /\ Change
    /\ Above(e) # {}
    /\ path' = [x \in Element |-> IF e \in path[x] THEN Below(e, x) ELSE path[x]]
    /\ records' = records \o Record("remove", e, Above(e))
    /\ transient' = Followed(e)
    /\ UNCHANGED <<controller, action>>

Insert(e, p) ==
    /\ Change
    /\ e # Root
    /\ p \notin Subtree(e)
    /\ path' = [x \in Element |-> IF e \in path[x] THEN Below(e, x) \union path[p]
                                   ELSE path[x]]
    /\ records' = records \o Record("remove", e, Above(e)) \o Record("add", e, path[p])
    /\ transient' = Followed(e)
    /\ UNCHANGED <<controller, action>>

----------------------------------------------------------------------------
(* The application.                                                        *)

Update(s) ==
    /\ seen' = s.seen
    /\ connected' = s.connected
    /\ bound' = s.bound
    /\ created' = s.created

\* Router.connectModule: the contexts of the scopes already found.  main
\* registers its controllers in a task of its own: no record is due.
Register(i) ==
    /\ i \notin loaded
    /\ records = <<>>
    /\ loaded' = loaded \union {i}
    /\ Update(ConnectAll(RouterState,
               {c \in Context : c[2] = i /\ i \in ToSet(TokensOf(seen, c[1]))}))
    /\ UNCHANGED <<dom, started, records, transient, changes>>

\* domReady, then dispatcher.start and router.start.
Start ==
    /\ ~started
    /\ started' = TRUE
    /\ Update(Route(RouterState, Refresh(Root, controller)))
    /\ UNCHANGED <<dom, loaded, records, transient, changes>>

\* The records are delivered in order to the observers they name: the router,
RouterAfter ==
    LET after[k \in 0..Len(records)] ==
            IF k = 0 THEN RouterState
            ELSE IF RouterObserver \in records[k].to
            THEN RouterProcess(after[k - 1], records[k]) ELSE after[k - 1]
    IN  after[Len(records)]

BoundOf(s, c) == {b[2] : b \in {x \in s.bound : x[1] = c}}

\* and a context.
ContextAfter(c) ==
    LET after[k \in 0..Len(records)] ==
            IF k = 0 THEN BoundOf(RouterState, c)
            ELSE IF c \in records[k].to
            THEN ProcessMutation(after[k - 1], c[1], action, "data-action", records[k])
            ELSE after[k - 1]
    IN  after[Len(records)]

\* stop() drops the records of a context's observer, and connecting again
\* starts a new one: only contexts the router left alone have records.
ContextProcess(s, c) ==
    {c} \X (IF c \in s.touched THEN BoundOf(s, c) ELSE ContextAfter(c))

\* The microtask that delivers the records, to the router first: its observer
\* is the oldest.  Contexts only touch their own bindings.
Notify ==
    /\ records # <<>>
    /\ LET s == RouterAfter
       IN  Update([s EXCEPT !.bound =
                      UNION {ContextProcess(s, c) : c \in s.connected}])
    /\ records' = <<>>
    /\ transient' = {}
    /\ UNCHANGED <<dom, loaded, started, changes>>

----------------------------------------------------------------------------
(* Events: the bindings of a context, and which of them a click at x runs. *)

Bindings(c) ==
    {<<c, b[2][1]>> : b \in {x \in bound : x[1] = c /\ c[2] \in ToSet(x[2][2])}}

ContainsElement(c, x) ==
    /\ c[1] \in path[x]
    /\ Has(c[1], c[2])
    /\ \A e \in path[x] : Has(e, c[2]) => e \in path[c[1]]

\* Bug: every scope around the target takes the event.
WillBeInvokedBugOuter(b, x) == b[1][1] \in path[x]

WillBeInvoked(b, x) ==
    \/ b[1][1] = x
    \/ IF b[1][1] \in path[x] THEN ContainsElement(b[1], x)
       ELSE ContainsElement(b[1], b[2])

\* The event passes the listeners on the way from x up to the root.
HandleEvent(x) ==
    {b \in UNION {Bindings(c) : c \in connected} :
        b[2] \in path[x] /\ WillBeInvoked(b, x)}

----------------------------------------------------------------------------
Init ==
    /\ \E d \in Documents : /\ path = d.path
                            /\ controller = d.controller
                            /\ action = d.action
    /\ loaded = {}
    /\ started = FALSE
    /\ seen = {}
    /\ connected = {}
    /\ bound = {}
    /\ created = {}
    /\ records = <<>>
    /\ transient = {}
    /\ changes = 0

Next ==
    \/ \E i \in Identifier : Register(i)
    \/ Start
    \/ Notify
    \/ \E e \in Element, t \in Lists : SetController(e, t) \/ SetAction(e, t)
    \/ \E e \in Element : Detach(e)
    \/ \E e, p \in Element : Insert(e, p)

\* The document gets ready, and records that are due are delivered.  (Only
\* Start sets started and only Notify empties records, and both are enabled
\* whenever they would: stated this way, TLC need not try their updates to see
\* whether they are enabled.)
GetsReady == ~started /\ started' = TRUE
Delivers  == records # <<>> /\ records' = <<>>

Spec == Init /\ [][Next]_vars /\ WF_started(GetsReady) /\ WF_records(Delivers)

----------------------------------------------------------------------------
Quiet == started /\ records = <<>>

TypeOK ==
    /\ path \in [Element -> SUBSET Element]
    /\ {controller, action} \subseteq [Element -> Tokens \union {None}]
    /\ loaded \subseteq Identifier
    /\ started \in BOOLEAN
    /\ seen \subseteq Element \X Tokens
    /\ connected \subseteq Context
    /\ bound \subseteq connected \X (Element \X Tokens)
    /\ created \subseteq Context \X Nat
    /\ records \in Seq([type : {"data-controller", "data-action", "remove", "add"},
                        node : Element, to : SUBSET Observers])
    /\ transient \subseteq Observers \X Element
    /\ changes \in 0..MaxChanges

\* The controllers the document asks for.
Wanted ==
    IF started
    THEN {c \in Context : IsConnected(c[1]) /\ Has(c[1], c[2]) /\ c[2] \in loaded}
    ELSE {}

\* Whatever scripts did between two deliveries, once the records are delivered
\* the controllers that are connected are those the document asks for.
ScopesConnected == Quiet => connected = Wanted

\* ... and each has a binding for exactly the actions with its name on and
\* below its element, those of nested scopes included.
BindingsTracked ==
    Quiet => \A c \in connected :
        Bindings(c) = {b \in {<<c, e>> : e \in Subtree(c[1])} :
                          c[2] \in ToSet(Read(action, b[2]))}

\* An action is run by the controller of its name that is the closest around
\* the element clicked, and by no other one around it.
ClosestHandles ==
    Quiet => \A x \in Subtree(Root) : HandleEvent(x) =
        {b \in Wanted \X path[x] :
            /\ b[1][2] \in ToSet(Read(action, b[2]))
            /\ b[1][1] \in path[b[2]]
            /\ \A e \in path[x] : Has(e, b[1][2]) => e \in path[b[1][1]]}

\* A controller is initialized once, however often its element leaves the
\* document, comes back, loses and regains its attribute.
InitializedOnce ==
    /\ \A k \in created : k[2] = 1
    /\ \A c \in connected : <<c, 1>> \in created

Life == INSTANCE ControllerLife WITH wanted <- Wanted, connected <- connected

\* The controllers that are connected change only by being brought in line
\* with the document, and always are brought in line in the end.
ImplementsControllerLife == Life!Spec
===========================================================================
