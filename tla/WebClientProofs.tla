-------------------------- MODULE WebClientProofs --------------------------
(* What WebClient does on any page, for any input and any number of calls: *)
(* all the safety properties its run checks.  EndpointKnown, and           *)
(* PanelHonest which needs it, are proved for the pages on which peerInfo  *)
(* precedes the controllers that make requests.                            *)
EXTENDS WebClient, FiniteSetTheorems, SequenceTheorems, TLAPS

----------------------------------------------------------------------------
(* Calls and messages as values.  The invariant is a relation of the calls *)
(* made, the requests the node carried out, and the messages shown.        *)

Updates == {"routing", "catalog"}

\* A call that was accepted has been carried out with its input, and an update
\* has no input.  The first is why a message of success may be believed: it is
\* shown by a continuation that finds the call accepted.
CallsSound(cs, h) ==
    /\ cs \in Seq(CallRecord)
    /\ h \subseteq [call : DOMAIN cs, arg : Field]
    /\ \A c \in DOMAIN cs :
         /\ cs[c].op \in Updates => cs[c].arg = Empty
         /\ cs[c].reply = "ok" => [call |-> c, arg |-> cs[c].arg] \in h

MessageOf(cs) == [call : DOMAIN cs \union {0},
                  kind : {"success", "error", "progress"}, about : Field]

TrueOf(m, h) == m.kind = "success" => [call |-> m.call, arg |-> m.about] \in h

FlashSound(fl, cs, h) == fl \subseteq MessageOf(cs) /\ \A m \in fl : TrueOf(m, h)

\* A new call that is not accepted keeps the calls sound.
LEMMA AppendSound ==
    ASSUME NEW cs, NEW h, CallsSound(cs, h), NEW r \in CallRecord,
           r.reply # "ok", r.op \in Updates => r.arg = Empty
    PROVE  /\ CallsSound(Append(cs, r), h)
           /\ DOMAIN Append(cs, r) = DOMAIN cs \union {Len(cs) + 1}
           /\ Len(cs) + 1 \in Nat
<1>1. cs \in Seq(CallRecord)
  BY DEF CallsSound
<1>2. /\ Append(cs, r) \in Seq(CallRecord)
      /\ Len(cs) \in Nat /\ DOMAIN cs = 1..Len(cs)
      /\ DOMAIN Append(cs, r) = 1..(Len(cs) + 1)
      /\ \A c \in 1..Len(cs) : Append(cs, r)[c] = cs[c]
      /\ Append(cs, r)[Len(cs) + 1] = r
  BY <1>1
<1>3. DOMAIN Append(cs, r) = DOMAIN cs \union {Len(cs) + 1}
  BY <1>2
<1>4. h \subseteq [call : DOMAIN Append(cs, r), arg : Field]
  BY <1>3 DEF CallsSound
<1>5. ASSUME NEW c \in DOMAIN Append(cs, r)
      PROVE  /\ Append(cs, r)[c].op \in Updates => Append(cs, r)[c].arg = Empty
             /\ Append(cs, r)[c].reply = "ok" =>
                  [call |-> c, arg |-> Append(cs, r)[c].arg] \in h
  <2>1. CASE c \in DOMAIN cs
    BY <1>2, <2>1 DEF CallsSound
  <2>2. CASE c = Len(cs) + 1
    BY <1>2, <2>2
  <2>3. QED
    BY <1>3, <2>1, <2>2
<1>6. QED
  BY <1>2, <1>3, <1>4, <1>5 DEF CallsSound

\* A call that moves on keeps its operation and its input, and is accepted only
\* when the node has carried it out.
LEMMA ExceptSound ==
    ASSUME NEW cs, NEW h, CallsSound(cs, h), NEW c \in DOMAIN cs,
           NEW r \in CallRecord, r.op = cs[c].op, r.arg = cs[c].arg,
           NEW g, h \subseteq g, g \subseteq [call : DOMAIN cs, arg : Field],
           r.reply = "ok" =>
               cs[c].reply = "ok" \/ [call |-> c, arg |-> r.arg] \in g
    PROVE  /\ CallsSound([cs EXCEPT ![c] = r], g)
           /\ DOMAIN [cs EXCEPT ![c] = r] = DOMAIN cs
<1> DEFINE ds == [cs EXCEPT ![c] = r]
<1>1. cs \in Seq(CallRecord) /\ c \in 1..Len(cs)
  <2>1. cs \in Seq(CallRecord)
    BY DEF CallsSound
  <2>2. QED
    BY <2>1
<1>2. ds \in Seq(CallRecord)
  BY <1>1, ExceptSeq
<1>3. DOMAIN ds = DOMAIN cs
  OBVIOUS
<1>4. ASSUME NEW d \in DOMAIN cs
      PROVE  /\ ds[d].op \in Updates => ds[d].arg = Empty
             /\ ds[d].reply = "ok" => [call |-> d, arg |-> ds[d].arg] \in g
  <2>1. CASE d = c
    <3>1. ds[d] = r
      BY <2>1
    <3>2. QED
      BY <3>1, <2>1 DEF CallsSound
  <2>2. CASE d # c
    <3>1. ds[d] = cs[d]
      BY <2>2
    <3>2. QED
      BY <3>1 DEF CallsSound
  <2>3. QED
    BY <2>1, <2>2
<1>5. QED
  BY <1>2, <1>3, <1>4 DEF CallsSound

\* A message that is true may be added while calls and requests only grow.
LEMMA SaySound ==
    ASSUME NEW fl, NEW cs, NEW h, FlashSound(fl, cs, h),
           NEW ds, DOMAIN cs \subseteq DOMAIN ds,
           NEW g, h \subseteq g
    PROVE  /\ FlashSound(fl, ds, g)
           /\ \A m \in MessageOf(ds) :
                TrueOf(m, g) => FlashSound(fl \union {m}, ds, g)
<1>1. MessageOf(cs) \subseteq MessageOf(ds)
  BY DEF MessageOf
<1>2. \A m : TrueOf(m, h) => TrueOf(m, g)
  BY DEF TrueOf
<1>3. QED
  BY <1>1, <1>2 DEF FlashSound

----------------------------------------------------------------------------
(* The invariant.                                                          *)

PageOk ==
    /\ page \in Pages
    /\ booted \in 0..Len(page)
    /\ endpoint \in BOOLEAN
    /\ socket \in {"none", "pending", "known", "failed"}
    /\ form \in Field
    /\ clicks \in 0..MaxClicks[page]

ScreenOk(sh, pa, ch, cs) ==
    /\ sh \in [Screen -> Seq([by : DOMAIN cs, got : SUBSET Nat])]
    /\ \A s \in Screen : Len(sh[s]) <= 1
    /\ pa \in [Results -> [is : {"blank", "searching", "result"},
                           by : DOMAIN cs \union {0}]]
    /\ ch \in Seq([call : DOMAIN cs \union {0}, side : {"sent", "received"}])

\* A packet that is listed was notified.
PacketsOk ==
    /\ packets \in [notified : 0..MaxPackets, listed : 0..MaxPackets]
    /\ packets.listed <= packets.notified

Inv ==
    /\ PageOk
    /\ CallsSound(calls, handled)
    /\ FlashSound(flash, calls, handled)
    /\ ScreenOk(shown, panel, chat, calls)
    /\ PacketsOk

\* The invariant has the type invariant and both properties for its parts.
LEMMA InvEnough == Inv => TypeOK /\ SuccessIsTrue /\ NoDuplicateDisplay
  BY DEF Inv, PageOk, CallsSound, FlashSound, MessageOf, TrueOf, ScreenOk,
         PacketsOk, TypeOK, SuccessIsTrue, NoDuplicateDisplay, CallId

\* It holds of the empty page.
LEMMA InvInit == Init => Inv
<1> SUFFICES ASSUME Init PROVE Inv
  OBVIOUS
<1>1. PageOk
  <2>1. page \in Seq(Controller) /\ MaxClicks[page] \in Nat
    BY WebAssumption DEF Init
  <2>2. Len(page) \in Nat
    BY <2>1
  <2>3. booted \in 0..Len(page) /\ clicks \in 0..MaxClicks[page]
    BY <2>1, <2>2 DEF Init
  <2>4. endpoint \in BOOLEAN /\ form \in Field
    BY DEF Init, Field
  <2>5. QED
    BY <2>3, <2>4 DEF Init, PageOk
<1>2. CallsSound(calls, handled) /\ FlashSound(flash, calls, handled)
  <2>1. calls = <<>> /\ handled = {} /\ flash = {}
    BY DEF Init
  <2>2. <<>> \in Seq(CallRecord) /\ DOMAIN <<>> = {}
    OBVIOUS
  <2>3. QED
    BY <2>1, <2>2 DEF CallsSound, FlashSound
<1>3. ScreenOk(shown, panel, chat, calls)
  BY DEF Init, ScreenOk, Text
<1>4. PacketsOk
  BY WebAssumption DEF Init, PacketsOk
<1>5. QED
  BY <1>1, <1>2, <1>3, <1>4 DEF Inv

\* What is on the screen stays well formed while calls are added.
LEMMA ScreenGrows ==
    ASSUME NEW sh, NEW pa, NEW ch, NEW cs, ScreenOk(sh, pa, ch, cs),
           NEW ds, DOMAIN cs \subseteq DOMAIN ds
    PROVE  ScreenOk(sh, pa, ch, ds)
<1>1. [by : DOMAIN cs, got : SUBSET Nat] \subseteq [by : DOMAIN ds, got : SUBSET Nat]
  OBVIOUS
<1>2. Seq([by : DOMAIN cs, got : SUBSET Nat])
        \subseteq Seq([by : DOMAIN ds, got : SUBSET Nat])
  BY <1>1, SeqMonotonic
<1>3. [call : DOMAIN cs \union {0}, side : {"sent", "received"}]
        \subseteq [call : DOMAIN ds \union {0}, side : {"sent", "received"}]
  OBVIOUS
<1>4. Seq([call : DOMAIN cs \union {0}, side : {"sent", "received"}])
        \subseteq Seq([call : DOMAIN ds \union {0}, side : {"sent", "received"}])
  BY <1>3, SeqMonotonic
<1>5. sh \in [Screen -> Seq([by : DOMAIN ds, got : SUBSET Nat])]
  BY <1>2 DEF ScreenOk
<1>6. pa \in [Results -> [is : {"blank", "searching", "result"},
                          by : DOMAIN ds \union {0}]]
  BY DEF ScreenOk
<1>7. QED
  BY <1>4, <1>5, <1>6 DEF ScreenOk

----------------------------------------------------------------------------
(* Steps that several actions have in common.                              *)

\* A continuation leaves the page, the packets and the node alone.
LEMMA ContinueKeeps == Inv /\ Continue => PageOk' /\ PacketsOk' /\ handled' = handled
  BY DEF Inv, Continue, PageOk, PacketsOk

\* A new call has the types of a call and is not accepted.
LEMMA NewCallType ==
    ASSUME NEW op \in Op, NEW arg \in Field, NEW at \in {"read", "fetch", "done", "thrown"}
    PROVE  /\ NewCall(op, arg, at) \in CallRecord
           /\ NewCall(op, arg, at).reply = "pending"
           /\ NewCall(op, arg, at).op = op
           /\ NewCall(op, arg, at).arg = arg
  BY DEF NewCall, CallRecord

\* ... nor is a request.
LEMMA RequestType ==
    ASSUME NEW op \in Op, NEW arg \in Field
    PROVE  /\ Request(op, arg) \in CallRecord
           /\ Request(op, arg).reply = "pending"
           /\ Request(op, arg).op = op
           /\ Request(op, arg).arg = arg
  BY NewCallType DEF Request

\* What is known of a call.
LEMMA CallType ==
    ASSUME Inv, NEW c \in CallId
    PROVE  /\ calls \in Seq(CallRecord) /\ CallId = 1..Len(calls) /\ Len(calls) \in Nat
           /\ calls[c] \in CallRecord
           /\ calls[c].arg \in Field /\ calls[c].op \in Op /\ calls[c].got \subseteq Nat
<1>1. calls \in Seq(CallRecord)
  BY DEF Inv, CallsSound
<1>2. CallId = 1..Len(calls) /\ Len(calls) \in Nat
  BY <1>1 DEF CallId
<1>3. calls[c] \in CallRecord
  BY <1>1, <1>2, ElementOfSeq
<1>4. QED
  BY <1>1, <1>2, <1>3 DEF CallRecord

\* A call that ends stays what it was.
LEMMA FinishSound ==
    ASSUME Inv, NEW c \in CallId
    PROVE  CallsSound(Finish(c), handled) /\ DOMAIN Finish(c) = DOMAIN calls
<1> DEFINE r == [calls[c] EXCEPT !.at = "done", !.got = {}]
<1>1. calls[c] \in CallRecord
  BY CallType
<1>2. r \in CallRecord /\ r.op = calls[c].op /\ r.arg = calls[c].arg
        /\ r.reply = calls[c].reply
  BY <1>1 DEF CallRecord
<1>3. Finish(c) = [calls EXCEPT ![c] = r]
  BY <1>1 DEF Finish, CallRecord, CallId
<1>4. CallsSound(calls, handled) /\ handled \subseteq [call : DOMAIN calls, arg : Field]
  BY DEF Inv, CallsSound
<1>5. c \in DOMAIN calls /\ (r.reply = "ok" => calls[c].reply = "ok")
  BY <1>2 DEF CallId
<1> HIDE DEF r
<1>6. CallsSound([calls EXCEPT ![c] = r], handled)
        /\ DOMAIN [calls EXCEPT ![c] = r] = DOMAIN calls
  BY <1>2, <1>4, <1>5, ExceptSound
<1>7. QED
  BY <1>3, <1>6

\* A report of the end of a call is true when it is a success only if the call
\* was accepted, and then is about the input of the call.
LEMMA ReportSound ==
    ASSUME Inv, NEW c \in CallId, Continue, calls' = Finish(c),
           NEW k \in {"success", "error"}, NEW about \in Field, Say(c, k, about),
           k = "success" => Accepted(c) /\ about = calls[c].arg
    PROVE  /\ PageOk' /\ PacketsOk'
           /\ CallsSound(calls', handled') /\ FlashSound(flash', calls', handled')
           /\ DOMAIN calls' = DOMAIN calls
<1>1. handled' = handled /\ PageOk' /\ PacketsOk'
  BY ContinueKeeps
<1>2. CallsSound(calls', handled) /\ DOMAIN calls' = DOMAIN calls
  BY FinishSound
<1>3. Message(c, k, about) \in MessageOf(calls')
  BY <1>2 DEF Message, MessageOf, CallId
<1>4. TrueOf(Message(c, k, about), handled)
  BY DEF Inv, CallsSound, Message, TrueOf, Accepted, CallId
<1>5. FlashSound(flash', calls', handled)
  BY <1>2, <1>3, <1>4, SaySound DEF Inv, Say
<1>6. QED
  BY <1>1, <1>2, <1>5

----------------------------------------------------------------------------
(* Continuations.                                                          *)

\* A result panel is written by a call.
LEMMA PanelText ==
    ASSUME Inv, NEW c \in CallId, NEW r \in Results,
           panel' \in {panel, [panel EXCEPT ![r] = Text("result", c)]},
           shown' = shown, chat' = chat, DOMAIN calls' = DOMAIN calls
    PROVE  ScreenOk(shown', panel', chat', calls')
<1>1. ScreenOk(shown, panel, chat, calls')
  BY ScreenGrows DEF Inv
<1>2. c \in DOMAIN calls' \union {0}
  BY DEF CallId
<1>3. panel' \in [Results -> [is : {"blank", "searching", "result"},
                              by : DOMAIN calls' \union {0}]]
  BY <1>1, <1>2 DEF ScreenOk, Text
<1>4. QED
  BY <1>1, <1>3 DEF ScreenOk

\* A display shows the answer to one call.
LEMMA DisplayOk ==
    ASSUME Inv, NEW c \in CallId, NEW s \in Screen, shown' = Display(s, c),
           panel' = panel, chat' = chat, DOMAIN calls' = DOMAIN calls
    PROVE  ScreenOk(shown', panel', chat', calls')
<1>1. ScreenOk(shown, panel, chat, calls')
  BY ScreenGrows DEF Inv
<1>2. calls[c].got \subseteq Nat /\ c \in DOMAIN calls'
  BY CallType DEF CallId
<1> DEFINE row == [by |-> c, got |-> calls[c].got]
<1>3. row \in [by : DOMAIN calls', got : SUBSET Nat]
  BY <1>2
<1>4. <<row>> \in Seq([by : DOMAIN calls', got : SUBSET Nat]) /\ Len(<<row>>) = 1
  BY <1>3
<1>5. shown' = [shown EXCEPT ![s] = <<row>>]
  BY DEF Display
<1> HIDE DEF row
<1>6. /\ shown' \in [Screen -> Seq([by : DOMAIN calls', got : SUBSET Nat])]
      /\ \A t \in Screen : Len(shown'[t]) <= 1
  <2> DEFINE S == Seq([by : DOMAIN calls', got : SUBSET Nat])
  <2>1. shown \in [Screen -> S] /\ \A t \in Screen : Len(shown[t]) <= 1
    BY <1>1 DEF ScreenOk
  <2>2. <<row>> \in S
    BY <1>4
  <2> HIDE DEF S
  <2>3. \A t \in Screen : shown'[t] = (IF t = s THEN <<row>> ELSE shown[t])
    BY <1>5, <2>1
  <2>4. shown' \in [Screen -> S]
    BY <1>5, <2>1, <2>2
  <2>5. ASSUME NEW t \in Screen PROVE Len(shown'[t]) <= 1
    <3>1. CASE t = s
      <4>1. shown'[t] = <<row>>
        BY <2>3, <3>1
      <4>2. QED
        BY <1>4, <4>1
    <3>2. CASE t # s
      <4>1. shown'[t] = shown[t]
        BY <2>3, <3>2
      <4>2. QED
        BY <2>1, <4>1
    <3>3. QED
      BY <3>1, <3>2
  <2>6. QED
    BY <2>4, <2>5 DEF S
<1>7. QED
  BY <1>1, <1>6 DEF ScreenOk

\* The chat shows a message of a call, or of nobody.
LEMMA ChatOk ==
    ASSUME Inv, NEW c \in CallId \union {0}, NEW side \in {"sent", "received"},
           chat' = Append(chat, [call |-> c, side |-> side]),
           panel' = panel, shown' = shown, DOMAIN calls' = DOMAIN calls
    PROVE  ScreenOk(shown', panel', chat', calls')
<1>1. ScreenOk(shown, panel, chat, calls')
  BY ScreenGrows DEF Inv
<1>2. [call |-> c, side |-> side] \in
        [call : DOMAIN calls' \union {0}, side : {"sent", "received"}]
  BY DEF CallId
<1>3. chat' \in Seq([call : DOMAIN calls' \union {0}, side : {"sent", "received"}])
  BY <1>1, <1>2 DEF ScreenOk
<1>4. QED
  BY <1>1, <1>3 DEF ScreenOk

\* The continuations that report the end of a call keep the invariant.
LEMMA ReportKeeps ==
    ASSUME Inv, NEW c \in CallId, Report(c), NEW r \in Results,
           panel' \in {panel, [panel EXCEPT ![r] = Text("result", c)]}
    PROVE  Inv'
<1>1. calls[c].arg \in Field
  BY CallType
<1> DEFINE k == IF Accepted(c) THEN "success" ELSE "error"
<1>2. /\ k \in {"success", "error"} /\ Say(c, k, calls[c].arg)
      /\ k = "success" => Accepted(c)
  BY DEF Report
<1>3. Continue /\ calls' = Finish(c) /\ shown' = shown /\ chat' = chat
  BY DEF Report
<1> HIDE DEF k
<1>4. /\ PageOk' /\ PacketsOk'
      /\ CallsSound(calls', handled') /\ FlashSound(flash', calls', handled')
      /\ DOMAIN calls' = DOMAIN calls
  BY <1>1, <1>2, <1>3, ReportSound
<1>5. ScreenOk(shown', panel', chat', calls')
  BY <1>3, <1>4, PanelText
<1>6. QED
  BY <1>4, <1>5 DEF Inv

\* ... which are these.
LEMMA ReportsKeep ==
    ASSUME Inv, NEW c \in CallId,
           \/ ChatSent(c) \/ PrivateSent(c) \/ Downloaded(c) \/ Tagged(c)
           \/ Uploaded(c) \/ SearchAllDone(c) \/ SearchFirstDone(c) \/ Resolved(c)
    PROVE  Inv'
<1>1. {"upload", "searchAll", "searchFirst", "resolve"} \subseteq Results
  BY DEF Results, Searches
<1>2. CASE ChatSent(c) \/ PrivateSent(c) \/ Downloaded(c) \/ Tagged(c)
  BY <1>1, <1>2, ReportKeeps DEF ChatSent, PrivateSent, Downloaded, Tagged
<1>3. CASE Uploaded(c)
  BY <1>1, <1>3, ReportKeeps DEF Uploaded
<1>4. CASE SearchAllDone(c)
  BY <1>1, <1>4, ReportKeeps DEF SearchAllDone, SearchDone
<1>5. CASE SearchFirstDone(c)
  BY <1>1, <1>5, ReportKeeps DEF SearchFirstDone, SearchDone
<1>6. CASE Resolved(c)
  BY <1>1, <1>6, ReportKeeps DEF Resolved
<1>7. QED
  BY <1>2, <1>3, <1>4, <1>5, <1>6

\* The chain is shown in a window, or the call is reported as failed.
LEMMA ChainKeeps == ASSUME Inv, NEW c \in CallId, ChainShown(c) PROVE Inv'
<1>1. PICK opened \in BOOLEAN :
        Say(c, IF Accepted(c) /\ opened THEN "success" ELSE "error", calls[c].arg)
  BY DEF ChainShown
<1> DEFINE k == IF Accepted(c) /\ opened THEN "success" ELSE "error"
<1>2. k \in {"success", "error"} /\ Say(c, k, calls[c].arg) /\ (k = "success" => Accepted(c))
  BY <1>1
<1> HIDE DEF k
<1>3. calls[c].arg \in Field
  BY CallType
<1>4. /\ PageOk' /\ PacketsOk'
      /\ CallsSound(calls', handled') /\ FlashSound(flash', calls', handled')
      /\ DOMAIN calls' = DOMAIN calls
  BY <1>2, <1>3, ReportSound DEF ChainShown
<1>5. ScreenOk(shown', panel', chat', calls')
  BY <1>4, ScreenGrows DEF Inv, ChainShown
<1>6. QED
  BY <1>4, <1>5 DEF Inv

\* A message that was sent is shown as chat, or reported as failed.
LEMMA UnicastKeeps == ASSUME Inv, NEW c \in CallId, UnicastSent(c) PROVE Inv'
<1>1. Continue /\ calls' = Finish(c) /\ shown' = shown /\ panel' = panel
  BY DEF UnicastSent
<1>2. CASE flash' = flash /\ chat' = Append(chat, [call |-> c, side |-> "sent"])
  <2>1. handled' = handled /\ PageOk' /\ PacketsOk'
    BY <1>1, ContinueKeeps
  <2>2. CallsSound(calls', handled) /\ DOMAIN calls' = DOMAIN calls
    BY <1>1, FinishSound
  <2>3. FlashSound(flash', calls', handled)
    BY <1>2, <2>2, SaySound DEF Inv
  <2>4. ScreenOk(shown', panel', chat', calls')
    BY <1>1, <1>2, <2>2, ChatOk
  <2>5. QED
    BY <2>1, <2>2, <2>3, <2>4 DEF Inv
<1>3. CASE Say(c, "error", calls[c].arg) /\ chat' = chat
  <2>1. calls[c].arg \in Field
    BY CallType
  <2>2. /\ PageOk' /\ PacketsOk'
        /\ CallsSound(calls', handled') /\ FlashSound(flash', calls', handled')
        /\ DOMAIN calls' = DOMAIN calls
    BY <1>1, <1>3, <2>1, ReportSound
  <2>3. ScreenOk(shown', panel', chat', calls')
    BY <1>1, <1>3, <2>2, ScreenGrows DEF Inv
  <2>4. QED
    BY <2>2, <2>3 DEF Inv
<1>4. QED
  BY <1>2, <1>3 DEF UnicastSent

\* An edit that was accepted is reported and starts an update.
LEMMA EditKeeps ==
    ASSUME Inv, NEW c \in CallId, NEW op \in Updates, NEW says \in BOOLEAN,
           EditDone(c, op, says)
    PROVE  Inv'
<1>1. Continue /\ shown' = shown /\ panel' = panel /\ chat' = chat
  BY DEF EditDone
<1>2. handled' = handled /\ PageOk' /\ PacketsOk'
  BY <1>1, ContinueKeeps
<1>3. calls[c].arg \in Field
  BY CallType
<1>4. CASE Accepted(c)
  <2>1. CallsSound(Finish(c), handled) /\ DOMAIN Finish(c) = DOMAIN calls
    BY FinishSound
  <2> DEFINE r == Request(op, Empty)
  <2>2. r \in CallRecord /\ r.reply # "ok" /\ r.arg = Empty
    BY RequestType DEF Updates, Op, Field
  <2>3. calls' = Append(Finish(c), r)
    BY <1>4 DEF EditDone
  <2> HIDE DEF r
  <2>4. CallsSound(calls', handled) /\ DOMAIN calls \subseteq DOMAIN calls'
    BY <2>1, <2>2, <2>3, AppendSound
  <2>5. FlashSound(flash', calls', handled)
    <3>1. CASE flash' = flash
      BY <2>4, <3>1, SaySound DEF Inv
    <3>2. CASE Say(c, "success", calls[c].arg)
      <4>1. Message(c, "success", calls[c].arg) \in MessageOf(calls')
        BY <1>3, <2>4 DEF Message, MessageOf, CallId
      <4>2. TrueOf(Message(c, "success", calls[c].arg), handled)
        BY <1>4 DEF Inv, CallsSound, Message, TrueOf, Accepted, CallId
      <4>3. QED
        BY <2>4, <3>2, <4>1, <4>2, SaySound DEF Inv, Say
    <3>3. QED
      BY <1>4, <3>1, <3>2 DEF EditDone
  <2>6. ScreenOk(shown', panel', chat', calls')
    BY <1>1, <2>4, ScreenGrows DEF Inv
  <2>7. QED
    BY <1>2, <2>4, <2>5, <2>6 DEF Inv
<1>5. CASE ~Accepted(c)
  <2>1. calls' = Finish(c) /\ Say(c, "error", calls[c].arg)
    BY <1>5 DEF EditDone
  <2>2. /\ CallsSound(calls', handled') /\ FlashSound(flash', calls', handled')
        /\ DOMAIN calls' = DOMAIN calls
    BY <1>1, <1>3, <2>1, ReportSound
  <2>3. ScreenOk(shown', panel', chat', calls')
    BY <1>1, <2>2, ScreenGrows DEF Inv
  <2>4. QED
    BY <1>2, <2>2, <2>3 DEF Inv
<1>6. QED
  BY <1>4, <1>5

\* The edits are these.
LEMMA EditsKeep ==
    ASSUME Inv, NEW c \in CallId, PeerAdded(c) \/ EntrySet(c) \/ Added(c)
    PROVE  Inv'
  BY EditKeeps DEF PeerAdded, EntrySet, Added, Updates

\* A call of an update has no input.
LEMMA UpdateArg ==
    ASSUME Inv, NEW c \in CallId, calls[c].op \in Updates
    PROVE  calls[c].arg = Empty
  BY DEF Inv, CallsSound, CallId

\* The table is shown, and the graph asked for, whatever became of the table.
LEMMA TableKeeps == ASSUME Inv, NEW c \in CallId, UpdateTable(c) PROVE Inv'
<1>1. PageOk' /\ PacketsOk' /\ handled' = handled
  BY ContinueKeeps DEF UpdateTable
<1>2. calls[c] \in CallRecord /\ calls[c].arg = Empty
  BY CallType, UpdateArg DEF UpdateTable, Answered, Updates
<1> DEFINE r == [calls[c] EXCEPT !.at = "graph", !.reply = "pending", !.got = {}]
<1>3. r \in CallRecord /\ r.op = calls[c].op /\ r.arg = calls[c].arg /\ r.reply # "ok"
  BY <1>2 DEF CallRecord
<1>4. calls' = [calls EXCEPT ![c] = r]
  BY <1>2 DEF UpdateTable, CallRecord, CallId
<1>5. CallsSound(calls, handled) /\ handled \subseteq [call : DOMAIN calls, arg : Field]
        /\ c \in DOMAIN calls
  BY DEF Inv, CallsSound, CallId
<1> HIDE DEF r
<1>6. CallsSound(calls', handled) /\ DOMAIN calls' = DOMAIN calls
  BY <1>3, <1>4, <1>5, ExceptSound
<1>7. FlashSound(flash', calls', handled)
  <2> DEFINE k == IF Accepted(c) THEN "success" ELSE "error"
  <2>1. k \in {"success", "error"} /\ Say(c, k, Empty) /\ (k = "success" => Accepted(c))
    BY DEF UpdateTable
  <2> HIDE DEF k
  <2>2. Message(c, k, Empty) \in MessageOf(calls')
    BY <2>1, <1>5, <1>6 DEF Message, MessageOf, Field
  <2>3. TrueOf(Message(c, k, Empty), handled)
    BY <2>1, <1>2 DEF Inv, CallsSound, Message, TrueOf, Accepted, CallId
  <2>4. QED
    BY <1>6, <2>1, <2>2, <2>3, SaySound DEF Inv, Say
<1>8. ScreenOk(shown', panel', chat', calls')
  <2>1. CASE Accepted(c)
    BY <1>6, <2>1, DisplayOk DEF UpdateTable, Screen
  <2>2. CASE ~Accepted(c)
    BY <1>6, <2>2, ScreenGrows DEF Inv, UpdateTable
  <2>3. QED
    BY <2>1, <2>2
<1>9. QED
  BY <1>1, <1>6, <1>7, <1>8 DEF Inv

\* The graph is drawn when there is one.
LEMMA GraphKeeps == ASSUME Inv, NEW c \in CallId, UpdateGraph(c) PROVE Inv'
<1>1. Continue /\ shown' = shown /\ panel' = panel /\ chat' = chat
  BY DEF UpdateGraph
<1>2. PageOk' /\ PacketsOk' /\ handled' = handled
  BY <1>1, ContinueKeeps
<1>3. CASE Accepted(c)
  <2>1. calls[c] \in CallRecord
    BY CallType
  <2> DEFINE r == [calls[c] EXCEPT !.at = "render"]
  <2>2. r \in CallRecord /\ r.op = calls[c].op /\ r.arg = calls[c].arg
          /\ r.reply = calls[c].reply
    BY <2>1 DEF CallRecord
  <2>3. calls' = [calls EXCEPT ![c] = r] /\ flash' = flash
    BY <1>3, <2>1 DEF UpdateGraph, CallRecord, CallId
  <2>4. CallsSound(calls, handled) /\ handled \subseteq [call : DOMAIN calls, arg : Field]
          /\ c \in DOMAIN calls
    BY DEF Inv, CallsSound, CallId
  <2> HIDE DEF r
  <2>5. CallsSound(calls', handled) /\ DOMAIN calls' = DOMAIN calls
    BY <2>2, <2>3, <2>4, ExceptSound
  <2>6. FlashSound(flash', calls', handled)
    BY <2>3, <2>5, SaySound DEF Inv
  <2>7. ScreenOk(shown', panel', chat', calls')
    BY <1>1, <2>5, ScreenGrows DEF Inv
  <2>8. QED
    BY <1>2, <2>5, <2>6, <2>7 DEF Inv
<1>4. CASE ~Accepted(c)
  <2>1. calls' = Finish(c) /\ Say(c, "error", Empty) /\ Empty \in Field
    BY <1>4 DEF UpdateGraph, Field
  <2>2. /\ CallsSound(calls', handled') /\ FlashSound(flash', calls', handled')
        /\ DOMAIN calls' = DOMAIN calls
    BY <1>1, <2>1, ReportSound
  <2>3. ScreenOk(shown', panel', chat', calls')
    BY <1>1, <2>2, ScreenGrows DEF Inv
  <2>4. QED
    BY <1>2, <2>2, <2>3 DEF Inv
<1>5. QED
  BY <1>3, <1>4

\* The end of the drawing.
LEMMA RenderKeeps ==
    ASSUME Inv, NEW c \in CallId, Rendered(c) \/ RenderFails(c)
    PROVE  Inv'
<1>1. Continue /\ calls' = Finish(c) /\ panel' = panel /\ chat' = chat
  BY DEF Rendered, RenderFails
<1>2. PageOk' /\ PacketsOk' /\ handled' = handled
  BY <1>1, ContinueKeeps
<1>3. CallsSound(calls', handled) /\ DOMAIN calls' = DOMAIN calls
  BY <1>1, FinishSound
<1>4. CASE Rendered(c)
  <2>1. FlashSound(flash', calls', handled)
    BY <1>3, <1>4, SaySound DEF Inv, Rendered
  <2>2. ScreenOk(shown', panel', chat', calls')
    BY <1>1, <1>3, <1>4, DisplayOk DEF Rendered, Screen
  <2>3. QED
    BY <1>2, <1>3, <2>1, <2>2 DEF Inv
<1>5. CASE RenderFails(c)
  <2>1. Say(c, "error", Empty) /\ Empty \in Field
    BY <1>5 DEF RenderFails, Field
  <2>2. FlashSound(flash', calls', handled')
    BY <1>1, <2>1, ReportSound
  <2>3. ScreenOk(shown', panel', chat', calls')
    BY <1>1, <1>3, <1>5, ScreenGrows DEF Inv, RenderFails
  <2>4. QED
    BY <1>2, <1>3, <2>2, <2>3 DEF Inv
<1>6. QED
  BY <1>4, <1>5

\* The catalog is shown.
LEMMA CatalogKeeps == ASSUME Inv, NEW c \in CallId, CatalogShown(c) PROVE Inv'
<1>1. Continue /\ calls' = Finish(c) /\ panel' = panel /\ chat' = chat
  BY DEF CatalogShown
<1>2. calls[c].arg = Empty /\ Empty \in Field
  BY UpdateArg DEF CatalogShown, Answered, Updates, Field
<1> DEFINE k == IF Accepted(c) THEN "success" ELSE "error"
<1>3. k \in {"success", "error"} /\ Say(c, k, Empty) /\ (k = "success" => Accepted(c))
  BY DEF CatalogShown
<1> HIDE DEF k
<1>4. /\ PageOk' /\ PacketsOk'
      /\ CallsSound(calls', handled') /\ FlashSound(flash', calls', handled')
      /\ DOMAIN calls' = DOMAIN calls
  BY <1>1, <1>2, <1>3, ReportSound
<1>5. ScreenOk(shown', panel', chat', calls')
  <2>1. CASE Accepted(c)
    BY <1>1, <1>4, <2>1, DisplayOk DEF CatalogShown, Screen
  <2>2. CASE ~Accepted(c)
    BY <1>1, <1>4, <2>2, ScreenGrows DEF Inv, CatalogShown
  <2>3. QED
    BY <2>1, <2>2
<1>6. QED
  BY <1>4, <1>5 DEF Inv

\* Every continuation keeps the invariant.
LEMMA ContinuationKeeps == ASSUME Inv, NEW c \in CallId, Continuation(c) PROVE Inv'
  BY ReportsKeep, ChainKeeps, UnicastKeeps, EditsKeep, TableKeeps, GraphKeeps,
     RenderKeeps, CatalogKeeps DEF Continuation

----------------------------------------------------------------------------
(* The node, the reading of a file, and the start of the page.             *)

\* A call moves on while the screen and the messages stay, and is accepted only
\* when it is among those carried out.
LEMMA MoveSound ==
    ASSUME Inv, NEW c \in CallId, NEW r \in CallRecord,
           r.op = calls[c].op, r.arg = calls[c].arg,
           r.reply = "ok" => calls[c].reply = "ok" \/ handled' = Carried(c),
           calls' = [calls EXCEPT ![c] = r], handled' \in {handled, Carried(c)},
           UNCHANGED <<flash, shown, panel, chat>>
    PROVE  /\ CallsSound(calls', handled') /\ FlashSound(flash', calls', handled')
           /\ ScreenOk(shown', panel', chat', calls')
<1>1. CallsSound(calls, handled) /\ c \in DOMAIN calls /\ calls[c].arg \in Field
  BY CallType DEF Inv, CallId
<1>2. /\ handled \subseteq handled'
      /\ handled' \subseteq [call : DOMAIN calls, arg : Field]
      /\ handled' = Carried(c) => [call |-> c, arg |-> r.arg] \in handled'
  BY <1>1 DEF CallsSound, Carried
<1>3. CallsSound(calls', handled') /\ DOMAIN calls' = DOMAIN calls
  BY <1>1, <1>2, ExceptSound
<1>4. FlashSound(flash', calls', handled')
  BY <1>2, <1>3, SaySound DEF Inv
<1>5. ScreenOk(shown', panel', chat', calls')
  BY <1>3, ScreenGrows DEF Inv
<1>6. QED
  BY <1>3, <1>4, <1>5

\* The node carries a call out, or its request fails, carried out or not.
LEMMA NodeKeeps == ASSUME Inv, NEW c \in CallId, Serve(c) \/ Break(c) PROVE Inv'
<1>1. PageOk' /\ PacketsOk'
  BY DEF Inv, PageOk, PacketsOk, Serve, Break
<1>2. calls[c] \in CallRecord
  BY CallType
<1>3. CASE Serve(c)
  <2> DEFINE r == [calls[c] EXCEPT !.reply = "ok", !.got = Snapshot(calls[c].op)]
  <2>1. Snapshot(calls[c].op) \subseteq Nat
    <3>1. handled \subseteq [call : DOMAIN calls, arg : Field] /\ DOMAIN calls \subseteq Nat
      BY CallType DEF Inv, CallsSound, CallId
    <3>2. QED
      BY <3>1 DEF Snapshot
  <2>2. r \in CallRecord /\ r.op = calls[c].op /\ r.arg = calls[c].arg
    BY <1>2, <2>1 DEF CallRecord
  <2>3. calls' = [calls EXCEPT ![c] = r] /\ handled' = Carried(c)
    BY <1>2, <1>3 DEF Serve, CallRecord, CallId
  <2> HIDE DEF r
  <2>4. QED
    BY <1>1, <1>3, <2>2, <2>3, MoveSound DEF Inv, Serve
<1>4. CASE Break(c)
  <2> DEFINE r == [calls[c] EXCEPT !.reply = "failed"]
  <2>1. r \in CallRecord /\ r.op = calls[c].op /\ r.arg = calls[c].arg /\ r.reply # "ok"
    BY <1>2 DEF CallRecord
  <2>2. calls' = [calls EXCEPT ![c] = r] /\ handled' \in {handled, Carried(c)}
    BY <1>2, <1>4 DEF Break, CallRecord, CallId
  <2> HIDE DEF r
  <2>3. QED
    BY <1>1, <1>4, <2>1, <2>2, MoveSound DEF Inv, Break
<1>5. QED
  BY <1>3, <1>4

\* A file is read, or cannot be.
LEMMA FileKeeps == ASSUME Inv, NEW c \in CallId, FileRead(c) PROVE Inv'
<1>1. PageOk' /\ PacketsOk' /\ handled' = handled
  BY ContinueKeeps DEF FileRead, FileLoaded, FileUnreadable, Reading
<1>2. calls[c] \in CallRecord
  BY CallType
<1>3. PICK at \in {"fetch", "unread"} : calls' = [calls EXCEPT ![c].at = at]
  BY DEF FileRead, FileLoaded, FileUnreadable
<1> DEFINE r == [calls[c] EXCEPT !.at = at]
<1>4. /\ r \in CallRecord /\ r.op = calls[c].op /\ r.arg = calls[c].arg
      /\ r.reply = calls[c].reply
  BY <1>2 DEF CallRecord
<1>5. calls' = [calls EXCEPT ![c] = r]
  BY <1>2, <1>3 DEF CallRecord, CallId
<1> HIDE DEF r
<1>6. UNCHANGED <<flash, shown, panel, chat>>
  BY DEF FileRead, FileLoaded, FileUnreadable, Reading
<1>7. QED
  BY <1>1, <1>4, <1>5, <1>6, MoveSound DEF Inv

\* A message that is no success, about no call or one there is, is sound.
LEMMA TellSound ==
    ASSUME Inv, NEW c \in CallId \union {0}, NEW k \in {"error", "progress"},
           NEW about \in Field, Say(c, k, about), UNCHANGED <<calls, handled>>
    PROVE  FlashSound(flash', calls', handled')
<1>1. Message(c, k, about) \in MessageOf(calls)
  BY DEF Message, MessageOf, CallId
<1>2. TrueOf(Message(c, k, about), handled)
  BY DEF Message, TrueOf
<1>3. QED
  BY <1>1, <1>2, SaySound DEF Inv, Say

\* The progress of the reading is shown.
LEMMA ProgressKeeps == ASSUME Inv, NEW c \in CallId, FileProgress(c) PROVE Inv'
<1>1. PageOk' /\ PacketsOk' /\ handled' = handled /\ calls' = calls
  BY ContinueKeeps DEF FileProgress, Reading
<1>2. calls[c].arg \in Field
  BY CallType
<1>3. FlashSound(flash', calls', handled')
  BY <1>1, <1>2, TellSound DEF FileProgress
<1>4. QED
  BY <1>1, <1>3 DEF Inv, FileProgress, Reading

\* The start of the page: the updates of the start are the only new calls.
LEMMA InitializeKeeps == ASSUME Inv, Initialize PROVE Inv'
<1>1. Len(page) \in Nat
  <2>1. page \in Seq(Controller)
    BY WebAssumption DEF Inv, PageOk
  <2>2. QED
    BY <2>1
<1>2. /\ page' = page /\ form' = form /\ clicks' = clicks /\ booted' = booted + 1
      /\ booted # Len(page)
      /\ UNCHANGED <<handled, flash, shown, panel, chat, packets>>
  BY DEF Initialize, Ready
<1>3. endpoint' \in BOOLEAN /\ socket' \in {"none", "pending", "known", "failed"}
  BY DEF Inv, PageOk, Initialize, PeerInfoInitialize, RoutingInitialize, CatalogInitialize
<1>4. PageOk' /\ PacketsOk'
  BY <1>1, <1>2, <1>3 DEF Inv, PageOk, PacketsOk
<1>5. calls' = calls \/ \E op \in Updates : calls' = Append(calls, Request(op, Empty))
  BY DEF Initialize, PeerInfoInitialize, RoutingInitialize, CatalogInitialize, Updates
<1>6. CallsSound(calls', handled) /\ DOMAIN calls \subseteq DOMAIN calls'
  <2>1. CASE calls' = calls
    BY <2>1 DEF Inv
  <2>2. ASSUME NEW op \in Updates, calls' = Append(calls, Request(op, Empty))
        PROVE  CallsSound(calls', handled) /\ DOMAIN calls \subseteq DOMAIN calls'
    <3> DEFINE r == Request(op, Empty)
    <3>1. r \in CallRecord /\ r.reply # "ok" /\ r.arg = Empty
      BY RequestType DEF Updates, Op, Field
    <3> HIDE DEF r
    <3>2. QED
      BY <2>2, <3>1, AppendSound DEF Inv, r
  <2>3. QED
    BY <1>5, <2>1, <2>2
<1>7. FlashSound(flash', calls', handled')
  BY <1>2, <1>6, SaySound DEF Inv
<1>8. ScreenOk(shown', panel', chat', calls')
  BY <1>2, <1>6, ScreenGrows DEF Inv
<1>9. QED
  BY <1>2, <1>4, <1>6, <1>7, <1>8 DEF Inv

----------------------------------------------------------------------------
(* The user and the network.                                               *)

\* Typing, the address of the socket and the notifications make no call.
LEMMA PageKeeps ==
    ASSUME Inv,
           \/ SocketAddress \/ SocketAddressFails \/ Type \/ PacketError
           \/ \E isChat, own \in BOOLEAN : PacketMessage(isChat, own)
    PROVE  Inv'
<1>0. 0 \in CallId \union {0} /\ Empty \in Field
  BY DEF Field
<1>1. CASE SocketAddress
  BY <1>1 DEF Inv, PageOk, PacketsOk, SocketAddress
<1>2. CASE SocketAddressFails
  <2>1. FlashSound(flash', calls', handled')
    BY <1>0, <1>2, TellSound DEF SocketAddressFails
  <2>2. QED
    BY <1>2, <2>1 DEF Inv, PageOk, PacketsOk, SocketAddressFails
<1>3. CASE Type
  BY <1>3 DEF Inv, PageOk, PacketsOk, Type
<1>4. CASE PacketError
  <2>1. FlashSound(flash', calls', handled')
    BY <1>0, <1>4, TellSound DEF PacketError
  <2>2. QED
    BY <1>4, <2>1 DEF Inv, PageOk, PacketsOk, PacketError
<1>5. ASSUME NEW isChat \in BOOLEAN, NEW own \in BOOLEAN, PacketMessage(isChat, own)
      PROVE  Inv'
  <2>1. PageOk' /\ calls' = calls /\ handled' = handled /\ flash' = flash
          /\ shown' = shown /\ panel' = panel
    BY <1>5 DEF Inv, PageOk, PacketMessage
  <2>2. /\ packets' = [notified |-> packets.notified + 1, listed |-> packets'.listed]
        /\ packets'.listed \in {packets.listed, packets.listed + 1}
    BY <1>5 DEF Inv, PacketsOk, PacketMessage
  <2>3. PacketsOk'
    <3>1. /\ packets.notified \in 0..MaxPackets /\ packets.listed \in 0..MaxPackets
          /\ packets.listed <= packets.notified /\ packets.notified < MaxPackets
          /\ MaxPackets \in Nat
      BY <1>5, WebAssumption DEF Inv, PacketsOk, PacketMessage
    <3>2. packets'.notified = packets.notified + 1
      BY <2>2
    <3>3. packets'.listed \in 0..MaxPackets /\ packets'.notified \in 0..MaxPackets
            /\ packets'.listed <= packets'.notified
      BY <2>2, <3>1, <3>2
    <3>4. QED
      BY <2>2, <3>3 DEF PacketsOk
  <2>4. \/ chat' = chat
        \/ \E side \in {"sent", "received"} :
             chat' = Append(chat, [call |-> 0, side |-> side])
    BY <1>5 DEF PacketMessage
  <2>5. ScreenOk(shown', panel', chat', calls')
    <3>1. CASE chat' = chat
      BY <2>1, <3>1 DEF Inv
    <3>2. CASE \E side \in {"sent", "received"} :
                 chat' = Append(chat, [call |-> 0, side |-> side])
      BY <1>0, <2>1, <3>2, ChatOk
    <3>3. QED
      BY <2>4, <3>1, <3>2
  <2>6. QED
    BY <2>1, <2>3, <2>5 DEF Inv
<1>6. QED
  BY <1>1, <1>2, <1>3, <1>4, <1>5

\* A click counts.
LEMMA ClickKeeps ==
    ASSUME Inv, NEW ctl, Click(ctl)
    PROVE  /\ PageOk' /\ PacketsOk' /\ handled' = handled
           /\ shown' = shown /\ chat' = chat /\ form \in Field
<1>1. MaxClicks[page] \in Nat
  BY WebAssumption DEF Inv, PageOk
<1>2. clicks' \in 0..MaxClicks[page]
  BY <1>1 DEF Inv, PageOk, Click
<1>3. QED
  BY <1>2 DEF Inv, PageOk, PacketsOk, Click

\* What a click may start: a call that is not accepted, with nothing said about it
\* that is a success.
Starts(r) ==
    /\ r \in CallRecord /\ r.reply # "ok" /\ (r.op \in Updates => r.arg = Empty)
    /\ calls' = Append(calls, r)
    /\ flash' = flash \/ Say(Len(calls) + 1, "error", form)

\* A call that starts keeps the invariant; a panel may announce it.
LEMMA StartsKeep ==
    ASSUME Inv, NEW ctl, Click(ctl), NEW r, Starts(r),
           NEW p \in Results,
           panel' \in {panel, [panel EXCEPT ![p] = Text("searching", Len(calls) + 1)]}
    PROVE  Inv'
<1>1. /\ PageOk' /\ PacketsOk' /\ handled' = handled
      /\ shown' = shown /\ chat' = chat /\ form \in Field
  BY ClickKeeps
<1>2. CallsSound(calls', handled) /\ DOMAIN calls' = DOMAIN calls \union {Len(calls) + 1}
  BY AppendSound DEF Inv, Starts
<1>3. FlashSound(flash', calls', handled)
  <2>1. CASE flash' = flash
    BY <1>2, <2>1, SaySound DEF Inv
  <2>2. CASE Say(Len(calls) + 1, "error", form)
    <3>1. Message(Len(calls) + 1, "error", form) \in MessageOf(calls')
      BY <1>1, <1>2 DEF Message, MessageOf
    <3>2. TrueOf(Message(Len(calls) + 1, "error", form), handled)
      BY DEF Message, TrueOf
    <3>3. QED
      BY <1>2, <2>2, <3>1, <3>2, SaySound DEF Inv, Say
  <2>3. QED
    BY <2>1, <2>2 DEF Starts
<1>4. ScreenOk(shown', panel', chat', calls')
  <2>1. ScreenOk(shown, panel, chat, calls')
    BY <1>2, ScreenGrows DEF Inv
  <2>2. panel' \in [Results -> [is : {"blank", "searching", "result"},
                                by : DOMAIN calls' \union {0}]]
    BY <1>2, <2>1 DEF ScreenOk, Text
  <2>3. QED
    BY <1>1, <2>1, <2>2 DEF ScreenOk
<1>5. QED
  BY <1>1, <1>2, <1>3, <1>4 DEF Inv

\* A click that is rejected starts a call that is over.
LEMMA RejectStarts ==
    ASSUME NEW op \in Op \ Updates, form \in Field, Reject(op)
    PROVE  \E r : Starts(r)
<1> DEFINE n == NewCall(op, form, "done")
           r == [n EXCEPT !.reply = "none"]
<1>1. n \in CallRecord /\ n.op = op
  BY NewCallType
<1>2. r \in CallRecord /\ r.reply # "ok" /\ r.op \notin Updates
  BY <1>1 DEF CallRecord
<1>3. calls' = Append(calls, r) /\ Say(Len(calls) + 1, "error", form)
  BY DEF Reject
<1>4. QED
  BY <1>2, <1>3 DEF Starts

\* A request with the content of the field starts a call.
LEMMA RequestStarts ==
    ASSUME NEW op \in Op \ Updates, form \in Field,
           calls' = Append(calls, Request(op, form)),
           flash' = flash \/ Say(Len(calls) + 1, "error", form)
    PROVE  \E r : Starts(r)
<1> DEFINE r == Request(op, form)
<1>1. r \in CallRecord /\ r.reply # "ok" /\ r.op \notin Updates
  BY RequestType
<1>2. calls' = Append(calls, r)
  OBVIOUS
<1> HIDE DEF r
<1>3. Starts(r)
  BY <1>1, <1>2 DEF Starts
<1>4. QED
  BY <1>3

\* So does an update the user asks for.
LEMMA UpdateStarts ==
    ASSUME NEW op \in Updates, calls' = Append(calls, Request(op, Empty)), flash' = flash
    PROVE  \E r : Starts(r)
<1> DEFINE r == Request(op, Empty)
<1>1. r \in CallRecord /\ r.reply # "ok" /\ r.arg = Empty
  BY RequestType DEF Updates, Op, Field
<1>2. calls' = Append(calls, r)
  OBVIOUS
<1> HIDE DEF r
<1>3. Starts(r)
  BY <1>1, <1>2 DEF Starts
<1>4. QED
  BY <1>3

\* So does a click whose inputs are checked, accepted or not.
LEMMA CheckStarts ==
    ASSUME NEW op \in Op \ Updates, form \in Field,
           NEW required \in BOOLEAN, NEW filled \in BOOLEAN,
           CheckInputs(op, required, filled)
    PROVE  \E r : Starts(r)
<1>1. CASE filled /\ (required => form # Empty)
  BY <1>1, RequestStarts DEF CheckInputs
<1>2. CASE ~(filled /\ (required => form # Empty))
  BY <1>2, RejectStarts DEF CheckInputs
<1>3. QED
  BY <1>1, <1>2

\* The clicks keep the invariant.
LEMMA UserKeeps == ASSUME Inv, UserClicks PROVE Inv'
<1>0. /\ form \in Field
      /\ {"upload", "searchAll", "searchFirst"} \subseteq Results
      /\ \A op \in {"send", "addPeer", "setEntry", "sendChat", "sendPrivate", "add",
                    "upload", "download", "searchAll", "searchFirst", "resolve",
                    "tag", "get"} : op \in Op \ Updates
  BY DEF Inv, PageOk, Results, Searches, Op, Updates
<1>1. CASE RoutingUpdate \/ CatalogUpdate
  BY <1>0, <1>1, UpdateStarts, StartsKeep DEF RoutingUpdate, CatalogUpdate, Updates
<1>2. CASE UnicastSend \/ SendChat \/ SendPrivate
  BY <1>0, <1>2, CheckStarts, StartsKeep DEF UnicastSend, SendChat, SendPrivate
<1>3. CASE AddPeer \/ SetEntry \/ CatalogAdd
  BY <1>0, <1>3, CheckStarts, StartsKeep DEF AddPeer, SetEntry, CatalogAdd
<1>4. CASE Download \/ Tag \/ BlockchainGet
  BY <1>0, <1>4, CheckStarts, StartsKeep DEF Download, Tag, BlockchainGet
<1>5. CASE Resolve
  BY <1>0, <1>5, RequestStarts, StartsKeep DEF Resolve
<1>6. CASE Upload
  <2>1. CASE form = Empty
    BY <1>0, <1>6, <2>1, RejectStarts, StartsKeep DEF Upload
  <2>2. CASE form # Empty
    <3> DEFINE r == NewCall("upload", form, "read")
    <3>1. r \in CallRecord /\ r.reply # "ok" /\ r.op \notin Updates
      BY <1>0, NewCallType DEF Updates
    <3>2. calls' = Append(calls, r) /\ flash' = flash
      BY <1>6, <2>2 DEF Upload
    <3> HIDE DEF r
    <3>3. Starts(r)
      BY <3>1, <3>2 DEF Starts
    <3>4. QED
      BY <1>0, <1>6, <3>3, StartsKeep DEF Upload
  <2>3. QED
    BY <2>1, <2>2
<1>7. ASSUME NEW op \in Searches, Search(op) PROVE Inv'
  <2>1. PICK filled \in BOOLEAN :
          /\ CheckInputs(op, TRUE, filled)
          /\ panel' \in {panel, [panel EXCEPT ![op] = Text("searching", Len(calls) + 1)]}
    BY <1>7 DEF Search
  <2>2. op \in Op \ Updates /\ op \in Results
    BY <1>0 DEF Searches
  <2>3. \E r : Starts(r)
    BY <1>0, <2>1, <2>2, CheckStarts
  <2>4. QED
    BY <1>7, <2>1, <2>2, <2>3, StartsKeep DEF Search
<1>8. CASE SearchAll \/ SearchFirst
  BY <1>7, <1>8 DEF SearchAll, SearchFirst, Searches
<1>9. QED
  BY <1>1, <1>2, <1>3, <1>4, <1>5, <1>6, <1>8 DEF UserClicks

----------------------------------------------------------------------------
(* The theorems.                                                           *)

\* Every step keeps the invariant.
LEMMA NextKeeps == Inv /\ [Next]_vars => Inv'
<1> SUFFICES ASSUME Inv, [Next]_vars PROVE Inv'
  OBVIOUS
<1>1. CASE UserClicks
  BY <1>1, UserKeeps
<1>2. CASE \E c \in CallId : Progress(c) \/ FileProgress(c)
  BY <1>2, NodeKeeps, FileKeeps, ContinuationKeeps, ProgressKeeps DEF Progress
<1>3. CASE Initialize
  BY <1>3, InitializeKeeps
<1>4. CASE \/ SocketAddress \/ SocketAddressFails \/ Type \/ PacketError
           \/ \E isChat, own \in BOOLEAN : PacketMessage(isChat, own)
  BY <1>4, PageKeeps
<1>5. CASE UNCHANGED vars
  BY <1>5 DEF Inv, PageOk, PacketsOk, vars
<1>6. QED
  BY <1>1, <1>2, <1>3, <1>4, <1>5 DEF Next

\* The invariant holds in every state.
LEMMA InvAlways == Spec => []Inv
  BY InvInit, NextKeeps, PTL DEF Spec

\* Every state is typed, for any pages, inputs and bounds.
THEOREM TypeCorrect == Spec => []TypeOK
  BY InvAlways, InvEnough, PTL

\* A message of success is true, for any pages, inputs and bounds.
THEOREM SuccessTrueAlways == Spec => []SuccessIsTrue
  BY InvAlways, InvEnough, PTL

\* A display never holds the rows of two updates, for any pages and bounds.
THEOREM NoDuplicateAlways == Spec => []NoDuplicateDisplay
  BY InvAlways, InvEnough, PTL

----------------------------------------------------------------------------
(* What the user is told.  A call goes through its stages in order, and a  *)
(* call that has ended left a trace the user can see: this is inductive    *)
(* once it also says that a call which asks for the graph has reported on  *)
(* the table, and that only what was accepted is drawn.                    *)

Stage(k) ==
    /\ k.at \in {"read", "unread", "thrown"} => k.reply = "pending"
    /\ k.at \in {"read", "unread"} => k.op = "upload"
    /\ k.at = "render" => k.reply = "ok"

Chatted(ch, c) == \E i \in DOMAIN ch : ch[i].call = c

Updated(c) == calls[c].op = "add" /\ \E u \in CallId : u > c /\ calls[u].op = "catalog"

Outcome(c) ==
    \/ Told(c, "error")
    \/ Accepted(c) /\ (Told(c, "success") \/ Chatted(chat, c) \/ Updated(c))

CallOk(c) ==
    /\ Stage(calls[c])
    /\ calls[c].at \in {"graph", "render"} => Told(c, "error") \/ Told(c, "success")
    /\ calls[c].at = "done" => Outcome(c)

CallsOk == \A c \in CallId : CallOk(c)

\* What a step never takes back.
Grows ==
    /\ CallId \subseteq DOMAIN calls'
    /\ \A d \in CallId : calls'[d].op = calls[d].op
    /\ flash \subseteq flash'
    /\ \A d : Chatted(chat, d) => Chatted(chat', d)

\* A call the step does not touch keeps its trace.
LEMMA CallStays ==
    ASSUME Inv, Grows, NEW d \in CallId, CallOk(d), calls'[d] = calls[d]
    PROVE  CallOk(d)'
<1>1. \A kind : Told(d, kind) => Told(d, kind)'
  BY DEF Grows, Told
<1>2. Accepted(d)' = Accepted(d)
  BY DEF Accepted
<1>3. Updated(d) => Updated(d)'
  BY DEF Grows, Updated, CallId
<1>4. Chatted(chat, d) => Chatted(chat', d)
  BY DEF Grows
<1>5. Outcome(d) => Outcome(d)'
  BY <1>1, <1>2, <1>3, <1>4 DEF Outcome
<1>6. QED
  BY <1>1, <1>5 DEF CallOk

\* A chat that grows keeps its messages, and has the new one.
LEMMA ChatGrows ==
    ASSUME Inv, NEW c \in CallId \union {0}, NEW side \in {"sent", "received"},
           chat' = Append(chat, [call |-> c, side |-> side])
    PROVE  /\ \A d : Chatted(chat, d) => Chatted(chat', d)
           /\ Chatted(chat', c)
<1> DEFINE line == [call |-> c, side |-> side]
<1>1. chat \in Seq([call : CallId \union {0}, side : {"sent", "received"}])
  BY DEF Inv, ScreenOk, CallId
<1>2. /\ DOMAIN chat = 1..Len(chat) /\ Len(chat) \in Nat
      /\ DOMAIN chat' = 1..(Len(chat) + 1)
      /\ \A i \in 1..Len(chat) : chat'[i] = chat[i]
      /\ chat'[Len(chat) + 1] = line
  BY <1>1
<1>3. line.call = c
  OBVIOUS
<1>4. Chatted(chat', c)
  <2>1. Len(chat) + 1 \in DOMAIN chat'
    BY <1>2
  <2>2. chat'[Len(chat) + 1].call = c
    BY <1>2
  <2>3. QED
    BY <2>1, <2>2 DEF Chatted
<1>5. ASSUME NEW d, Chatted(chat, d) PROVE Chatted(chat', d)
  <2>1. PICK i \in DOMAIN chat : chat[i].call = d
    BY <1>5 DEF Chatted
  <2>2. i \in DOMAIN chat' /\ chat'[i] = chat[i]
    BY <1>2
  <2>3. QED
    BY <2>1, <2>2 DEF Chatted
<1>6. QED
  BY <1>4, <1>5

\* The calls after one is added.
LEMMA AppendFacts ==
    ASSUME NEW cs \in Seq(CallRecord), NEW r \in CallRecord
    PROVE  /\ Len(cs) + 1 \in Nat /\ DOMAIN cs \subseteq Nat
           /\ DOMAIN Append(cs, r) = DOMAIN cs \union {Len(cs) + 1}
           /\ Append(cs, r)[Len(cs) + 1] = r
           /\ \A d \in DOMAIN cs : Append(cs, r)[d] = cs[d] /\ Len(cs) + 1 > d
<1>1. /\ Len(cs) \in Nat /\ DOMAIN cs = 1..Len(cs)
      /\ DOMAIN Append(cs, r) = 1..(Len(cs) + 1)
      /\ \A d \in 1..Len(cs) : Append(cs, r)[d] = cs[d]
      /\ Append(cs, r)[Len(cs) + 1] = r
  OBVIOUS
<1>2. QED
  BY <1>1

\* The calls after one has ended.
LEMMA FinishFacts ==
    ASSUME Inv, NEW c \in CallId
    PROVE  /\ Finish(c) \in Seq(CallRecord) /\ DOMAIN Finish(c) = CallId
           /\ Len(Finish(c)) = Len(calls)
           /\ Finish(c)[c].op = calls[c].op /\ Finish(c)[c].reply = calls[c].reply
           /\ Finish(c)[c].at = "done"
           /\ \A d \in CallId : d # c => Finish(c)[d] = calls[d]
<1>1. Finish(c) \in Seq(CallRecord) /\ DOMAIN Finish(c) = CallId
  BY FinishSound DEF CallsSound, CallId
<1>2. calls[c] \in CallRecord /\ calls \in Seq(CallRecord)
  BY CallType
<1>3. CallId = 1..Len(calls) /\ Len(calls) \in Nat
  BY CallType
<1>4. Len(Finish(c)) = Len(calls)
  <2> DEFINE f == Finish(c)
  <2>1. f \in Seq(CallRecord) /\ DOMAIN f = 1..Len(calls)
    BY <1>1, <1>3
  <2> HIDE DEF f
  <2>2. DOMAIN f = 1..Len(f) /\ Len(f) \in Nat
    BY <2>1
  <2>3. Len(f) \in 1..Len(calls) \/ Len(f) = 0
    BY <2>1, <2>2
  <2>4. Len(calls) \in 1..Len(f) \/ Len(calls) = 0
    BY <1>3, <2>1, <2>2
  <2>5. QED
    BY <1>3, <2>2, <2>3, <2>4 DEF f
<1>5. Finish(c)[c] = [calls[c] EXCEPT !.at = "done", !.got = {}]
  BY <1>2 DEF Finish, CallId, CallRecord
<1>6. \A d \in CallId : d # c => Finish(c)[d] = calls[d]
  BY DEF Finish, CallId
<1>7. QED
  BY <1>1, <1>2, <1>4, <1>5, <1>6 DEF CallRecord

\* A call ends, and an update may start: the rest is as before.
LEMMA Concluded ==
    ASSUME Inv, CallsOk, NEW c \in CallId, flash \subseteq flash',
           \A d : Chatted(chat, d) => Chatted(chat', d), Outcome(c)',
           \/ calls' = Finish(c)
           \/ \E q \in CallRecord : Stage(q) /\ q.at \in {"fetch", "thrown"}
                                    /\ calls' = Append(Finish(c), q)
    PROVE  CallsOk'
<1>1. /\ CallId \subseteq DOMAIN calls'
      /\ \A d \in CallId : d # c => calls'[d] = calls[d]
      /\ calls'[c].op = calls[c].op /\ calls'[c].at = "done"
      /\ \A d \in DOMAIN calls' \ CallId :
           Stage(calls'[d]) /\ calls'[d].at \in {"fetch", "thrown"}
  <2>1. CASE calls' = Finish(c)
    BY <2>1, FinishFacts
  <2>2. ASSUME NEW q \in CallRecord, Stage(q), q.at \in {"fetch", "thrown"},
               calls' = Append(Finish(c), q)
        PROVE  /\ CallId \subseteq DOMAIN calls'
               /\ \A d \in CallId : d # c => calls'[d] = calls[d]
               /\ calls'[c].op = calls[c].op /\ calls'[c].at = "done"
               /\ \A d \in DOMAIN calls' \ CallId :
                    Stage(calls'[d]) /\ calls'[d].at \in {"fetch", "thrown"}
    <3> DEFINE f == Finish(c)
    <3>1. /\ f \in Seq(CallRecord) /\ DOMAIN f = CallId
          /\ f[c].op = calls[c].op /\ f[c].at = "done"
          /\ \A d \in CallId : d # c => f[d] = calls[d]
      BY FinishFacts
    <3>2. calls' = Append(f, q)
      BY <2>2
    <3> HIDE DEF f
    <3>3. /\ DOMAIN calls' = CallId \union {Len(f) + 1}
          /\ calls'[Len(f) + 1] = q
          /\ \A d \in CallId : calls'[d] = f[d]
      BY <3>1, <3>2, AppendFacts
    <3>4. QED
      BY <2>2, <3>1, <3>3
  <2>3. QED
    BY <2>1, <2>2
<1>2. Grows
  BY <1>1 DEF Grows
<1>3. ASSUME NEW d \in CallId' PROVE CallOk(d)'
  <2>1. CASE d \in CallId /\ d # c
    BY <1>1, <1>2, <2>1, CallStays DEF CallsOk
  <2>2. CASE d = c
    <3>1. Stage(calls'[c])
      BY <1>1 DEF Stage
    <3>2. QED
      BY <1>1, <2>2, <3>1 DEF CallOk
  <2>3. CASE d \notin CallId
    BY <1>1, <2>3 DEF CallOk, CallId
  <2>4. QED
    BY <2>1, <2>2, <2>3
<1>4. QED
  BY <1>3 DEF CallsOk

\* What is said stays said.
LEMMA Tells ==
    ASSUME NEW c, NEW k, NEW about, Say(c, k, about)
    PROVE  flash \subseteq flash' /\ Told(c, k)'
<1>1. Message(c, k, about) \in flash'
  BY DEF Say
<1>2. Message(c, k, about).call = c /\ Message(c, k, about).kind = k
  BY DEF Message
<1>3. QED
  BY <1>1, <1>2 DEF Say, Told

\* A call that is accepted still is when it has ended.
LEMMA StaysAccepted ==
    ASSUME Inv, NEW c \in CallId,
           \/ calls' = Finish(c)
           \/ \E q \in CallRecord : calls' = Append(Finish(c), q)
    PROVE  Accepted(c)' = Accepted(c) /\ calls'[c].op = calls[c].op
<1>1. CASE calls' = Finish(c)
  BY <1>1, FinishFacts DEF Accepted
<1>2. ASSUME NEW q \in CallRecord, calls' = Append(Finish(c), q)
      PROVE  Accepted(c)' = Accepted(c) /\ calls'[c].op = calls[c].op
  <2> DEFINE f == Finish(c)
  <2>1. /\ f \in Seq(CallRecord) /\ DOMAIN f = CallId
        /\ f[c].op = calls[c].op /\ f[c].reply = calls[c].reply
    BY FinishFacts
  <2>2. calls' = Append(f, q)
    BY <1>2
  <2> HIDE DEF f
  <2>3. calls'[c] = f[c]
    BY <2>1, <2>2, AppendFacts
  <2>4. QED
    BY <2>1, <2>3 DEF Accepted
<1>3. QED
  BY <1>1, <1>2

\* A request that starts is sent or thrown away.
LEMMA RequestStage ==
    ASSUME NEW op \in Op, NEW arg \in Field
    PROVE  /\ Request(op, arg) \in CallRecord
           /\ Request(op, arg).at = (IF endpoint THEN "fetch" ELSE "thrown")
           /\ Request(op, arg).reply = "pending" /\ Request(op, arg).op = op
           /\ Stage(Request(op, arg))
<1>1. Request(op, arg).at = (IF endpoint THEN "fetch" ELSE "thrown")
  BY DEF Request, NewCall
<1>2. QED
  BY <1>1, RequestType DEF Stage

\* A continuation that reports tells the outcome.
LEMMA ReportTells ==
    ASSUME Inv, CallsOk, NEW c \in CallId, Report(c)
    PROVE  CallsOk'
<1>1. calls' = Finish(c) /\ chat' = chat
  BY DEF Report
<1>2. Accepted(c)' = Accepted(c)
  BY <1>1, StaysAccepted
<1>3. flash \subseteq flash' /\ (IF Accepted(c) THEN Told(c, "success")' ELSE Told(c, "error")')
  BY Tells DEF Report
<1>4. Outcome(c)'
  BY <1>2, <1>3 DEF Outcome
<1>5. QED
  BY <1>1, <1>3, <1>4, Concluded

\* A continuation that shows an error has told the outcome.
LEMMA ErrorTells ==
    ASSUME Inv, CallsOk, NEW c \in CallId, NEW about, calls' = Finish(c),
           Say(c, "error", about), chat' = chat
    PROVE  CallsOk'
<1>1. flash \subseteq flash' /\ Told(c, "error")'
  BY Tells
<1>2. Outcome(c)'
  BY <1>1 DEF Outcome
<1>3. QED
  BY <1>1, <1>2, Concluded

\* So has an edit, by its update when it says nothing itself.
LEMMA EditTells ==
    ASSUME Inv, CallsOk, NEW c \in CallId, NEW op \in Updates, NEW says \in BOOLEAN,
           EditDone(c, op, says), says \/ (calls[c].op = "add" /\ op = "catalog")
    PROVE  CallsOk'
<1>1. CASE ~Accepted(c)
  BY <1>1, ErrorTells DEF EditDone
<1>2. CASE Accepted(c)
  <2>1. chat' = chat /\ op \in Op /\ Empty \in Field
    BY DEF EditDone, Updates, Op, Field
  <2> DEFINE q == Request(op, Empty)
             f == Finish(c)
  <2>2. /\ q \in CallRecord /\ Stage(q) /\ q.at \in {"fetch", "thrown"}
        /\ q.op = op
    BY <2>1, RequestStage
  <2>3. calls' = Append(Finish(c), q)
    BY <1>2 DEF EditDone
  <2>4. /\ f \in Seq(CallRecord) /\ DOMAIN f = CallId
    BY FinishFacts
  <2>5. calls' = Append(f, q)
    BY <2>3
  <2> HIDE DEF q
  <2>6. Accepted(c)' /\ calls'[c].op = calls[c].op
    BY <1>2, <2>2, <2>3, StaysAccepted
  <2>7. CASE says
    <3>1. flash \subseteq flash' /\ Told(c, "success")'
      BY <1>2, <2>7, Tells DEF EditDone
    <3>2. Outcome(c)'
      BY <2>6, <3>1 DEF Outcome
    <3>3. QED
      BY <2>1, <2>2, <2>3, <3>1, <3>2, Concluded
  <2>8. CASE calls[c].op = "add" /\ op = "catalog"
    <3>1. flash \subseteq flash'
      BY <1>2, Tells DEF EditDone
    <3> HIDE DEF f
    <3>2. /\ Len(f) + 1 \in DOMAIN calls' /\ calls'[Len(f) + 1] = q
          /\ Len(f) + 1 > c
      BY <2>2, <2>4, <2>5, AppendFacts
    <3>3. Updated(c)'
      BY <2>2, <2>6, <2>8, <3>2 DEF Updated, CallId
    <3>4. Outcome(c)'
      BY <2>6, <3>3 DEF Outcome
    <3>5. QED
      BY <2>1, <2>2, <2>3, <3>1, <3>4, Concluded
  <2>9. QED
    BY <2>7, <2>8
<1>3. QED
  BY <1>1, <1>2

\* A call moves on to a stage it has the reports for.
LEMMA MovesOn ==
    ASSUME Inv, CallsOk, NEW c \in CallId, NEW r \in CallRecord,
           calls' = [calls EXCEPT ![c] = r], r.op = calls[c].op, Stage(r),
           r.at # "done", flash \subseteq flash', chat' = chat,
           r.at \in {"graph", "render"} => Told(c, "error")' \/ Told(c, "success")'
    PROVE  CallsOk'
<1>1. /\ DOMAIN calls' = CallId /\ calls'[c] = r
      /\ \A d \in CallId : d # c => calls'[d] = calls[d]
  BY DEF CallId
<1>2. Grows
  BY <1>1 DEF Grows
<1>3. ASSUME NEW d \in CallId PROVE CallOk(d)'
  <2>1. CASE d = c
    BY <1>1, <2>1 DEF CallOk
  <2>2. CASE d # c
    BY <1>1, <1>2, <2>2, CallStays DEF CallsOk
  <2>3. QED
    BY <2>1, <2>2
<1>4. QED
  BY <1>1, <1>3 DEF CallsOk, CallId

\* The table reports, the graph only when there is none, and what is drawn was
\* accepted and has been reported with the table.
LEMMA RoutingTells ==
    ASSUME Inv, CallsOk, NEW c \in CallId,
           UpdateTable(c) \/ UpdateGraph(c) \/ Rendered(c) \/ RenderFails(c)
    PROVE  CallsOk'
<1>1. calls[c] \in CallRecord /\ CallOk(c)
  BY CallType DEF CallsOk
<1>2. CASE UpdateTable(c)
  <2> DEFINE r == [calls[c] EXCEPT !.at = "graph", !.reply = "pending", !.got = {}]
  <2>1. r \in CallRecord /\ r.op = calls[c].op /\ r.at = "graph" /\ Stage(r)
    BY <1>1 DEF CallRecord, Stage
  <2>2. calls' = [calls EXCEPT ![c] = r] /\ chat' = chat
    BY <1>1, <1>2 DEF UpdateTable, CallRecord, CallId
  <2>3. flash \subseteq flash' /\ (Told(c, "error")' \/ Told(c, "success")')
    <3>1. PICK k \in {"success", "error"} : Say(c, k, Empty)
      BY <1>2 DEF UpdateTable
    <3>2. flash \subseteq flash' /\ Told(c, k)'
      BY <3>1, Tells
    <3>3. QED
      BY <3>1, <3>2
  <2> HIDE DEF r
  <2>4. QED
    BY <2>1, <2>2, <2>3, MovesOn
<1>3. CASE UpdateGraph(c) /\ Accepted(c)
  <2> DEFINE r == [calls[c] EXCEPT !.at = "render"]
  <2>1. r \in CallRecord /\ r.op = calls[c].op /\ r.at = "render" /\ Stage(r)
    BY <1>1, <1>3 DEF CallRecord, Stage, Accepted
  <2>2. calls' = [calls EXCEPT ![c] = r] /\ chat' = chat /\ flash' = flash
    BY <1>1, <1>3 DEF UpdateGraph, CallRecord, CallId
  <2>3. Told(c, "error")' \/ Told(c, "success")'
    BY <1>1, <1>3, <2>2 DEF UpdateGraph, Answered, CallOk, Told
  <2> HIDE DEF r
  <2>4. QED
    BY <2>1, <2>2, <2>3, MovesOn
<1>4. CASE UpdateGraph(c) /\ ~Accepted(c)
  BY <1>4, ErrorTells DEF UpdateGraph
<1>5. CASE Rendered(c)
  <2>1. calls' = Finish(c) /\ flash' = flash /\ chat' = chat
    BY <1>5 DEF Rendered
  <2>2. Accepted(c)' = Accepted(c)
    BY <2>1, StaysAccepted
  <2>3. Accepted(c) /\ (Told(c, "error")' \/ Told(c, "success")')
    BY <1>1, <1>5, <2>1 DEF Rendered, Answered, CallOk, Stage, Accepted, Told
  <2>4. Outcome(c)'
    BY <2>2, <2>3 DEF Outcome
  <2>5. QED
    BY <2>1, <2>4, Concluded
<1>6. CASE RenderFails(c)
  BY <1>6, ErrorTells DEF RenderFails
<1>7. QED
  BY <1>2, <1>3, <1>4, <1>5, <1>6

\* Every continuation tells the outcome of its call.
LEMMA ContinuationTells ==
    ASSUME Inv, CallsOk, NEW c \in CallId, Continuation(c)
    PROVE  CallsOk'
<1>1. CASE \/ ChatSent(c) \/ PrivateSent(c) \/ Downloaded(c) \/ Tagged(c)
           \/ Uploaded(c) \/ SearchAllDone(c) \/ SearchFirstDone(c) \/ Resolved(c)
  BY <1>1, ReportTells DEF ChatSent, PrivateSent, Downloaded, Tagged, Uploaded,
     SearchAllDone, SearchFirstDone, SearchDone, Resolved
<1>2. CASE PeerAdded(c) \/ EntrySet(c)
  BY <1>2, EditTells DEF PeerAdded, EntrySet, Updates
<1>3. CASE Added(c)
  <2>1. EditDone(c, "catalog", FALSE) /\ calls[c].op = "add"
    BY <1>3 DEF Added, Answered
  <2>2. QED
    BY <2>1, EditTells DEF Updates
<1>4. CASE UpdateTable(c) \/ UpdateGraph(c) \/ Rendered(c) \/ RenderFails(c)
  BY <1>4, RoutingTells
<1>5. CASE UnicastSent(c)
  <2>1. calls' = Finish(c)
    BY <1>5 DEF UnicastSent
  <2>2. CASE flash' = flash /\ Accepted(c)
             /\ chat' = Append(chat, [call |-> c, side |-> "sent"])
    <3>1. Accepted(c)'
      BY <2>1, <2>2, StaysAccepted
    <3>2. (\A d : Chatted(chat, d) => Chatted(chat', d)) /\ Chatted(chat', c)
      BY <2>2, ChatGrows
    <3>3. Outcome(c)'
      BY <3>1, <3>2 DEF Outcome
    <3>4. QED
      BY <2>1, <2>2, <3>2, <3>3, Concluded
  <2>3. CASE Say(c, "error", calls[c].arg) /\ chat' = chat
    BY <2>1, <2>3, ErrorTells
  <2>4. QED
    BY <1>5, <2>2, <2>3 DEF UnicastSent
<1>6. CASE CatalogShown(c) \/ ChainShown(c)
  <2>1. calls' = Finish(c) /\ chat' = chat
    BY <1>6 DEF CatalogShown, ChainShown
  <2>2. \E about : \/ Say(c, "error", about)
                   \/ Accepted(c) /\ Say(c, "success", about)
    BY <1>6 DEF CatalogShown, ChainShown
  <2>3. CASE \E about : Say(c, "error", about)
    BY <2>1, <2>3, ErrorTells
  <2>4. ASSUME Accepted(c), NEW about, Say(c, "success", about) PROVE CallsOk'
    <3>1. flash \subseteq flash' /\ Told(c, "success")'
      BY <2>4, Tells
    <3>2. Accepted(c)'
      BY <2>1, <2>4, StaysAccepted
    <3>3. Outcome(c)'
      BY <3>1, <3>2 DEF Outcome
    <3>4. QED
      BY <2>1, <3>1, <3>3, Concluded
  <2>5. QED
    BY <2>2, <2>3, <2>4
<1>7. QED
  BY <1>1, <1>2, <1>3, <1>4, <1>5, <1>6 DEF Continuation

\* The network and the reading of a file end no call.
LEMMA WaitingTells ==
    ASSUME Inv, CallsOk, NEW c \in CallId, Serve(c) \/ Break(c) \/ FileRead(c)
    PROVE  CallsOk'
<1>1. calls[c] \in CallRecord /\ CallOk(c)
  BY CallType DEF CallsOk
<1>2. flash' = flash /\ chat' = chat
  BY DEF Serve, Break, FileRead, FileLoaded, FileUnreadable, Reading
<1>3. ASSUME NEW reply \in {"ok", "failed"}, NEW got \in SUBSET Nat, Waiting(c),
             calls' = [calls EXCEPT ![c].reply = reply, ![c].got = got]
      PROVE  CallsOk'
  <2> DEFINE r == [calls[c] EXCEPT !.reply = reply, !.got = got]
  <2>1. r \in CallRecord /\ r.op = calls[c].op /\ r.at = calls[c].at
    BY <1>1 DEF CallRecord
  <2>2. calls' = [calls EXCEPT ![c] = r]
    BY <1>1, <1>3 DEF CallRecord, CallId
  <2> HIDE DEF r
  <2>3. Stage(r) /\ r.at # "done"
    BY <1>3, <2>1 DEF Waiting, Stage
  <2>4. r.at \in {"graph", "render"} => Told(c, "error")' \/ Told(c, "success")'
    BY <1>1, <1>2, <2>1 DEF CallOk, Told
  <2>5. QED
    BY <1>2, <2>1, <2>2, <2>3, <2>4, MovesOn
<1>4. CASE Serve(c)
  <2>1. Snapshot(calls[c].op) \subseteq Nat
    <3>1. handled \subseteq [call : DOMAIN calls, arg : Field] /\ DOMAIN calls \subseteq Nat
      BY CallType DEF Inv, CallsSound, CallId
    <3>2. QED
      BY <3>1 DEF Snapshot
  <2>2. QED
    BY <1>3, <1>4, <2>1 DEF Serve
<1>5. CASE Break(c)
  <2>1. calls[c].got \in SUBSET Nat
    BY <1>1 DEF CallRecord
  <2>2. calls' = [calls EXCEPT ![c].reply = "failed", ![c].got = calls[c].got]
    BY <1>1, <1>5 DEF Break, CallRecord, CallId
  <2>3. QED
    BY <1>3, <1>5, <2>1, <2>2 DEF Break
<1>6. CASE FileRead(c)
  <2>1. PICK at \in {"fetch", "unread"} : calls' = [calls EXCEPT ![c].at = at]
    BY <1>6 DEF FileRead, FileLoaded, FileUnreadable
  <2> DEFINE r == [calls[c] EXCEPT !.at = at]
  <2>2. r \in CallRecord /\ r.op = calls[c].op /\ r.at = at /\ r.reply = calls[c].reply
    BY <1>1 DEF CallRecord
  <2>3. calls' = [calls EXCEPT ![c] = r]
    BY <1>1, <2>1 DEF CallRecord, CallId
  <2>4. calls[c].at = "read"
    BY <1>6 DEF FileRead, FileLoaded, FileUnreadable, Reading
  <2> HIDE DEF r
  <2>5. Stage(r) /\ r.at # "done" /\ r.at \notin {"graph", "render"}
    BY <1>1, <2>1, <2>2, <2>4 DEF CallOk, Stage
  <2>6. QED
    BY <1>2, <2>2, <2>3, <2>5, MovesOn
<1>7. QED
  BY <1>4, <1>5, <1>6

\* A step that leaves the calls alone takes no trace away.
LEMMA SameCallsTell ==
    ASSUME Inv, CallsOk, calls' = calls, flash \subseteq flash',
           \A d : Chatted(chat, d) => Chatted(chat', d)
    PROVE  CallsOk'
<1>1. Grows
  BY DEF Grows, CallId
<1>2. \A d \in CallId : CallOk(d)'
  BY <1>1, CallStays DEF CallsOk
<1>3. QED
  BY <1>2 DEF CallsOk, CallId

\* What a click or the start of the page begins: a request, the reading of a file,
\* or nothing, and then an error is shown.  A search that begins says so.
Number == Len(calls) + 1

Begun(r) ==
    /\ r \in CallRecord
    /\ calls' = Append(calls, r)
    /\ \/ /\ r.at = IF endpoint THEN "fetch" ELSE "thrown"
          /\ r.reply = "pending"
          /\ flash' = flash \/ Say(Number, "error", form)
       \/ r.op = "upload" /\ r.at = "read" /\ r.reply = "pending" /\ flash' = flash
       \/ r.at = "done" /\ r.reply = "none" /\ Say(Number, "error", form)
    /\ panel' = IF r.op \in Searches /\ r.at # "done"
                THEN [panel EXCEPT ![r.op] = Text("searching", Number)] ELSE panel
    /\ UNCHANGED <<page, endpoint, handled, shown, chat>>

\* A call that begins and is over has been reported.
LEMMA BegunTells == ASSUME Inv, CallsOk, NEW r, Begun(r) PROVE CallsOk'
<1>1. calls \in Seq(CallRecord) /\ CallId = DOMAIN calls
  BY DEF Inv, CallsSound, CallId
<1>2. r \in CallRecord /\ calls' = Append(calls, r) /\ chat' = chat
  BY DEF Begun
<1>3. /\ DOMAIN calls' = CallId \union {Number} /\ calls'[Number] = r
      /\ \A d \in CallId : calls'[d] = calls[d]
  BY <1>1, <1>2, AppendFacts DEF Number
<1>4. flash \subseteq flash'
  BY Tells DEF Begun
<1>5. Grows
  BY <1>2, <1>3, <1>4 DEF Grows
<1>6. PICK n : n = Number
  OBVIOUS
<1>7. CallOk(n)'
  <2>1. Stage(r) /\ r.at \notin {"graph", "render"}
    BY DEF Begun, Stage
  <2>2. r.at = "done" => Say(n, "error", form)
    BY <1>6 DEF Begun
  <2>3. r.at = "done" => Told(n, "error")'
    BY <2>2, Tells
  <2>4. calls'[n] = r
    BY <1>3, <1>6
  <2>5. QED
    BY <2>1, <2>3, <2>4 DEF CallOk, Outcome
<1>8. \A d \in CallId : CallOk(d)'
  BY <1>3, <1>5, CallStays DEF CallsOk
<1>9. QED
  BY <1>3, <1>6, <1>7, <1>8 DEF CallsOk, CallId

\* A request is a beginning.
LEMMA RequestBegins ==
    ASSUME NEW op \in Op, NEW arg \in Field,
           calls' = Append(calls, Request(op, arg)),
           flash' = flash \/ Say(Number, "error", form),
           panel' = IF op \in Searches
                    THEN [panel EXCEPT ![op] = Text("searching", Number)] ELSE panel,
           UNCHANGED <<page, endpoint, handled, shown, chat>>
    PROVE  \E r : Begun(r)
<1> DEFINE r == Request(op, arg)
<1>1. /\ r \in CallRecord /\ r.reply = "pending" /\ r.op = op
      /\ r.at = (IF endpoint THEN "fetch" ELSE "thrown")
  BY RequestStage
<1>2. calls' = Append(calls, r)
  OBVIOUS
<1> HIDE DEF r
<1>3. r.at # "done"
  BY <1>1
<1>4. Begun(r)
  BY <1>1, <1>2, <1>3 DEF Begun
<1>5. QED
  BY <1>4

\* So is a rejected click.
LEMMA RejectBegins ==
    ASSUME NEW op \in Op, form \in Field, Reject(op), panel' = panel,
           UNCHANGED <<page, endpoint, handled, shown, chat>>
    PROVE  \E r : Begun(r)
<1> DEFINE n == NewCall(op, form, "done")
           r == [n EXCEPT !.reply = "none"]
<1>1. n \in CallRecord /\ n.at = "done"
  BY NewCallType DEF NewCall
<1>2. r \in CallRecord /\ r.reply = "none" /\ r.at = "done"
  BY <1>1 DEF CallRecord
<1>3. calls' = Append(calls, r) /\ Say(Number, "error", form)
  BY DEF Reject, Number
<1> HIDE DEF r
<1>4. Begun(r)
  BY <1>2, <1>3 DEF Begun
<1>5. QED
  BY <1>4

\* So is a click whose inputs are checked.
LEMMA CheckBegins ==
    ASSUME NEW op \in Op, form \in Field, NEW required \in BOOLEAN, NEW filled \in BOOLEAN,
           CheckInputs(op, required, filled),
           panel' = IF op \in Searches /\ filled /\ (required => form # Empty)
                    THEN [panel EXCEPT ![op] = Text("searching", Number)] ELSE panel,
           UNCHANGED <<page, endpoint, handled, shown, chat>>
    PROVE  \E r : Begun(r)
<1>1. CASE filled /\ (required => form # Empty)
  BY <1>1, RequestBegins DEF CheckInputs
<1>2. CASE ~(filled /\ (required => form # Empty))
  BY <1>2, RejectBegins DEF CheckInputs
<1>3. QED
  BY <1>1, <1>2

Requesting == {"unicast", "routing", "broadcast", "catalog", "dataSharing",
               "search", "naming", "blockchain"}

\* A click is on a controller that makes requests.
LEMMA ClickBegins ==
    ASSUME Inv, UserClicks
    PROVE  (\E r : Begun(r)) /\ \E ctl \in Requesting : Click(ctl)
<1>0. /\ form \in Field /\ Empty \in Field /\ Updates \subseteq Op
      /\ Updates \intersect Searches = {} /\ Searches \subseteq Op
      /\ \A op \in {"send", "addPeer", "setEntry", "sendChat", "sendPrivate", "add",
                    "upload", "download", "resolve", "tag", "get"} :
           op \in Op /\ op \notin Searches
  BY DEF Inv, PageOk, Searches, Op, Updates, Field
<1>1. \A ctl : Click(ctl) => UNCHANGED <<page, endpoint, handled, shown, chat>>
  BY DEF Click
<1>2. CASE RoutingUpdate \/ CatalogUpdate
  BY <1>0, <1>1, <1>2, RequestBegins
     DEF RoutingUpdate, CatalogUpdate, Updates, Requesting
<1>3. CASE UnicastSend \/ SendChat \/ SendPrivate
  BY <1>0, <1>1, <1>3, CheckBegins DEF UnicastSend, SendChat, SendPrivate, Requesting
<1>4. CASE AddPeer \/ SetEntry \/ CatalogAdd
  BY <1>0, <1>1, <1>4, CheckBegins DEF AddPeer, SetEntry, CatalogAdd, Requesting
<1>5. CASE Download \/ Tag \/ BlockchainGet
  BY <1>0, <1>1, <1>5, CheckBegins DEF Download, Tag, BlockchainGet, Requesting
<1>6. CASE Resolve
  BY <1>0, <1>1, <1>6, RequestBegins DEF Resolve, Requesting, Number
<1>7. CASE Upload
  <2>0. Click("dataSharing") /\ "dataSharing" \in Requesting /\ panel' = panel
    BY <1>7 DEF Upload, Requesting
  <2>1. CASE form = Empty
    BY <1>0, <1>1, <1>7, <2>0, <2>1, RejectBegins DEF Upload
  <2>2. CASE form # Empty
    <3> DEFINE r == NewCall("upload", form, "read")
    <3>1. r \in CallRecord /\ r.reply = "pending" /\ r.op = "upload" /\ r.at = "read"
      BY <1>0, NewCallType DEF NewCall
    <3>2. calls' = Append(calls, r) /\ flash' = flash
      BY <1>7, <2>2 DEF Upload
    <3> HIDE DEF r
    <3>3. Begun(r)
      BY <1>0, <1>1, <2>0, <3>1, <3>2 DEF Begun
    <3>4. QED
      BY <2>0, <3>3
  <2>3. QED
    BY <2>1, <2>2
<1>8. ASSUME NEW op \in Searches, Search(op)
      PROVE  (\E r : Begun(r)) /\ \E ctl \in Requesting : Click(ctl)
  <2>1. Click("search") /\ "search" \in Requesting /\ op \in Op
    BY <1>0, <1>8 DEF Search, Requesting
  <2>2. PICK filled \in BOOLEAN :
          /\ CheckInputs(op, TRUE, filled)
          /\ panel' = IF filled /\ form # Empty
                      THEN [panel EXCEPT ![op] = Text("searching", Number)] ELSE panel
    BY <1>8 DEF Search, Number
  <2>3. QED
    BY <1>0, <1>1, <1>8, <2>1, <2>2, CheckBegins
<1>9. CASE SearchAll \/ SearchFirst
  BY <1>8, <1>9 DEF SearchAll, SearchFirst, Searches
<1>10. QED
  BY <1>2, <1>3, <1>4, <1>5, <1>6, <1>7, <1>9 DEF UserClicks

\* So does the start of the page, unless it makes no call.
LEMMA StartBegins ==
    ASSUME Inv, Initialize
    PROVE  \/ (\E r : Begun(r)) /\ page[booted + 1] \in Updates
           \/ /\ calls' = calls
              /\ endpoint' = (endpoint \/ page[booted + 1] = "peerInfo")
<1>0. UNCHANGED <<page, handled, flash, shown, panel, chat>>
  BY DEF Initialize
<1>1. CASE page[booted + 1] \in Updates
  <2>1. PICK op \in Updates : calls' = Append(calls, Request(op, Empty)) /\ endpoint' = endpoint
    BY <1>1 DEF Initialize, RoutingInitialize, CatalogInitialize, Updates
  <2>2. op \in Op /\ op \notin Searches /\ Empty \in Field
    BY DEF Updates, Op, Searches, Field
  <2>3. \E r : Begun(r)
    BY <1>0, <2>1, <2>2, RequestBegins
  <2>4. QED
    BY <1>1, <2>3
<1>2. CASE page[booted + 1] = "peerInfo"
  BY <1>2 DEF Initialize, PeerInfoInitialize, Inv, PageOk
<1>3. CASE page[booted + 1] \notin Updates \union {"peerInfo"}
  BY <1>3 DEF Initialize, Updates, Inv, PageOk
<1>4. QED
  BY <1>1, <1>2, <1>3

\* Every step keeps the traces of the calls.
LEMMA CallsNext == ASSUME Inv, CallsOk, [Next]_vars PROVE CallsOk'
<1>1. CASE UserClicks
  BY <1>1, ClickBegins, BegunTells
<1>2. CASE Initialize
  <2>1. CASE \E r : Begun(r)
    BY <2>1, BegunTells
  <2>2. CASE calls' = calls
    BY <1>2, <2>2, SameCallsTell DEF Initialize
  <2>3. QED
    BY <1>2, <2>1, <2>2, StartBegins
<1>3. CASE \E c \in CallId : Progress(c)
  BY <1>3, WaitingTells, ContinuationTells DEF Progress
<1>4. ASSUME NEW c \in CallId, FileProgress(c) PROVE CallsOk'
  <2>1. calls' = calls /\ chat' = chat /\ Say(c, "progress", calls[c].arg)
    BY <1>4 DEF FileProgress, Reading
  <2>2. QED
    BY <2>1, Tells, SameCallsTell
<1>5. CASE SocketAddress \/ Type
  BY <1>5, SameCallsTell DEF SocketAddress, Type
<1>6. CASE SocketAddressFails \/ PacketError
  <2>1. calls' = calls /\ chat' = chat /\ Say(0, "error", Empty)
    BY <1>6 DEF SocketAddressFails, PacketError
  <2>2. QED
    BY <2>1, Tells, SameCallsTell
<1>7. ASSUME NEW isChat \in BOOLEAN, NEW own \in BOOLEAN, PacketMessage(isChat, own)
      PROVE  CallsOk'
  <2>1. calls' = calls /\ flash' = flash
    BY <1>7 DEF PacketMessage
  <2>2. \/ chat' = chat
        \/ \E side \in {"sent", "received"} :
             chat' = Append(chat, [call |-> 0, side |-> side])
    BY <1>7 DEF PacketMessage
  <2>3. \A d : Chatted(chat, d) => Chatted(chat', d)
    <3>1. CASE chat' = chat
      BY <3>1
    <3>2. ASSUME NEW side \in {"sent", "received"},
                 chat' = Append(chat, [call |-> 0, side |-> side])
          PROVE  \A d : Chatted(chat, d) => Chatted(chat', d)
      BY <3>2, ChatGrows
    <3>3. QED
      BY <2>2, <3>1, <3>2
  <2>4. QED
    BY <2>1, <2>3, SameCallsTell
<1>8. CASE UNCHANGED vars
  BY <1>8, SameCallsTell DEF vars
<1>9. QED
  BY <1>1, <1>2, <1>3, <1>4, <1>5, <1>6, <1>7, <1>8 DEF Next

\* The stages and the traces hold in every state.
LEMMA CallsOkAlways == Spec => []CallsOk
<1>1. Init => CallsOk
  BY DEF Init, CallsOk, CallId
<1>2. Inv /\ CallsOk /\ [Next]_vars => CallsOk'
  BY CallsNext
<1>3. QED
  BY <1>1, <1>2, InvAlways, PTL DEF Spec

\* No call ends in silence, for any pages, inputs and bounds: a failure is told,
\* and what was accepted is told, chatted or followed by its update.
THEOREM OutcomeAlways == Spec => []OutcomeReported
<1>1. CallsOk => OutcomeReported
  BY DEF CallsOk, CallOk, Outcome, OutcomeReported, Chatted, Updated
<1>2. QED
  BY <1>1, CallsOkAlways, PTL

----------------------------------------------------------------------------
(* How the calls change: at most one moves on, and an update may start.    *)

Shape(c) ==
    /\ calls[c].at \in {"fetch", "graph", "render"}
    /\ CallId \subseteq DOMAIN calls'
    /\ \A d \in CallId : calls'[d].op = calls[d].op
    /\ \A d \in CallId : d # c => calls'[d] = calls[d]
    /\ calls'[c].at \in {"done", "graph", "render"}
    /\ calls'[c].at # "done" => calls[c].op = "routing"
    /\ calls'[c].at # "done" /\ calls'[c].reply = "ok" =>
           calls[c].reply = "ok" /\ calls'[c].got = calls[c].got
    /\ \A d \in DOMAIN calls' : d \notin CallId =>
           /\ calls'[d].at = IF endpoint THEN "fetch" ELSE "thrown"
           /\ calls'[d].reply = "pending"
           /\ calls'[d].op \in Updates

\* A call that ends, and the update it may start.
LEMMA FinishShape ==
    ASSUME Inv, NEW c \in CallId, calls[c].at \in {"fetch", "graph", "render"},
           \/ calls' = Finish(c)
           \/ \E op \in Updates : calls' = Append(Finish(c), Request(op, Empty))
    PROVE  Shape(c)
<1>1. CASE calls' = Finish(c)
  BY <1>1, FinishFacts DEF Shape
<1>2. ASSUME NEW op \in Updates, calls' = Append(Finish(c), Request(op, Empty))
      PROVE  Shape(c)
  <2> DEFINE f == Finish(c)
             q == Request(op, Empty)
  <2>1. /\ f \in Seq(CallRecord) /\ DOMAIN f = CallId
        /\ f[c].op = calls[c].op /\ f[c].at = "done"
        /\ \A d \in CallId : d # c => f[d] = calls[d]
    BY FinishFacts
  <2>2. op \in Op /\ Empty \in Field
    BY DEF Updates, Op, Field
  <2>3. /\ q \in CallRecord /\ q.reply = "pending" /\ q.op = op
        /\ q.at = (IF endpoint THEN "fetch" ELSE "thrown")
    BY <2>2, RequestStage
  <2>4. calls' = Append(f, q)
    BY <1>2
  <2> HIDE DEF f, q
  <2>5. /\ DOMAIN calls' = CallId \union {Len(f) + 1} /\ calls'[Len(f) + 1] = q
        /\ \A d \in CallId : calls'[d] = f[d]
    BY <2>1, <2>3, <2>4, AppendFacts
  <2>6. QED
    BY <2>1, <2>3, <2>5 DEF Shape
<1>3. QED
  BY <1>1, <1>2

\* Every continuation moves its own call.
LEMMA ContinuationShape ==
    ASSUME Inv, NEW c \in CallId, Continuation(c)
    PROVE  Shape(c)
<1>1. calls[c].at \in {"fetch", "graph", "render"}
  BY DEF Continuation, UnicastSent, ChatSent, PrivateSent, UpdateTable, UpdateGraph,
         Rendered, RenderFails, PeerAdded, EntrySet, CatalogShown, Added, Uploaded,
         Downloaded, SearchAllDone, SearchFirstDone, SearchDone, Resolved, Tagged,
         ChainShown, Answered
<1>2. CASE UpdateTable(c)
  <2>1. calls[c] \in CallRecord
    BY CallType
  <2>2. /\ DOMAIN calls' = CallId /\ calls'[c].at = "graph" /\ calls'[c].reply = "pending"
        /\ calls'[c].op = calls[c].op /\ \A d \in CallId : d # c => calls'[d] = calls[d]
        /\ calls[c].op = "routing"
    BY <1>2, <2>1 DEF UpdateTable, Answered, CallId, CallRecord
  <2>3. QED
    BY <1>1, <2>2 DEF Shape
<1>3. CASE UpdateGraph(c) /\ Accepted(c)
  <2>1. calls[c] \in CallRecord
    BY CallType
  <2>2. /\ DOMAIN calls' = CallId /\ calls'[c].at = "render"
        /\ calls'[c].reply = calls[c].reply /\ calls'[c].got = calls[c].got
        /\ calls'[c].op = calls[c].op /\ \A d \in CallId : d # c => calls'[d] = calls[d]
        /\ calls[c].op = "routing"
    BY <1>3, <2>1 DEF UpdateGraph, Answered, CallId, CallRecord
  <2>3. QED
    BY <1>1, <2>2 DEF Shape
<1>4. CASE UpdateGraph(c) /\ ~Accepted(c)
  BY <1>1, <1>4, FinishShape DEF UpdateGraph
<1>5. CASE PeerAdded(c) \/ EntrySet(c) \/ Added(c)
  <2>1. \/ calls' = Finish(c)
        \/ \E op \in Updates : calls' = Append(Finish(c), Request(op, Empty))
    BY <1>5 DEF PeerAdded, EntrySet, Added, EditDone, Updates
  <2>2. QED
    BY <1>1, <2>1, FinishShape
<1>6. CASE \/ UnicastSent(c) \/ ChatSent(c) \/ PrivateSent(c) \/ Rendered(c)
           \/ RenderFails(c) \/ CatalogShown(c) \/ Uploaded(c) \/ Downloaded(c)
           \/ SearchAllDone(c) \/ SearchFirstDone(c) \/ Resolved(c) \/ Tagged(c)
           \/ ChainShown(c)
  <2>1. calls' = Finish(c)
    BY <1>6 DEF UnicastSent, ChatSent, PrivateSent, Rendered, RenderFails, CatalogShown,
                Uploaded, Downloaded, SearchAllDone, SearchFirstDone, SearchDone,
                Resolved, Tagged, ChainShown, Report
  <2>2. QED
    BY <1>1, <2>1, FinishShape
<1>7. QED
  BY SMTT(60), <1>2, <1>3, <1>4, <1>5, <1>6 DEF Continuation

\* While a call waits for the network, or reads its file, it does not end.
LEMMA WaitingShape ==
    ASSUME Inv, NEW c \in CallId, Serve(c) \/ Break(c) \/ FileRead(c)
    PROVE  /\ calls[c].at # "done" /\ calls'[c].at \notin {"done", "thrown"}
           /\ calls'[c].at \in {"graph", "render"} => calls'[c].at = calls[c].at
           /\ DOMAIN calls' = CallId /\ calls'[c].op = calls[c].op
           /\ \A d \in CallId : d # c => calls'[d] = calls[d]
<1>1. calls[c] \in CallRecord
  BY CallType
<1>2. CASE Serve(c)
  BY <1>1, <1>2 DEF Serve, Waiting, CallId, CallRecord
<1>3. CASE Break(c)
  BY <1>1, <1>3 DEF Break, Waiting, CallId, CallRecord
<1>4. CASE FileRead(c)
  BY <1>1, <1>4 DEF FileRead, FileLoaded, FileUnreadable, Reading, CallId, CallRecord
<1>5. QED
  BY <1>2, <1>3, <1>4

\* The calls after one begins.
LEMMA BegunShape ==
    ASSUME Inv, NEW r, Begun(r)
    PROVE  /\ Number \in Nat /\ CallId \subseteq Nat /\ Number \notin CallId
           /\ DOMAIN calls' = CallId \union {Number} /\ calls'[Number] = r
           /\ \A d \in CallId : calls'[d] = calls[d] /\ Number > d
<1>1. calls \in Seq(CallRecord) /\ CallId = DOMAIN calls
  BY DEF Inv, CallsSound, CallId
<1>2. r \in CallRecord /\ calls' = Append(calls, r)
  BY DEF Begun
<1>3. /\ Number \in Nat /\ CallId \subseteq Nat
      /\ DOMAIN calls' = CallId \union {Number} /\ calls'[Number] = r
      /\ \A d \in CallId : calls'[d] = calls[d] /\ Number > d
  BY <1>1, <1>2, AppendFacts DEF Number
<1>4. QED
  BY <1>3

----------------------------------------------------------------------------
(* The endpoint.  It is known from the moment peerInfo is initialized, so  *)
(* no request is thrown away on a page where peerInfo precedes every       *)
(* controller that makes requests, as it does in node.html.                *)

PeerInfoFirst ==
    \A p \in Pages : \A i \in DOMAIN p :
        p[i] \in Requesting => \E j \in 1..(i - 1) : p[j] = "peerInfo"

EndpointOk ==
    /\ Has("peerInfo") => endpoint
    /\ \A c \in CallId : endpoint /\ calls[c].at # "thrown"

\* Where a controller that makes requests is initialized, or is about to be, the
\* endpoint is known.
LEMMA EndpointThere ==
    ASSUME PeerInfoFirst, Inv, EndpointOk,
           \/ \E ctl \in Requesting : Has(ctl)
           \/ booted + 1 \in DOMAIN page /\ page[booted + 1] \in Requesting
    PROVE  endpoint
<1>1. page \in Pages /\ page \in Seq(Controller) /\ booted \in 0..Len(page)
  BY WebAssumption DEF Inv, PageOk
<1>2. DOMAIN page = 1..Len(page) /\ Len(page) \in Nat /\ booted \in Nat
  BY <1>1
<1>3. PICK i \in DOMAIN page : i <= booted + 1 /\ page[i] \in Requesting
  BY <1>1, <1>2 DEF Has
<1>4. PICK j \in 1..(i - 1) : page[j] = "peerInfo"
  BY <1>1, <1>3 DEF PeerInfoFirst
<1>5. j \in 1..booted
  BY <1>2, <1>3, <1>4
<1>6. Has("peerInfo")
  BY <1>4, <1>5 DEF Has
<1>7. QED
  BY <1>6 DEF EndpointOk

\* A step on the open page throws nothing away.
LEMMA EndpointStays ==
    ASSUME Inv, EndpointOk, UNCHANGED <<page, booted, endpoint>>,
           \A d \in DOMAIN calls' : endpoint /\ calls'[d].at # "thrown"
    PROVE  EndpointOk'
<1>1. Has("peerInfo")' <=> Has("peerInfo")
  BY DEF Has
<1>2. QED
  BY <1>1 DEF EndpointOk, CallId

\* Every step keeps the endpoint known.
LEMMA EndpointNext == ASSUME PeerInfoFirst, Inv, EndpointOk, [Next]_vars PROVE EndpointOk'
<1>0. /\ \A d \in CallId : endpoint /\ calls[d].at # "thrown"
      /\ CallId = DOMAIN calls
  BY DEF EndpointOk, CallId
<1>1. ASSUME NEW r, Begun(r), endpoint
      PROVE  \A d \in DOMAIN calls' : endpoint /\ calls'[d].at # "thrown"
  <2>1. r.at # "thrown"
    BY <1>1 DEF Begun
  <2>2. QED
    BY <1>0, <1>1, <2>1, BegunShape
<1>2. CASE UserClicks
  <2>1. PICK ctl \in Requesting : Click(ctl)
    BY <1>2, ClickBegins
  <2>2. endpoint /\ UNCHANGED <<page, booted, endpoint>>
    BY <2>1, EndpointThere DEF Click
  <2>3. QED
    BY <1>1, <1>2, <2>2, ClickBegins, EndpointStays
<1>3. CASE Initialize
  <2>1. /\ booted' = booted + 1 /\ page' = page /\ booted \in Nat
        /\ booted + 1 \in DOMAIN page
    <3>1. page \in Seq(Controller) /\ booted \in 0..Len(page) /\ booted # Len(page)
      BY <1>3, WebAssumption DEF Inv, PageOk, Initialize, Ready
    <3>2. QED
      BY <1>3, <3>1 DEF Initialize
  <2>2. Has("peerInfo")' <=> Has("peerInfo") \/ page[booted + 1] = "peerInfo"
    BY <2>1 DEF Has
  <2>3. CASE (\E r : Begun(r)) /\ page[booted + 1] \in Updates
    <3>1. endpoint
      BY <2>1, <2>3, EndpointThere DEF Updates, Requesting
    <3>2. endpoint' = endpoint
      BY <2>3 DEF Begun
    <3>3. QED
      BY <1>1, <2>3, <3>1, <3>2 DEF EndpointOk, CallId
  <2>4. CASE calls' = calls /\ endpoint' = (endpoint \/ page[booted + 1] = "peerInfo")
    BY <1>0, <2>2, <2>4 DEF EndpointOk, CallId
  <2>5. QED
    BY <1>3, <2>3, <2>4, StartBegins
<1>4. ASSUME NEW c \in CallId, Continuation(c) PROVE EndpointOk'
  <2>1. Shape(c)
    BY <1>4, ContinuationShape
  <2>2. UNCHANGED <<page, booted, endpoint>>
    BY <1>4 DEF Continuation, UnicastSent, ChatSent, PrivateSent, UpdateTable, UpdateGraph,
         Rendered, RenderFails, PeerAdded, EntrySet, CatalogShown, Added, Uploaded,
         Downloaded, SearchAllDone, SearchFirstDone, SearchDone, Resolved, Tagged,
         ChainShown, EditDone, Report, Continue
  <2>3. QED
    BY <1>0, <2>1, <2>2, EndpointStays DEF Shape
<1>5. ASSUME NEW c \in CallId, Serve(c) \/ Break(c) \/ FileRead(c) PROVE EndpointOk'
  <2>1. UNCHANGED <<page, booted, endpoint>>
    BY <1>5 DEF Serve, Break, FileRead, FileLoaded, FileUnreadable, Reading, Continue
  <2>2. QED
    BY <1>0, <1>5, <2>1, WaitingShape, EndpointStays
<1>6. CASE \/ SocketAddress \/ SocketAddressFails \/ Type \/ PacketError
           \/ \E isChat, own \in BOOLEAN : PacketMessage(isChat, own)
           \/ \E c \in CallId : FileProgress(c)
           \/ UNCHANGED vars
  <2>1. UNCHANGED <<page, booted, endpoint, calls>>
    BY <1>6 DEF SocketAddress, SocketAddressFails, Type, PacketError, PacketMessage,
                FileProgress, Reading, Continue, vars
  <2>2. QED
    BY <1>0, <2>1, EndpointStays
<1>7. QED
  BY <1>2, <1>3, <1>4, <1>5, <1>6 DEF Next, Progress

\* So it is in every state.
LEMMA EndpointAlways == ASSUME PeerInfoFirst PROVE Spec => []EndpointOk
<1>1. Init => EndpointOk
  BY DEF Init, EndpointOk, CallId, Has
<1>2. Inv /\ EndpointOk /\ [Next]_vars => EndpointOk'
  BY EndpointNext
<1>3. QED
  BY <1>1, <1>2, InvAlways, PTL DEF Spec

\* No request is made before the endpoint is known, for any inputs and bounds and
\* any pages on which peerInfo precedes the controllers that make requests.
THEOREM EndpointKnownAlways == ASSUME PeerInfoFirst PROVE Spec => []EndpointKnown
<1>1. EndpointOk => EndpointKnown
  BY DEF EndpointOk, EndpointKnown
<1>2. QED
  BY <1>1, EndpointAlways, PTL

----------------------------------------------------------------------------
(* The panels.  A panel that says "searching" was written by a search that *)
(* has not succeeded, and the clicks on that search since then were all    *)
(* rejected: a later search would have written the panel over.             *)

PanelOf(r) ==
    /\ panel[r].is = "result" => Told(panel[r].by, "success")
    /\ panel[r].is = "searching" =>
         /\ r \in Searches
         /\ panel[r].by \in CallId
         /\ calls[panel[r].by].op = r
         /\ calls[panel[r].by].at = "done" => Told(panel[r].by, "error")
         /\ \A c \in CallId : c > panel[r].by /\ calls[c].op = r =>
                calls[c].at = "done" /\ ~Told(c, "success")

PanelsOk == \A r \in Results : PanelOf(r)

\* A panel that is not written stays honest when what happens to the calls of its
\* search is told, and no call that has ended is told a success.
LEMMA PanelStays ==
    ASSUME Inv, NEW r \in Results, PanelOf(r), panel'[r] = panel[r],
           flash \subseteq flash', CallId \subseteq DOMAIN calls',
           \A d \in CallId : calls'[d].op = calls[d].op,
           \A d \in CallId : calls[d].at = "done" /\ Told(d, "success")' => Told(d, "success"),
           panel[r].is = "searching" /\ r \in Searches =>
               /\ \A d \in CallId : calls[d].op = r =>
                    \/ calls[d].at = "done" /\ calls'[d] = calls[d]
                    \/ /\ calls[d].at # "done"
                       /\ calls'[d].at = "done" => Told(d, "error")'
               /\ \A d \in DOMAIN calls' : d \notin CallId /\ calls'[d].op = r =>
                    calls'[d].at = "done" /\ ~Told(d, "success")'
    PROVE  PanelOf(r)'
<1>1. PICK b : b = panel[r].by
  OBVIOUS
<1>2. panel'[r].by = b /\ panel'[r].is = panel[r].is
  BY <1>1
<1>3. \A kind : Told(b, kind) => Told(b, kind)'
  BY DEF Told
<1>4. CASE panel[r].is = "result"
  BY <1>1, <1>2, <1>3, <1>4 DEF PanelOf
<1>5. CASE panel[r].is = "searching"
  <2>1. /\ r \in Searches /\ b \in CallId /\ calls[b].op = r
        /\ calls[b].at = "done" => Told(b, "error")
        /\ \A c \in CallId : c > b /\ calls[c].op = r =>
               calls[c].at = "done" /\ ~Told(c, "success")
    BY <1>1, <1>5 DEF PanelOf
  <2>0. /\ \A d \in CallId : calls[d].op = r =>
             \/ calls[d].at = "done" /\ calls'[d] = calls[d]
             \/ /\ calls[d].at # "done"
                /\ calls'[d].at = "done" => Told(d, "error")'
        /\ \A d \in DOMAIN calls' : d \notin CallId /\ calls'[d].op = r =>
             calls'[d].at = "done" /\ ~Told(d, "success")'
    BY <1>5, <2>1
  <2>2. calls'[b].at = "done" => Told(b, "error")'
    BY <1>3, <2>0, <2>1
  <2>3. ASSUME NEW c \in DOMAIN calls', c > b, calls'[c].op = r
        PROVE  calls'[c].at = "done" /\ ~Told(c, "success")'
    <3>1. CASE c \in CallId
      <4>1. calls[c].op = r
        BY <2>3, <3>1
      <4>2. calls[c].at = "done" /\ ~Told(c, "success")
        BY <2>1, <2>3, <3>1, <4>1
      <4>3. calls'[c] = calls[c]
        BY <2>0, <3>1, <4>1, <4>2
      <4>4. QED
        BY <3>1, <4>2, <4>3
    <3>2. CASE c \notin CallId
      BY <2>0, <2>3, <3>2
    <3>3. QED
      BY <3>1, <3>2
  <2>4. QED
    BY <1>2, <1>5, <2>1, <2>2, <2>3 DEF PanelOf, CallId
<1>6. CASE panel[r].is \notin {"result", "searching"}
  BY <1>2, <1>6 DEF PanelOf
<1>7. QED
  BY <1>4, <1>5, <1>6

\* Messages about other calls, or that are no success, tell no success.
LEMMA NoNewSuccess ==
    ASSUME NEW d,
           \/ flash' = flash
           \/ \E c, k, about : Say(c, k, about) /\ (c # d \/ k # "success")
    PROVE  Told(d, "success")' => Told(d, "success")
<1>1. CASE flash' = flash
  BY <1>1 DEF Told
<1>2. ASSUME NEW c, NEW k, NEW about, Say(c, k, about), c # d \/ k # "success"
      PROVE  Told(d, "success")' => Told(d, "success")
  <2>1. Message(c, k, about).call = c /\ Message(c, k, about).kind = k
    BY DEF Message
  <2>2. flash' = flash \union {Message(c, k, about)}
    BY <1>2 DEF Say
  <2>3. QED
    BY <1>2, <2>1, <2>2 DEF Told
<1>3. QED
  BY <1>1, <1>2

\* The continuation of a search is the one of that search.
LEMMA SearchEnds ==
    ASSUME NEW c \in CallId, Continuation(c), calls[c].op \in Searches
    PROVE  SearchDone(c, calls[c].op)
  BY DEF Continuation, UnicastSent, ChatSent, PrivateSent, UpdateTable, UpdateGraph,
         Rendered, RenderFails, PeerAdded, EntrySet, CatalogShown, Added, Uploaded,
         Downloaded, SearchAllDone, SearchFirstDone, SearchDone, Resolved, Tagged,
         ChainShown, Answered, Searches

\* A continuation speaks of its own call.
LEMMA ContinuationSays ==
    ASSUME NEW c \in CallId, Continuation(c)
    PROVE  flash' = flash \/ \E k, about : Say(c, k, about)
  BY DEF Continuation, UnicastSent, ChatSent, PrivateSent, UpdateTable, UpdateGraph,
         Rendered, RenderFails, PeerAdded, EntrySet, CatalogShown, Added, Uploaded,
         Downloaded, SearchAllDone, SearchFirstDone, SearchDone, Resolved, Tagged,
         ChainShown, EditDone, Report

\* A continuation writes a panel when its call succeeded, and says so.
LEMMA ContinuationWrites ==
    ASSUME NEW c \in CallId, Continuation(c)
    PROVE  \/ panel' = panel
           \/ /\ Told(c, "success")'
              /\ \E r \in Results : panel' = [panel EXCEPT ![r] = Text("result", c)]
<1>1. {"upload", "searchAll", "searchFirst", "resolve"} \subseteq Results
  BY DEF Results, Searches
<1>2. Report(c) /\ Accepted(c) => Told(c, "success")'
  BY Tells DEF Report
<1>3. CASE Uploaded(c)
  BY <1>1, <1>2, <1>3 DEF Uploaded
<1>4. CASE Resolved(c)
  BY <1>1, <1>2, <1>4 DEF Resolved
<1>5. CASE SearchAllDone(c) \/ SearchFirstDone(c)
  BY <1>1, <1>2, <1>5 DEF SearchAllDone, SearchFirstDone, SearchDone
<1>6. CASE ~(Uploaded(c) \/ Resolved(c) \/ SearchAllDone(c) \/ SearchFirstDone(c))
  <2>1. panel' = panel
    BY <1>6 DEF Continuation, UnicastSent, ChatSent, PrivateSent, UpdateTable, UpdateGraph,
         Rendered, RenderFails, PeerAdded, EntrySet, CatalogShown, Added,
         Downloaded, Tagged, ChainShown, EditDone
  <2>2. QED
    BY <2>1
<1>7. QED
  BY <1>3, <1>4, <1>5, <1>6

\* Continuations keep the panels honest.
LEMMA ContinuationPanels ==
    ASSUME Inv, PanelsOk, NEW c \in CallId, Continuation(c)
    PROVE  PanelsOk'
<1>1. Shape(c)
  BY ContinuationShape
<1>2. flash \subseteq flash'
  BY ContinuationSays, Tells
<1>3. panel \in [Results -> [is : {"blank", "searching", "result"},
                             by : DOMAIN calls \union {0}]]
  BY DEF Inv, ScreenOk
<1>4. ASSUME NEW r \in Results PROVE PanelOf(r)'
  <2>1. CASE panel'[r] = panel[r]
    <3>1. /\ CallId \subseteq DOMAIN calls' /\ calls[c].at # "done"
          /\ \A d \in CallId : calls'[d].op = calls[d].op
          /\ \A d \in CallId : d # c => calls'[d] = calls[d]
          /\ \A d \in DOMAIN calls' : d \notin CallId => calls'[d].op \in Updates
      BY <1>1 DEF Shape
    <3>2. ASSUME calls[c].op = r, r \in Searches, panel[r].is = "searching"
          PROVE  Told(c, "error")'
      <4>1. SearchDone(c, r)
        BY <3>2, SearchEnds
      <4>2. CASE Accepted(c)
        <5>1. panel'[r].is = "result"
          BY <1>3, <4>1, <4>2 DEF SearchDone, Text
        <5>2. QED
          BY <2>1, <3>2, <5>1
      <4>3. CASE ~Accepted(c)
        BY <4>1, <4>3, Tells DEF SearchDone, Report
      <4>4. QED
        BY <4>2, <4>3
    <3>3. \A d \in CallId : calls[d].at = "done" /\ Told(d, "success")' => Told(d, "success")
      BY <3>1, ContinuationSays, NoNewSuccess
    <3>4. \A d \in DOMAIN calls' : d \notin CallId /\ calls'[d].op = r => r \notin Searches
      BY <3>1 DEF Updates, Searches
    <3>5. ASSUME panel[r].is = "searching", r \in Searches,
                 NEW d \in CallId, calls[d].op = r
          PROVE  \/ calls[d].at = "done" /\ calls'[d] = calls[d]
                 \/ /\ calls[d].at # "done"
                    /\ calls'[d].at = "done" => Told(d, "error")'
      <4>1. CASE d = c
        BY <3>1, <3>2, <3>5, <4>1
      <4>2. CASE d # c
        BY <3>1, <4>2
      <4>3. QED
        BY <4>1, <4>2
    <3>6. PanelOf(r)
      BY DEF PanelsOk
    <3>7. QED
      BY <1>2, <2>1, <3>1, <3>3, <3>4, <3>5, <3>6, PanelStays
  <2>2. CASE panel'[r] # panel[r]
    <3>1. Told(c, "success")' /\ panel'[r] = Text("result", c)
      BY <1>3, <2>2, ContinuationWrites
    <3>2. panel'[r].is = "result" /\ panel'[r].by = c
      BY <3>1 DEF Text
    <3>3. QED
      BY <3>1, <3>2 DEF PanelOf
  <2>3. QED
    BY <2>1, <2>2
<1>5. QED
  BY <1>4 DEF PanelsOk

\* A beginning keeps the panels honest: a search writes its panel when it begins.
LEMMA BegunPanels == ASSUME Inv, PanelsOk, NEW q, Begun(q) PROVE PanelsOk'
<1>1. PICK n : n = Number
  OBVIOUS
<1>2. /\ CallId \subseteq Nat /\ n \in Nat /\ n \notin CallId
      /\ DOMAIN calls' = CallId \union {n} /\ calls'[n] = q
      /\ \A d \in CallId : calls'[d] = calls[d] /\ n > d
  BY <1>1, BegunShape
<1>3. /\ flash' = flash \/ Say(n, "error", form)
      /\ panel' = IF q.op \in Searches /\ q.at # "done"
                  THEN [panel EXCEPT ![q.op] = Text("searching", n)] ELSE panel
  BY <1>1 DEF Begun
<1>4. flash \subseteq flash'
  BY <1>3, Tells
<1>5. \A d : Told(d, "success")' => Told(d, "success")
  BY <1>3, NoNewSuccess
<1>6. ~Told(n, "success")'
  <2>1. \A m \in flash : m.call \in CallId \union {0}
    BY DEF Inv, FlashSound, MessageOf, CallId
  <2>2. n # 0
    BY <1>1, BegunShape, CallType DEF Inv, CallsSound, Number
  <2>3. ~Told(n, "success")
    BY <1>2, <2>1, <2>2 DEF Told
  <2>4. QED
    BY <1>5, <2>3
<1>7. panel \in [Results -> [is : {"blank", "searching", "result"},
                             by : DOMAIN calls \union {0}]]
  BY DEF Inv, ScreenOk
<1>8. ASSUME NEW r \in Results PROVE PanelOf(r)'
  <2>1. CASE q.op = r /\ r \in Searches /\ q.at # "done"
    <3>1. panel'[r].is = "searching" /\ panel'[r].by = n
      BY <1>3, <1>7, <2>1 DEF Text
    <3>2. ASSUME NEW c \in DOMAIN calls' PROVE ~(c > n)
      <4>1. CASE c \in CallId
        <5>1. c \in Nat /\ n \in Nat /\ n > c
          BY <1>2, <4>1
        <5>2. QED
          BY <5>1
      <4>2. CASE c = n
        BY <1>2, <4>2
      <4>3. QED
        BY <1>2, <4>1, <4>2
    <3>3. n \in DOMAIN calls' /\ calls'[n].op = r /\ calls'[n].at # "done"
      BY <1>2, <2>1
    <3>4. QED
      BY <2>1, <3>1, <3>2, <3>3 DEF PanelOf, CallId
  <2>2. CASE ~(q.op = r /\ r \in Searches /\ q.at # "done")
    <3>1. panel'[r] = panel[r]
      BY <1>3, <1>7, <2>2
    <3>2. /\ CallId \subseteq DOMAIN calls'
          /\ \A d \in CallId : calls'[d].op = calls[d].op
          /\ \A d \in CallId : calls'[d] = calls[d]
      BY <1>2
    <3>3. \A d \in CallId : calls[d].op = r /\ r \in Searches
                            /\ panel[r].is = "searching" =>
               \/ calls[d].at = "done" /\ calls'[d] = calls[d]
               \/ /\ calls[d].at # "done"
                  /\ calls'[d].at = "done" => Told(d, "error")'
      BY <3>2
    <3>4. \A d \in DOMAIN calls' : d \notin CallId /\ calls'[d].op = r /\ r \in Searches =>
               calls'[d].at = "done" /\ ~Told(d, "success")'
      BY <1>2, <1>6, <2>2
    <3>5. PanelOf(r)
      BY DEF PanelsOk
    <3>6. QED
      BY <1>4, <1>5, <3>1, <3>2, <3>3, <3>4, <3>5, PanelStays
  <2>3. QED
    BY <2>1, <2>2
<1>9. QED
  BY <1>8 DEF PanelsOk

\* A step that ends no call and tells no success keeps the panels honest.
LEMMA WaitingPanels ==
    ASSUME Inv, PanelsOk, panel' = panel, flash \subseteq flash',
           \A d : Told(d, "success")' => Told(d, "success"),
           DOMAIN calls' = CallId,
           \A d \in CallId : \/ calls'[d] = calls[d]
                             \/ /\ calls'[d].op = calls[d].op
                                /\ calls[d].at # "done" /\ calls'[d].at # "done"
    PROVE  PanelsOk'
<1>1. ASSUME NEW r \in Results PROVE PanelOf(r)'
  <2>1. PanelOf(r) /\ panel'[r] = panel[r]
    BY DEF PanelsOk
  <2>2. /\ CallId \subseteq DOMAIN calls'
        /\ \A d \in CallId : calls'[d].op = calls[d].op
    OBVIOUS
  <2>3. \A d \in CallId : \/ calls[d].at = "done" /\ calls'[d] = calls[d]
                          \/ /\ calls[d].at # "done"
                             /\ calls'[d].at = "done" => Told(d, "error")'
    OBVIOUS
  <2>4. QED
    BY <2>1, <2>2, <2>3, PanelStays
<1>2. QED
  BY <1>1 DEF PanelsOk

\* Every step keeps the panels honest.
LEMMA PanelsNext == ASSUME Inv, PanelsOk, [Next]_vars PROVE PanelsOk'
<1>1. CASE UserClicks
  BY <1>1, ClickBegins, BegunPanels
<1>2. CASE Initialize
  <2>1. CASE \E r : Begun(r)
    BY <2>1, BegunPanels
  <2>2. CASE calls' = calls
    <3>1. flash' = flash /\ panel' = panel
      BY <1>2 DEF Initialize
    <3>2. \A d : Told(d, "success")' => Told(d, "success")
      BY <3>1, NoNewSuccess
    <3>3. QED
      BY <2>2, <3>1, <3>2, WaitingPanels DEF CallId
  <2>3. QED
    BY <1>2, <2>1, <2>2, StartBegins
<1>3. ASSUME NEW c \in CallId, Continuation(c) PROVE PanelsOk'
  BY <1>3, ContinuationPanels
<1>4. ASSUME NEW c \in CallId, Serve(c) \/ Break(c) \/ FileRead(c) PROVE PanelsOk'
  <2>1. flash' = flash /\ panel' = panel
    BY <1>4 DEF Serve, Break, FileRead, FileLoaded, FileUnreadable, Reading
  <2>2. \A d : Told(d, "success")' => Told(d, "success")
    BY <2>1, NoNewSuccess
  <2>3. QED
    BY <1>4, <2>1, <2>2, WaitingShape, WaitingPanels
<1>5. ASSUME NEW c \in CallId, FileProgress(c) PROVE PanelsOk'
  <2>1. calls' = calls /\ panel' = panel /\ Say(c, "progress", calls[c].arg)
    BY <1>5 DEF FileProgress, Reading
  <2>2. flash \subseteq flash'
    BY <2>1, Tells
  <2>3. \A d : Told(d, "success")' => Told(d, "success")
    BY <2>1, NoNewSuccess
  <2>4. QED
    BY <2>1, <2>2, <2>3, WaitingPanels DEF CallId
<1>6. CASE SocketAddressFails \/ PacketError
  <2>1. calls' = calls /\ panel' = panel /\ Say(0, "error", Empty)
    BY <1>6 DEF SocketAddressFails, PacketError
  <2>2. flash \subseteq flash'
    BY <2>1, Tells
  <2>3. \A d : Told(d, "success")' => Told(d, "success")
    BY <2>1, NoNewSuccess
  <2>4. QED
    BY <2>1, <2>2, <2>3, WaitingPanels DEF CallId
<1>7. CASE \/ SocketAddress \/ Type \/ UNCHANGED vars
           \/ \E isChat, own \in BOOLEAN : PacketMessage(isChat, own)
  <2>1. calls' = calls /\ panel' = panel /\ flash' = flash
    BY <1>7 DEF SocketAddress, Type, PacketMessage, vars
  <2>2. \A d : Told(d, "success")' => Told(d, "success")
    BY <2>1, NoNewSuccess
  <2>3. QED
    BY <2>1, <2>2, WaitingPanels DEF CallId
<1>8. QED
  BY <1>1, <1>2, <1>3, <1>4, <1>5, <1>6, <1>7 DEF Next, Progress

\* With the endpoint known, a search that is over has ended, so its panel may be
\* believed.
LEMMA PanelsHonest == ASSUME CallsOk, EndpointOk, PanelsOk PROVE PanelHonest
<1>1. ASSUME NEW r \in Results, Quiet, panel[r].is = "searching"
      PROVE  /\ Told(panel[r].by, "error")
             /\ \A c \in CallId : c > panel[r].by => ~(calls[c].op = r /\ Told(c, "success"))
  <2>1. PICK b \in CallId : b = panel[r].by
    BY <1>1 DEF PanelsOk, PanelOf
  <2>2. /\ calls[b].op = r /\ r \in Searches
        /\ calls[b].at = "done" => Told(b, "error")
        /\ \A c \in CallId : c > b /\ calls[c].op = r => ~Told(c, "success")
    BY <1>1, <2>1 DEF PanelsOk, PanelOf
  <2>3. calls[b].at \in {"done", "unread"}
    BY <1>1 DEF Quiet, Over, EndpointOk
  <2>4. calls[b].at # "unread"
    BY <2>2 DEF CallsOk, CallOk, Stage, Searches
  <2>5. QED
    BY <2>1, <2>2, <2>3, <2>4
<1>2. \A r \in Results : panel[r].is = "result" => Told(panel[r].by, "success")
  BY DEF PanelsOk, PanelOf
<1>3. QED
  BY <1>1, <1>2 DEF PanelHonest

\* A panel never promises a search that is not running, for any inputs and bounds
\* and any pages on which peerInfo precedes the controllers that make requests.
THEOREM PanelsAlways == ASSUME PeerInfoFirst PROVE Spec => []PanelHonest
<1>1. Init => CallsOk /\ PanelsOk
  BY DEF Init, CallsOk, CallId, PanelsOk, PanelOf, Text
<1>2. Inv /\ CallsOk /\ PanelsOk /\ [Next]_vars => CallsOk' /\ PanelsOk'
  BY CallsNext, PanelsNext
<1>3. CallsOk /\ EndpointOk /\ PanelsOk => PanelHonest
  BY PanelsHonest
<1>4. QED
  BY <1>1, <1>2, <1>3, InvAlways, EndpointAlways, PTL DEF Spec

----------------------------------------------------------------------------
(* What is displayed.  An edit that was acknowledged is followed by an     *)
(* update, its own, from which on every answer holds the edit: the node    *)
(* has carried it out before the update is asked for.  Nothing is said of  *)
(* an update that started earlier, even one answered later.                *)

\* Update u and those after it show edit c.
Shows(c, u, op) ==
    /\ u \in CallId
    /\ \A v \in CallId : v >= u /\ calls[v].op = op /\ calls[v].reply = "ok"
                         /\ calls[v].at # "done" => c \in calls[v].got
    /\ \A s \in Screen : Source(s) = op => \A i \in DOMAIN shown[s] :
           shown[s][i].by >= u => c \in shown[s][i].got

EditOf(c, op) == calls[c].op \in Edits[op] /\ calls[c].reply = "ok" /\ calls[c].at = "done"

EditsShown ==
    \A op \in Updates : \A c \in CallId : EditOf(c, op) =>
        \E u \in CallId : calls[u].op = op /\ Shows(c, u, op)

\* What a step displays is the answer to an update that has not ended.
Displays ==
    \A s \in Screen :
        \/ shown'[s] = shown[s]
        \/ \E v \in CallId :
             /\ calls[v].op = Source(s) /\ calls[v].reply = "ok" /\ calls[v].at # "done"
             /\ shown'[s] = <<[by |-> v, got |-> calls[v].got]>>

\* What a step answers to an update is an old answer, or all that is carried out.
Answers ==
    /\ CallId \subseteq DOMAIN calls'
    /\ \A v \in DOMAIN calls' :
         calls'[v].op \in Updates /\ calls'[v].reply = "ok" /\ calls'[v].at # "done" =>
           /\ v \in CallId /\ calls[v].op = calls'[v].op
           /\ \/ /\ calls[v].reply = "ok" /\ calls[v].at # "done"
                 /\ calls'[v].got = calls[v].got
              \/ calls'[v].got = Snapshot(calls[v].op)

\* The operations that edits belong to are the updates.
LEMMA Updating == DOMAIN Edits = Updates /\ \A s \in Screen : Source(s) \in Updates
  BY DEF Edits, Updates, Screen, Source

\* An edit that is acknowledged is in what the node answers from then on.
LEMMA InSnapshot ==
    ASSUME Inv, NEW op \in Updates, NEW c \in CallId, EditOf(c, op)
    PROVE  c \in Snapshot(op)
<1>1. [call |-> c, arg |-> calls[c].arg] \in handled
  BY DEF Inv, CallsSound, CallId, EditOf
<1>2. PICK h \in handled : h.call = c
  BY <1>1
<1>3. calls[h.call].op \in Edits[op]
  BY <1>2 DEF EditOf
<1>4. QED
  BY <1>2, <1>3, Updating DEF Snapshot

\* So what showed an edit goes on showing it.
LEMMA ShowsStays ==
    ASSUME Inv, NEW op \in Updates, NEW c \in CallId, EditOf(c, op), NEW u \in CallId,
           Shows(c, u, op), Displays, Answers
    PROVE  Shows(c, u, op)'
<1>1. ASSUME NEW v \in DOMAIN calls', v >= u, calls'[v].op = op, calls'[v].reply = "ok",
             calls'[v].at # "done"
      PROVE  c \in calls'[v].got
  <2>1. /\ v \in CallId /\ calls[v].op = op
        /\ \/ /\ calls[v].reply = "ok" /\ calls[v].at # "done"
              /\ calls'[v].got = calls[v].got
           \/ calls'[v].got = Snapshot(op)
    BY <1>1 DEF Answers
  <2>2. CASE calls'[v].got = Snapshot(op)
    BY <2>2, InSnapshot
  <2>3. CASE calls[v].reply = "ok" /\ calls[v].at # "done" /\ calls'[v].got = calls[v].got
    BY <1>1, <2>1, <2>3 DEF Shows
  <2>4. QED
    BY <2>1, <2>2, <2>3
<1>2. ASSUME NEW s \in Screen, Source(s) = op, NEW i \in DOMAIN shown'[s],
             shown'[s][i].by >= u
      PROVE  c \in shown'[s][i].got
  <2>1. CASE shown'[s] = shown[s]
    BY <1>2, <2>1 DEF Shows
  <2>2. ASSUME NEW v \in CallId, calls[v].op = Source(s), calls[v].reply = "ok",
               calls[v].at # "done", shown'[s] = <<[by |-> v, got |-> calls[v].got]>>
        PROVE  c \in shown'[s][i].got
    <3> DEFINE row == [by |-> v, got |-> calls[v].got]
    <3>1. row.by = v /\ row.got = calls[v].got /\ shown'[s] = <<row>>
      BY <2>2
    <3> HIDE DEF row
    <3>2. shown'[s][i] = row
      BY <1>2, <3>1
    <3>3. v >= u
      BY <1>2, <3>1, <3>2
    <3>4. QED
      BY <1>2, <2>2, <3>1, <3>2, <3>3 DEF Shows
  <2>3. QED
    BY <2>1, <2>2 DEF Displays
<1>3. u \in DOMAIN calls'
  BY DEF Answers
<1>4. QED
  BY <1>1, <1>2, <1>3 DEF Shows, CallId

\* A step shows all that was acknowledged if it shows what it acknowledges itself.
LEMMA EditsStay ==
    ASSUME Inv, EditsShown, Displays, Answers,
           \A d \in CallId : calls'[d].op = calls[d].op,
           \A op \in Updates : \A c \in DOMAIN calls' : EditOf(c, op)' =>
               \/ c \in CallId /\ EditOf(c, op)
               \/ \E u \in DOMAIN calls' : calls'[u].op = op /\ Shows(c, u, op)'
    PROVE  EditsShown'
<1>1. ASSUME NEW op \in Updates, NEW c \in DOMAIN calls', EditOf(c, op)'
      PROVE  \E u \in DOMAIN calls' : calls'[u].op = op /\ Shows(c, u, op)'
  <2>1. CASE c \in CallId /\ EditOf(c, op)
    <3>1. PICK u \in CallId : calls[u].op = op /\ Shows(c, u, op)
      BY <2>1 DEF EditsShown
    <3>2. Shows(c, u, op)'
      BY <2>1, <3>1, ShowsStays
    <3>3. u \in DOMAIN calls' /\ calls'[u].op = op
      BY <3>1 DEF Answers
    <3>4. QED
      BY <3>2, <3>3
  <2>2. QED
    BY <1>1, <2>1
<1>2. QED
  BY <1>1 DEF EditsShown, CallId, Updates

\* The continuation of an edit is the one of that edit.
LEMMA EditEnds ==
    ASSUME NEW c \in CallId, Continuation(c), NEW op \in Updates, calls[c].op \in Edits[op]
    PROVE  \E says \in BOOLEAN : EditDone(c, op, says)
<1>1. /\ op = "routing" => calls[c].op \in {"addPeer", "setEntry"}
      /\ op = "catalog" => calls[c].op = "add"
  BY DEF Edits, Updates
<1>2. CASE PeerAdded(c) \/ EntrySet(c)
  <2>1. EditDone(c, "routing", TRUE) /\ calls[c].op \in {"addPeer", "setEntry"}
    BY <1>2 DEF PeerAdded, EntrySet, Answered
  <2>2. QED
    BY <1>1, <2>1 DEF Updates
<1>3. CASE Added(c)
  <2>1. EditDone(c, "catalog", FALSE) /\ calls[c].op = "add"
    BY <1>3 DEF Added, Answered
  <2>2. QED
    BY <1>1, <2>1 DEF Updates
<1>4. CASE ~(PeerAdded(c) \/ EntrySet(c) \/ Added(c))
  <2>1. calls[c].op \notin {"addPeer", "setEntry", "add"}
    BY <1>4 DEF Continuation, UnicastSent, ChatSent, PrivateSent, UpdateTable,
         UpdateGraph, Rendered, RenderFails, CatalogShown, Uploaded, Downloaded,
         SearchAllDone, SearchFirstDone, SearchDone, Resolved, Tagged, ChainShown, Answered
  <2>2. QED
    BY <1>1, <2>1 DEF Updates
<1>5. QED
  BY <1>2, <1>3, <1>4

\* Only an answer is displayed.
LEMMA ContinuationDisplays ==
    ASSUME Inv, CallsOk, NEW c \in CallId, Continuation(c)
    PROVE  Displays
<1>1. ASSUME NEW t \in Screen, shown' = Display(t, c), calls[c].op = Source(t),
             calls[c].reply = "ok", calls[c].at # "done"
      PROVE  Displays
  <2>1. ASSUME NEW s \in Screen
        PROVE  \/ shown'[s] = shown[s]
               \/ /\ calls[c].op = Source(s) /\ calls[c].reply = "ok"
                  /\ calls[c].at # "done"
                  /\ shown'[s] = <<[by |-> c, got |-> calls[c].got]>>
    <3>1. DOMAIN shown = Screen
      BY DEF Inv, ScreenOk
    <3>2. shown'[s] = IF s = t THEN <<[by |-> c, got |-> calls[c].got]>> ELSE shown[s]
      BY <1>1, <3>1 DEF Display
    <3>3. QED
      BY <1>1, <3>2
  <2>2. QED
    BY <2>1 DEF Displays
<1>2. CASE UpdateTable(c) /\ Accepted(c)
  BY <1>1, <1>2 DEF UpdateTable, Answered, Accepted, Source, Screen
<1>3. CASE CatalogShown(c) /\ Accepted(c)
  BY <1>1, <1>3 DEF CatalogShown, Answered, Accepted, Source, Screen
<1>4. CASE Rendered(c)
  <2>1. CallOk(c)
    BY DEF CallsOk
  <2>2. QED
    BY <1>1, <1>4, <2>1 DEF Rendered, Answered, CallOk, Stage, Source, Screen
<1>5. CASE ~(UpdateTable(c) /\ Accepted(c)) /\ ~(CatalogShown(c) /\ Accepted(c)) /\ ~Rendered(c)
  <2>1. shown' = shown
    BY <1>5 DEF Continuation, UnicastSent, ChatSent, PrivateSent, UpdateTable, UpdateGraph,
         RenderFails, PeerAdded, EntrySet, CatalogShown, Added, Uploaded,
         Downloaded, SearchAllDone, SearchFirstDone, SearchDone, Resolved, Tagged,
         ChainShown, EditDone, Report
  <2>2. QED
    BY <2>1 DEF Displays
<1>6. QED
  BY <1>2, <1>3, <1>4, <1>5

\* An edit that is acknowledged starts the update that shows it.
LEMMA EditShows ==
    ASSUME Inv, NEW c \in CallId, NEW op \in Updates, NEW says \in BOOLEAN,
           EditDone(c, op, says), Accepted(c)
    PROVE  \E u \in DOMAIN calls' : calls'[u].op = op /\ Shows(c, u, op)'
<1> DEFINE f == Finish(c)
           q == Request(op, Empty)
<1>1. /\ f \in Seq(CallRecord) /\ DOMAIN f = CallId
  BY FinishFacts
<1>2. op \in Op /\ Empty \in Field
  BY DEF Updates, Op, Field
<1>3. q \in CallRecord /\ q.reply = "pending" /\ q.op = op
  BY <1>2, RequestStage
<1>4. calls' = Append(f, q) /\ shown' = shown
  BY DEF EditDone
<1> HIDE DEF f, q
<1>5. PICK u : u = Len(f) + 1
  OBVIOUS
<1>6. /\ u \in Nat /\ CallId \subseteq Nat
      /\ DOMAIN calls' = CallId \union {u} /\ calls'[u] = q
      /\ \A d \in CallId : u > d
  BY <1>1, <1>3, <1>4, <1>5, AppendFacts
<1>7. ASSUME NEW d \in CallId PROVE ~(d >= u)
  <2>1. d \in Nat /\ u \in Nat /\ u > d
    BY <1>6
  <2>2. QED
    BY <2>1
<1>8. ASSUME NEW v \in DOMAIN calls', v >= u PROVE calls'[v].reply # "ok"
  <2>1. v = u
    BY <1>6, <1>7, <1>8
  <2>2. QED
    BY <1>3, <1>6, <2>1
<1>9. ASSUME NEW s \in Screen, NEW i \in DOMAIN shown[s] PROVE ~(shown[s][i].by >= u)
  <2> DEFINE Row == [by : CallId, got : SUBSET Nat]
             rows == shown[s]
  <2>1. rows \in Seq(Row) /\ i \in DOMAIN rows
    BY DEF Inv, ScreenOk, CallId
  <2> HIDE DEF Row, rows
  <2>2. i \in 1..Len(rows)
    BY <2>1
  <2>3. rows[i] \in Row
    BY <2>1, <2>2, ElementOfSeq
  <2>4. shown[s][i].by \in CallId
    BY <2>3 DEF Row, rows
  <2>5. QED
    BY <1>7, <2>4
<1>10. Shows(c, u, op)'
  BY <1>4, <1>6, <1>8, <1>9 DEF Shows, CallId
<1>11. QED
  BY <1>3, <1>6, <1>10

\* Continuations show all that was acknowledged.
LEMMA ContinuationShows ==
    ASSUME Inv, CallsOk, EditsShown, NEW c \in CallId, Continuation(c)
    PROVE  EditsShown'
<1>1. Shape(c)
  BY ContinuationShape
<1>2. Displays
  BY ContinuationDisplays
<1>3. Answers
  <2>1. CallId \subseteq DOMAIN calls'
    BY <1>1 DEF Shape
  <2>2. ASSUME NEW v \in DOMAIN calls', calls'[v].reply = "ok", calls'[v].at # "done"
        PROVE  /\ v \in CallId /\ calls[v].op = calls'[v].op
               /\ calls[v].reply = "ok" /\ calls[v].at # "done"
               /\ calls'[v].got = calls[v].got
    <3>1. v \in CallId
      BY <1>1, <2>2 DEF Shape
    <3>2. CASE v = c
      BY <1>1, <2>2, <3>2 DEF Shape
    <3>3. CASE v # c
      BY <1>1, <2>2, <3>1, <3>3 DEF Shape
    <3>4. QED
      BY <3>1, <3>2, <3>3
  <2>3. QED
    BY <2>1, <2>2 DEF Answers
<1>4. ASSUME NEW op \in Updates, NEW d \in DOMAIN calls', EditOf(d, op)'
      PROVE  \/ d \in CallId /\ EditOf(d, op)
             \/ \E u \in DOMAIN calls' : calls'[u].op = op /\ Shows(d, u, op)'
  <2>0. calls'[d].op \in Edits[op] /\ calls'[d].reply = "ok" /\ calls'[d].at = "done"
    BY <1>4 DEF EditOf
  <2>1. d \in CallId
    BY <1>1, <2>0 DEF Shape
  <2>2. CASE d # c
    BY <1>1, <2>0, <2>1, <2>2 DEF Shape, EditOf
  <2>3. CASE d = c
    <3>1. calls[c].op \in Edits[op]
      BY <1>1, <2>0, <2>3 DEF Shape
    <3>2. PICK says \in BOOLEAN : EditDone(c, op, says)
      BY <3>1, EditEnds
    <3>3. Accepted(c)
      <4>1. CASE ~Accepted(c)
        <5>1. calls'[c].reply = calls[c].reply
          BY <3>2, <4>1, FinishFacts DEF EditDone
        <5>2. QED
          BY <2>0, <2>3, <4>1, <5>1 DEF Accepted
      <4>2. QED
        BY <4>1
    <3>4. QED
      BY <2>3, <3>2, <3>3, EditShows
  <2>4. QED
    BY <2>2, <2>3
<1>5. QED
  BY <1>1, <1>2, <1>3, <1>4, EditsStay DEF Shape

\* A step that displays nothing and ends no call changes nothing for the edits.
LEMMA WaitingShows ==
    ASSUME Inv, EditsShown, shown' = shown, CallId \subseteq DOMAIN calls',
           \A d \in CallId :
               \/ calls'[d] = calls[d]
               \/ /\ calls'[d].op = calls[d].op /\ calls'[d].at # "done"
                  /\ calls'[d].reply = "ok" => calls'[d].got = Snapshot(calls[d].op),
           \A d \in DOMAIN calls' : d \notin CallId => calls'[d].reply # "ok"
    PROVE  EditsShown'
<1>1. Displays
  BY DEF Displays
<1>2. Answers
  BY DEF Answers
<1>3. \A op \in Updates : \A d \in DOMAIN calls' :
        EditOf(d, op)' => d \in CallId /\ EditOf(d, op)
  BY DEF EditOf
<1>4. QED
  BY <1>1, <1>2, <1>3, EditsStay

\* Every step keeps the acknowledged edits shown.
LEMMA EditsNext == ASSUME Inv, CallsOk, EditsShown, [Next]_vars PROVE EditsShown'
<1>1. ASSUME NEW r, Begun(r) PROVE EditsShown'
  <2>1. r.reply # "ok" /\ shown' = shown
    BY <1>1 DEF Begun
  <2>2. QED
    BY <1>1, <2>1, BegunShape, WaitingShows
<1>2. CASE UserClicks
  BY <1>1, <1>2, ClickBegins
<1>3. ASSUME calls' = calls, shown' = shown PROVE EditsShown'
  BY <1>3, WaitingShows DEF CallId
<1>4. CASE Initialize
  <2>1. CASE \E r : Begun(r)
    BY <1>1, <2>1
  <2>2. CASE calls' = calls
    BY <1>3, <1>4, <2>2 DEF Initialize
  <2>3. QED
    BY <1>4, <2>1, <2>2, StartBegins
<1>5. ASSUME NEW c \in CallId, Continuation(c) PROVE EditsShown'
  BY <1>5, ContinuationShows
<1>6. ASSUME NEW c \in CallId, Serve(c) \/ Break(c) \/ FileRead(c) PROVE EditsShown'
  <2>1. shown' = shown
    BY <1>6 DEF Serve, Break, FileRead, FileLoaded, FileUnreadable, Reading
  <2>2. calls[c] \in CallRecord /\ CallOk(c)
    BY CallType DEF CallsOk
  <2>3. calls'[c].reply = "ok" => calls'[c].got = Snapshot(calls[c].op)
    <3>1. CASE Serve(c)
      BY <2>2, <3>1 DEF Serve, CallRecord, CallId
    <3>2. CASE Break(c)
      BY <2>2, <3>2 DEF Break, CallRecord, CallId
    <3>3. CASE FileRead(c)
      <4>1. calls'[c].reply = calls[c].reply /\ calls[c].at = "read"
        BY <2>2, <3>3 DEF FileRead, FileLoaded, FileUnreadable, Reading, CallRecord, CallId
      <4>2. QED
        BY <2>2, <4>1 DEF CallOk, Stage
    <3>4. QED
      BY <1>6, <3>1, <3>2, <3>3
  <2>4. QED
    BY <1>6, <2>1, <2>3, WaitingShape, WaitingShows
<1>7. CASE \/ SocketAddress \/ SocketAddressFails \/ Type \/ PacketError
           \/ \E isChat, own \in BOOLEAN : PacketMessage(isChat, own)
           \/ \E c \in CallId : FileProgress(c)
           \/ UNCHANGED vars
  <2>1. calls' = calls /\ shown' = shown
    BY <1>7 DEF SocketAddress, SocketAddressFails, Type, PacketError, PacketMessage,
                FileProgress, Reading, vars
  <2>2. QED
    BY <1>3, <2>1
<1>8. QED
  BY <1>2, <1>4, <1>5, <1>6, <1>7 DEF Next, Progress

\* When nothing is in flight every edit that was acknowledged has ended, and the
\* update that is displayed, being the last, is not before the one of the edit.
LEMMA DisplaysCurrent == ASSUME Inv, CallsOk, EditsShown PROVE DisplayCurrent
<1>1. ASSUME Quiet, NEW s \in Screen, NEW i \in DOMAIN shown[s],
             \A u \in CallId : calls[u].op = Source(s) => u <= shown[s][i].by,
             NEW c \in CallId, calls[c].op \in Edits[Source(s)], calls[c].reply = "ok"
      PROVE  c \in shown[s][i].got
  <2>1. calls[c].at = "done"
    BY <1>1 DEF Quiet, Over, CallsOk, CallOk, Stage, Edits, Source, Screen
  <2>2. Source(s) \in Updates /\ EditOf(c, Source(s))
    BY <1>1, <2>1, Updating DEF EditOf
  <2>3. PICK u \in CallId : calls[u].op = Source(s) /\ Shows(c, u, Source(s))
    BY <2>2 DEF EditsShown
  <2>4. u <= shown[s][i].by
    BY <1>1, <2>3
  <2>5. shown[s][i].by >= u
    BY <2>4
  <2>6. QED
    BY <2>3, <2>5 DEF Shows
<1>2. QED
  BY <1>1 DEF DisplayCurrent

\* What the last update displays holds every acknowledged edit once nothing is in
\* flight, for any pages, inputs and bounds and any order of the answers.
THEOREM DisplayAlways == Spec => []DisplayCurrent
<1>1. Init => CallsOk /\ EditsShown
  BY DEF Init, CallsOk, CallId, EditsShown
<1>2. Inv /\ CallsOk /\ EditsShown /\ [Next]_vars => CallsOk' /\ EditsShown'
  BY CallsNext, EditsNext
<1>3. Inv /\ CallsOk /\ EditsShown => DisplayCurrent
  BY DisplaysCurrent
<1>4. QED
  BY <1>1, <1>2, <1>3, InvAlways, PTL DEF Spec
----------------------------------------------------------------------------
(* The calls come to an end: what is left to do for those that have        *)
(* started shrinks with every step of theirs.                              *)

\* The steps a call may still take.  An edit counts those of the update that it
\* may start.
Left(k) ==
    CASE k.at = "read"   -> 8
      [] k.at = "fetch"  -> (IF k.reply = "pending" THEN 1 ELSE 0)
                              + (IF k.op \in Updates THEN 4 ELSE 6)
      [] k.at = "graph"  -> IF k.reply = "pending" THEN 3 ELSE 2
      [] k.at = "render" -> 1
      [] OTHER           -> 0

Remaining == {w \in CallId \X (1..8) : w[2] <= Left(calls[w[1]])}

Work == Cardinality(Remaining)

\* A call has so many steps left.
LEMMA LeftType == ASSUME NEW k \in CallRecord PROVE Left(k) \in 0..8
  BY DEF Left, CallRecord

\* There are only so many calls.
LEMMA RemainingFinite == ASSUME Inv PROVE IsFiniteSet(Remaining) /\ Work \in Nat
<1>1. CallId = 1..Len(calls) /\ Len(calls) \in Nat
  BY DEF Inv, CallsSound, CallId
<1>2. IsFiniteSet(CallId) /\ IsFiniteSet(1..8)
  <2>1. IsFiniteSet(1..Len(calls))
    BY <1>1, FS_Interval
  <2>2. IsFiniteSet(1..8)
    <3>1. PICK most \in Nat : most = 8
      OBVIOUS
    <3>2. IsFiniteSet(1..most)
      BY FS_Interval
    <3>3. QED
      BY <3>1, <3>2
  <2>3. QED
    BY <1>1, <2>1, <2>2
<1>3. IsFiniteSet(CallId \X (1..8))
  BY <1>2, FS_Product
<1>4. IsFiniteSet(Remaining)
  BY <1>3, FS_Subset DEF Remaining
<1>5. QED
  BY <1>4, FS_CardinalityType DEF Work

\* What maps one to one into a set, but misses a member, is smaller.
LEMMA Fewer ==
    ASSUME NEW S, IsFiniteSet(S), NEW x \in S, NEW T, NEW f \in [T -> S \ {x}],
           \A u, v \in T : f[u] = f[v] => u = v
    PROVE  Cardinality(T) < Cardinality(S)
<1>1. f \in Injection(T, S \ {x})
  BY DEF Injection, IsInjective
<1>2. /\ IsFiniteSet(S \ {x}) /\ Cardinality(S \ {x}) = Cardinality(S) - 1
      /\ Cardinality(S) \in Nat
  BY FS_RemoveElement, FS_CardinalityType
<1>3. IsFiniteSet(T) /\ Cardinality(T) <= Cardinality(S \ {x})
  BY <1>1, <1>2, FS_Injection
<1>4. Cardinality(T) \in Nat
  BY <1>3, FS_CardinalityType
<1>5. QED
  BY <1>2, <1>3, <1>4

\* How a call that makes progress changes the calls: it has fewer steps left, and
\* when it ends as an edit the update it starts has fewer than it had.
Advances(c) ==
    /\ \A d \in CallId : d # c => calls'[d] = calls[d]
    /\ Left(calls'[c]) < Left(calls[c])
    /\ \/ DOMAIN calls' = CallId
       \/ /\ DOMAIN calls' = CallId \union {Number}
          /\ Left(calls'[Number]) < Left(calls[c])
          /\ Left(calls'[c]) = 0

\* The steps left are mapped into those there were, the ones of an update that
\* starts into the ones of the edit that has ended.
LEMMA WorkFalls == ASSUME Inv, Inv', NEW c \in CallId, Advances(c) PROVE Work' < Work
<1> DEFINE L == Left(calls[c])
           x == <<c, L>>
           f == [w \in Remaining' |-> IF w[1] \in CallId THEN w ELSE <<c, w[2]>>]
<1>1. /\ L \in 1..8 /\ Left(calls'[c]) \in 0..8 /\ c \in DOMAIN calls'
      /\ \A d \in DOMAIN calls' : Left(calls'[d]) \in 0..8
  <2>1. calls[c] \in CallRecord /\ \A d \in DOMAIN calls' : calls'[d] \in CallRecord
    <3>1. calls' \in Seq(CallRecord)
      BY DEF Inv, CallsSound
    <3>2. QED
      BY <3>1, CallType, ElementOfSeq
  <2>2. c \in DOMAIN calls'
    BY DEF Advances
  <2>3. L \in 0..8 /\ \A d \in DOMAIN calls' : Left(calls'[d]) \in 0..8
    BY <2>1, LeftType
  <2>4. Left(calls'[c]) < L
    BY DEF Advances
  <2>5. QED
    BY <2>2, <2>3, <2>4
<1>2. x \in Remaining
  BY <1>1 DEF Remaining
<1>3. /\ Remaining \subseteq CallId \X (1..8)
      /\ Remaining' = {w \in (DOMAIN calls') \X (1..8) : w[2] <= Left(calls'[w[1]])}
  BY DEF Remaining, CallId
<1>4. ASSUME NEW w \in Remaining' PROVE f[w] \in Remaining \ {x}
  <2>1. PICK d \in DOMAIN calls', i \in 1..8 : w = <<d, i>> /\ i <= Left(calls'[d])
    BY <1>3
  <2>2. CASE d \in CallId /\ d # c
    BY <2>1, <2>2 DEF Remaining, Advances
  <2>3. CASE d = c
    <3>1. i < L /\ f[w] = <<c, i>>
      BY <1>1, <2>1, <2>3 DEF Advances
    <3>2. QED
      BY <1>1, <2>1, <3>1 DEF Remaining
  <2>4. CASE d \notin CallId
    <3>1. i < L /\ f[w] = <<c, i>>
      BY <1>1, <2>1, <2>4 DEF Advances
    <3>2. QED
      BY <1>1, <2>1, <3>1 DEF Remaining
  <2>5. QED
    BY <2>2, <2>3, <2>4
<1>5. ASSUME NEW u \in Remaining', NEW v \in Remaining', f[u] = f[v] PROVE u = v
  <2>1. PICK d \in DOMAIN calls', i \in 1..8 : u = <<d, i>> /\ i <= Left(calls'[d])
    BY <1>3
  <2>2. PICK e \in DOMAIN calls', j \in 1..8 : v = <<e, j>> /\ j <= Left(calls'[e])
    BY <1>3
  <2>3. /\ f[u] = IF d \in CallId THEN <<d, i>> ELSE <<c, i>>
        /\ f[v] = IF e \in CallId THEN <<e, j>> ELSE <<c, j>>
    BY <2>1, <2>2
  <2>4. i = j
    BY <1>5, <2>3
  <2>5. CASE d \in CallId /\ e \in CallId
    BY <1>5, <2>1, <2>2, <2>3, <2>5
  <2>6. CASE d \notin CallId /\ e \notin CallId
    BY <2>1, <2>2, <2>4, <2>6 DEF Advances
  <2>7. CASE (d \in CallId) # (e \in CallId)
    <3>1. d = c \/ e = c
      BY <1>5, <2>3, <2>7
    <3>2. Left(calls'[c]) = 0
      BY <2>7 DEF Advances
    <3>3. QED
      BY <2>1, <2>2, <3>1, <3>2, <2>4, <1>5, <2>3, <2>7
  <2>8. QED
    BY <2>5, <2>6, <2>7
<1>6. IsFiniteSet(Remaining)
  BY RemainingFinite
<1>7. f \in [Remaining' -> Remaining \ {x}]
  BY <1>4
<1> HIDE DEF x, f
<1>8. Cardinality(Remaining') < Cardinality(Remaining)
  BY <1>2, <1>5, <1>6, <1>7, Fewer
<1>9. QED
  BY <1>8 DEF Work
\* What the node, the network and the reading of a file do for a call.
LEMMA WaitingAdvances ==
    ASSUME Inv, CallsOk, NEW c \in CallId, Serve(c) \/ Break(c) \/ FileRead(c)
    PROVE  Advances(c)
<1>1. calls[c] \in CallRecord /\ Stage(calls[c])
  BY CallType DEF CallsOk, CallOk
<1>2. DOMAIN calls' = CallId /\ \A d \in CallId : d # c => calls'[d] = calls[d]
  BY WaitingShape
<1>3. CASE Serve(c) \/ Break(c)
  <2>1. /\ calls[c].at \in {"fetch", "graph"} /\ calls[c].reply = "pending"
        /\ calls'[c].reply \in {"ok", "failed"}
        /\ calls'[c].at = calls[c].at /\ calls'[c].op = calls[c].op
    BY <1>1, <1>3 DEF Serve, Break, Waiting, CallId, CallRecord
  <2>2. Left(calls'[c]) < Left(calls[c])
    BY <2>1 DEF Left
  <2>3. QED
    BY <1>2, <2>2 DEF Advances
<1>4. CASE FileRead(c)
  <2>1. /\ calls[c].at = "read" /\ calls'[c].at \in {"fetch", "unread"}
    BY <1>1, <1>4 DEF FileRead, FileLoaded, FileUnreadable, Reading, CallId, CallRecord
  <2>2. Left(calls'[c]) < Left(calls[c])
    BY <2>1 DEF Left
  <2>3. QED
    BY <1>2, <2>2 DEF Advances
<1>5. QED
  BY <1>3, <1>4

\* A call that ends, and starts no other one.
LEMMA FinishAdvances ==
    ASSUME Inv, NEW c \in CallId, calls[c].at \in {"fetch", "graph", "render"},
           calls' = Finish(c)
    PROVE  Advances(c)
<1>1. /\ DOMAIN calls' = CallId /\ calls'[c].at = "done"
      /\ \A d \in CallId : d # c => calls'[d] = calls[d]
  BY FinishFacts
<1>2. Left(calls'[c]) = 0 /\ Left(calls[c]) > 0
  BY <1>1 DEF Left
<1>3. QED
  BY <1>1, <1>2 DEF Advances

\* An edit that ends, and the update that it starts.
LEMMA EditAdvances ==
    ASSUME Inv, NEW c \in CallId, NEW op \in Updates,
           calls[c].op \notin Updates, calls[c].at = "fetch",
           calls' = Append(Finish(c), Request(op, Empty))
    PROVE  Advances(c)
<1> DEFINE f == Finish(c)
           q == Request(op, Empty)
<1>1. /\ f \in Seq(CallRecord) /\ DOMAIN f = CallId /\ f[c].at = "done"
      /\ \A d \in CallId : d # c => f[d] = calls[d]
  BY FinishFacts
<1>2. Len(f) = Len(calls)
  BY <1>1, CallType
<1>3. op \in Op /\ Empty \in Field
  BY DEF Updates, Op, Field
<1>4. /\ q \in CallRecord /\ q.reply = "pending" /\ q.op = op
      /\ q.at = (IF endpoint THEN "fetch" ELSE "thrown")
  BY <1>3, RequestStage
<1>5. calls' = Append(f, q)
  OBVIOUS
<1> HIDE DEF f, q
<1>6. /\ DOMAIN calls' = CallId \union {Number} /\ calls'[Number] = q
      /\ \A d \in CallId : calls'[d] = f[d]
  BY SMTT(60), <1>1, <1>2, <1>4, <1>5, AppendFacts DEF Number
<1>7. Left(q) <= 5 /\ Left(f[c]) = 0 /\ Left(calls[c]) >= 6
  BY <1>1, <1>4 DEF Left
<1>8. Left(q) \in 0..8 /\ Left(calls[c]) \in 0..8
  BY <1>4, CallType, LeftType
<1>9. QED
  BY SMTT(60), <1>1, <1>6, <1>7, <1>8 DEF Advances

\* What a continuation does for its call.
LEMMA ContinuationAdvances ==
    ASSUME Inv, CallsOk, NEW c \in CallId, Continuation(c)
    PROVE  Advances(c)
<1>1. calls[c].at \in {"fetch", "graph", "render"}
  BY ContinuationShape DEF Shape
<1>2. CASE UpdateTable(c)
  <2>1. calls[c] \in CallRecord
    BY CallType
  <2>2. /\ DOMAIN calls' = CallId /\ calls'[c].at = "graph" /\ calls'[c].reply = "pending"
        /\ calls[c].at = "fetch" /\ calls[c].op \in Updates
        /\ \A d \in CallId : d # c => calls'[d] = calls[d]
    BY <1>2, <2>1 DEF UpdateTable, Answered, CallId, CallRecord, Updates
  <2>3. Left(calls'[c]) < Left(calls[c])
    BY <2>2 DEF Left
  <2>4. QED
    BY <2>2, <2>3 DEF Advances
<1>3. CASE UpdateGraph(c) /\ Accepted(c)
  <2>1. calls[c] \in CallRecord
    BY CallType
  <2>2. /\ DOMAIN calls' = CallId /\ calls'[c].at = "render"
        /\ calls[c].at = "graph"
        /\ \A d \in CallId : d # c => calls'[d] = calls[d]
    BY <1>3, <2>1 DEF UpdateGraph, Answered, CallId, CallRecord
  <2>3. Left(calls'[c]) < Left(calls[c])
    BY <2>2 DEF Left
  <2>4. QED
    BY <2>2, <2>3 DEF Advances
<1>4. CASE UpdateGraph(c) /\ ~Accepted(c)
  BY <1>1, <1>4, FinishAdvances DEF UpdateGraph
<1>5. CASE PeerAdded(c) \/ EntrySet(c) \/ Added(c)
  <2>1. calls[c].at = "fetch" /\ calls[c].op \notin Updates
    BY <1>5 DEF PeerAdded, EntrySet, Added, Answered, Updates
  <2>2. \/ calls' = Finish(c)
        \/ \E op \in Updates : calls' = Append(Finish(c), Request(op, Empty))
    BY <1>5 DEF PeerAdded, EntrySet, Added, EditDone, Updates
  <2>3. QED
    BY <2>1, <2>2, FinishAdvances, EditAdvances
<1>6. CASE \/ UnicastSent(c) \/ ChatSent(c) \/ PrivateSent(c) \/ Rendered(c)
           \/ RenderFails(c) \/ CatalogShown(c) \/ Uploaded(c) \/ Downloaded(c)
           \/ SearchAllDone(c) \/ SearchFirstDone(c) \/ Resolved(c) \/ Tagged(c)
           \/ ChainShown(c)
  <2>1. calls' = Finish(c)
    BY <1>6 DEF UnicastSent, ChatSent, PrivateSent, Rendered, RenderFails, CatalogShown,
                Uploaded, Downloaded, SearchAllDone, SearchFirstDone, SearchDone,
                Resolved, Tagged, ChainShown, Report
  <2>2. QED
    BY <1>1, <2>1, FinishAdvances
<1>7. QED
  BY SMTT(60), <1>2, <1>3, <1>4, <1>5, <1>6 DEF Continuation

\* Whatever the user and the network do, the calls that have started come to an
\* end: each step that the browser or the network takes for one of them leaves
\* less to do than there was, an edit's update included, and only the start of the
\* page and a click add to it.
THEOREM CallsEnd ==
    Spec => /\ [](Work \in Nat)
            /\ [][/\ (\E c \in CallId : Progress(c)) => Work' < Work
                  /\ Work' > Work => Initialize \/ UserClicks]_vars
<1>1. Inv => Work \in Nat
  BY RemainingFinite
<1>2. ASSUME Inv, Inv', CallsOk, NEW c \in CallId, Progress(c) PROVE Work' < Work
  BY <1>2, WaitingAdvances, ContinuationAdvances, WorkFalls DEF Progress
<1>3. ASSUME Next PROVE \/ Initialize \/ UserClicks \/ (\E c \in CallId : Progress(c))
                        \/ Work' = Work
  <2>1. CASE \/ SocketAddress \/ SocketAddressFails \/ Type \/ PacketError
             \/ (\E isChat, own \in BOOLEAN : PacketMessage(isChat, own))
             \/ (\E c \in CallId : FileProgress(c))
    <3>1. calls' = calls
      BY <2>1 DEF SocketAddress, SocketAddressFails, Type, PacketError, PacketMessage,
                  FileProgress
    <3>2. QED
      BY <3>1 DEF Work, Remaining, CallId
  <2>2. QED
    BY <1>3, <2>1 DEF Next
<1>4. ASSUME NEW v \in Nat, NEW w \in Nat, w < v \/ w = v PROVE ~(w > v)
  BY <1>4
<1>5. Inv /\ Inv' /\ CallsOk /\ Work \in Nat /\ (Work \in Nat)' /\ [Next]_vars =>
        [/\ (\E c \in CallId : Progress(c)) => Work' < Work
         /\ Work' > Work => Initialize \/ UserClicks]_vars
  <2> SUFFICES ASSUME Inv, Inv', CallsOk, Work \in Nat, Work' \in Nat, Next
               PROVE  /\ (\E c \in CallId : Progress(c)) => Work' < Work
                      /\ Work' > Work => Initialize \/ UserClicks
    OBVIOUS
  <2>1. \/ Initialize \/ UserClicks
        \/ (\E c \in CallId : Progress(c)) /\ Work' < Work
        \/ Work' = Work
    BY <1>2, <1>3
  <2>2. (\E c \in CallId : Progress(c)) => Work' < Work
    BY <1>2
  <2>3. QED
    BY <1>4, <2>1, <2>2
<1>6. QED
  BY <1>1, <1>5, CallsOkAlways, InvAlways, PTL DEF Spec
\* Only a routing call asks for a graph and draws it.
GraphsRouting ==
    \A c \in CallId : calls[c].at \in {"graph", "render"} => calls[c].op = "routing"

\* Every step keeps it so.
LEMMA GraphsNext == ASSUME Inv, GraphsRouting, [Next]_vars PROVE GraphsRouting'
<1>1. ASSUME NEW r, Begun(r) PROVE GraphsRouting'
  <2>1. r.at \notin {"graph", "render"}
    BY <1>1 DEF Begun
  <2>2. QED
    BY <1>1, <2>1, BegunShape DEF GraphsRouting, CallId
<1>2. CASE calls' = calls
  BY <1>2 DEF GraphsRouting, CallId
<1>3. CASE UserClicks
  BY <1>1, <1>3, ClickBegins
<1>4. CASE Initialize
  BY <1>1, <1>2, <1>4, StartBegins
<1>5. ASSUME NEW c \in CallId, Continuation(c) PROVE GraphsRouting'
  <2>1. Shape(c)
    BY <1>5, ContinuationShape
  <2>2. ASSUME NEW d \in DOMAIN calls', calls'[d].at \in {"graph", "render"}
        PROVE  calls'[d].op = "routing"
    BY <2>1, <2>2 DEF Shape, GraphsRouting
  <2>3. QED
    BY <2>2 DEF GraphsRouting, CallId
<1>6. ASSUME NEW c \in CallId, Serve(c) \/ Break(c) \/ FileRead(c) PROVE GraphsRouting'
  <2>1. /\ calls'[c].at \in {"graph", "render"} => calls'[c].at = calls[c].at
        /\ DOMAIN calls' = CallId /\ calls'[c].op = calls[c].op
        /\ \A d \in CallId : d # c => calls'[d] = calls[d]
    BY <1>6, WaitingShape
  <2>2. QED
    BY <2>1 DEF GraphsRouting, CallId
<1>7. CASE \/ SocketAddress \/ SocketAddressFails \/ Type \/ PacketError
           \/ (\E isChat, own \in BOOLEAN : PacketMessage(isChat, own))
           \/ (\E c \in CallId : FileProgress(c))
           \/ UNCHANGED vars
  <2>1. calls' = calls
    BY <1>7 DEF SocketAddress, SocketAddressFails, Type, PacketError, PacketMessage,
                FileProgress, vars
  <2>2. QED
    BY <1>2, <2>1
<1>8. QED
  BY <1>3, <1>4, <1>5, <1>6, <1>7 DEF Next, Progress

\* A call has a step to take: the node may answer it, its file may be read, or the
\* code that follows its await may run.
Due(c) ==
    \/ Waiting(c)
    \/ calls[c].at = "read"
    \/ \E op \in Op : Answered(c, op, "fetch")
    \/ Answered(c, "routing", "graph")
    \/ Answered(c, "routing", "render")

\* No handler waits for a promise that nobody settles: once the page has started, a
\* call that is not over has a step to take, whatever it has been through.
THEOREM NoCallStuck == Spec => [](Ready => \A c \in CallId : Over(c) \/ Due(c))
<1>1. Init => GraphsRouting
  BY DEF Init, GraphsRouting, CallId
<1>2. Inv /\ GraphsRouting /\ [Next]_vars => GraphsRouting'
  BY GraphsNext
<1>3. Inv /\ CallsOk /\ GraphsRouting => (Ready => \A c \in CallId : Over(c) \/ Due(c))
  <2> SUFFICES ASSUME Inv, CallsOk, GraphsRouting, Ready, NEW c \in CallId
               PROVE  Over(c) \/ Due(c)
    OBVIOUS
  <2>1. calls[c] \in CallRecord /\ calls[c].op \in Op /\ Stage(calls[c])
    BY CallType DEF CallsOk, CallOk
  <2>2. CASE calls[c].at \in {"done", "thrown", "unread"}
    BY <2>2 DEF Over
  <2>3. CASE calls[c].at = "read"
    BY <2>3 DEF Due
  <2>4. CASE calls[c].at \in {"fetch", "graph"} /\ calls[c].reply = "pending"
    BY <2>4 DEF Due, Waiting
  <2>5. CASE calls[c].at = "fetch" /\ calls[c].reply # "pending"
    BY <2>1, <2>5 DEF Due, Answered
  <2>6. CASE calls[c].at \in {"graph", "render"} /\ calls[c].reply # "pending"
    BY <2>6 DEF Due, Answered, GraphsRouting
  <2>7. calls[c].at = "render" => calls[c].reply = "ok"
    BY <2>1 DEF Stage
  <2>8. calls[c].at \in {"read", "unread", "fetch", "graph", "render", "done", "thrown"}
    BY <2>1 DEF CallRecord
  <2>9. QED
    BY <2>2, <2>3, <2>4, <2>5, <2>6, <2>7, <2>8
<1>4. QED
  BY <1>1, <1>2, <1>3, CallsOkAlways, InvAlways, PTL DEF Spec
============================================================================
