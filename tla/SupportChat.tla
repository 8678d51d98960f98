------------------------------ MODULE SupportChat ------------------------------
(***************************************************************************)
(* The support chat: ChatWidget.tsx in the layout of every public page,    *)
(* the controllers and actions behind /support/chat, and the two things an *)
(* operator does in the Filament inbox, reply and change the status.       *)
(*                                                                         *)
(* A widget starts a conversation, subscribes to its broadcast channel and *)
(* sends texts.  What it shows is merged from three sources: the list in   *)
(* the answer to the start, the answers to its own posts and the broadcast *)
(* messages, in any order.  The order on the screen and the wording are    *)
(* left out: shown counts how often each message is in the list.           *)
(*                                                                         *)
(* visitor is what a request identifies itself with.  For a guest it is    *)
(* the token of the cookie, 0 while there is none, c for the token that    *)
(* was made with conversation c.  For a signed-in user it is always 0,     *)
(* which stands for the user's id.                                         *)
(***************************************************************************)
EXTENDS Integers, Sequences, FiniteSets, SequencesExt

CONSTANTS
    Reverb,            \* VITE_REVERB_APP_KEY is set: window.Echo exists
    Starts,            \* requests to /support/chat/start, each used once
    Texts,             \* what the customer types
    Replies,           \* what the operator writes
    OperatorStatuses,  \* the statuses the operator uses, of open, pending and closed
    MaxConversations   \* bound: conversation rows

ASSUME ChatAssumption ==
    /\ Reverb \in BOOLEAN
    /\ Starts # {} /\ Texts # {} /\ Texts \intersect Replies = {}
    /\ OperatorStatuses \subseteq {"open", "pending", "closed"}
    /\ IsFiniteSet(Texts \union Replies)
    /\ MaxConversations \in Nat \ {0}

VARIABLES
    signedIn,       \* the visitor is logged in, so the user guard knows him
    visitor,
    widget,         \* the state of the mounted component
    shown,          \* per message id, how often it is in the list
    wire,           \* broadcast messages on their way to this browser
    starts, sends,  \* the requests
    conversations, messages,  \* the tables
    overlapped      \* history: two starts of one widget were on their way at once

vars == <<signedIn, visitor, widget, shown, wire, starts, sends,
          conversations, messages, overlapped>>
rows == <<conversations, messages>>

MaxMessages == Cardinality(Texts \union Replies)
MessageIds == 1 .. MaxMessages
NoConversation == 0

FreshWidget ==
    [open |-> FALSE, conversation |-> NoConversation, subscribed |-> FALSE,
     loading |-> FALSE, error |-> "none", body |-> {}]

NothingShown == [m \in MessageIds |-> 0]

\* What the panel shows when it is open: "Starting chat...", the error line, the hint of an
\* empty conversation, and the list.
Screen ==
    [starting |-> widget.loading, error |-> widget.error # "none",
     hint |-> ~widget.loading /\ shown = NothingShown, list |-> shown]

StoredIn(c) ==
    {m \in 1 .. Len(messages) : messages[m].conversation = c /\ messages[m].state = "stored"}

BugAddAlways(list, m) == [list EXCEPT ![m] = @ + 1]

\* setMessages((current) => current.some(same id) ? current : [...current, message])
AddOnce(list, m) == [list EXCEPT ![m] = IF @ > 0 THEN @ ELSE @ + 1]

\* A transaction that has written the conversation's row holds its lock.
Locked(c) ==
    \E m \in 1 .. Len(messages) : messages[m].conversation = c /\ messages[m].state = "open"

\* A request before it is issued or after it has ended.
StartAt(stage) ==
    [stage |-> stage, token |-> 0, live |-> FALSE, conversation |-> NoConversation, list |-> {}]
SendAt(stage) ==
    [stage |-> stage, conversation |-> NoConversation, seen |-> "open", id |-> 0, live |-> FALSE]

InFlight(s) == starts[s].stage \notin {"none", "done"}

Init ==
    /\ signedIn \in BOOLEAN
    /\ visitor = 0
    /\ widget = FreshWidget
    /\ shown = NothingShown
    /\ wire = {}
    /\ starts = [s \in Starts |-> StartAt("none")]
    /\ sends = [x \in Texts \union Replies |-> SendAt("unused")]
    /\ conversations = <<>>
    /\ messages = <<>>
    /\ overlapped = FALSE

-----------------------------------------------------------------------------
(* The widget is opened, closed and left. *)

BugStartAtEveryOpening(open) == open

\* Run by the effect when open or conversationId has changed.
MustStart(open) == open /\ widget.conversation = NoConversation

ToggleOpen ==
    LET open == ~widget.open IN
    /\ \/ /\ MustStart(open)
          /\ \E s \in Starts :
               /\ starts[s].stage = "none"
               /\ starts' = [starts EXCEPT ![s] =
                              [StartAt("asked") EXCEPT !.token = visitor, !.live = TRUE]]
          /\ widget' = [widget EXCEPT !.open = open, !.loading = TRUE]
          /\ overlapped' = (overlapped \/ \E s \in Starts : InFlight(s) /\ starts[s].live)
       \/ /\ ~MustStart(open)
          /\ widget' = [widget EXCEPT !.open = open]
          /\ UNCHANGED <<starts, overlapped>>
    /\ UNCHANGED <<signedIn, visitor, shown, wire, sends, rows>>

\* Another page mounts another widget; answers to the old one change nothing on it.
PageVisit ==
    /\ widget # FreshWidget
    /\ widget' = FreshWidget
    /\ shown' = NothingShown
    /\ wire' = {}
    /\ starts' = [s \in Starts |-> [starts[s] EXCEPT !.live = FALSE]]
    /\ sends' = [x \in DOMAIN sends |-> [sends[x] EXCEPT !.live = FALSE]]
    /\ overlapped' = FALSE
    /\ UNCHANGED <<signedIn, visitor, rows>>

-----------------------------------------------------------------------------
(* Starting a conversation. *)

OpenOnesOf(token) ==
    {c \in 1 .. Len(conversations) : conversations[c].owner = token
                                       /\ conversations[c].status = "open"}

\* With several open ones the latest message decides; times are not modelled.
FindConversation(s) ==
    /\ starts[s].stage = "asked"
    /\ IF OpenOnesOf(starts[s].token) = {}
       THEN starts' = [starts EXCEPT ![s] = [@ EXCEPT !.stage = "searched"]]
       ELSE \E c \in OpenOnesOf(starts[s].token) :
              starts' = [starts EXCEPT ![s] =
                           [@ EXCEPT !.stage = "answered", !.conversation = c,
                                     !.list = StoredIn(c)]]
    /\ UNCHANGED <<signedIn, visitor, widget, shown, wire, sends, rows, overlapped>>

\* The row is not created in the step that looked for one.
CreateConversation(s) ==
    LET c == Len(conversations) + 1
        owner == IF signedIn \/ starts[s].token # 0 THEN starts[s].token ELSE c
    IN  /\ starts[s].stage = "searched"
        /\ c <= MaxConversations
        /\ conversations' = Append(conversations, [owner |-> owner, status |-> "open"])
        /\ starts' = [starts EXCEPT ![s] =
                        [@ EXCEPT !.stage = "answered", !.conversation = c, !.list = {}]]
        /\ UNCHANGED <<signedIn, visitor, widget, shown, wire, sends, messages, overlapped>>

\* The list of the answer replaces what is shown; a new channel name leaves the old channel.
StartAnswered(s) ==
    LET c == starts[s].conversation
        same == widget.conversation = c
    IN  /\ starts[s].stage = "answered"
        /\ starts' = [starts EXCEPT ![s] = StartAt("done")]
        /\ visitor' = conversations[c].owner
        /\ IF starts[s].live
           THEN /\ widget' = [widget EXCEPT !.conversation = c, !.loading = FALSE,
                                            !.subscribed = same /\ @]
                /\ shown' = [m \in MessageIds |-> IF m \in starts[s].list THEN 1 ELSE 0]
                /\ wire' = IF same THEN wire ELSE {}
           ELSE UNCHANGED <<widget, shown, wire>>
        /\ UNCHANGED <<signedIn, sends, rows, overlapped>>

BugLoadingEndsWithSuccess == widget.loading
LoadingAfterFailure == FALSE

\* A refusal (throttle, CSRF token, error of the server), or an answer that never arrives:
\* no cookie and no conversation, whatever the server has created.
StartFailed(s) ==
    /\ InFlight(s)
    /\ starts' = [starts EXCEPT ![s] = StartAt("done")]
    /\ widget' = IF starts[s].live
                 THEN [widget EXCEPT !.error = "start", !.loading = LoadingAfterFailure]
                 ELSE widget
    /\ UNCHANGED <<signedIn, visitor, shown, wire, sends, rows, overlapped>>

\* /broadcasting/auth turns a guest away before the channel's rule is asked.
Subscribe ==
    /\ widget.conversation # NoConversation /\ ~widget.subscribed
    /\ Reverb /\ signedIn
    /\ widget' = [widget EXCEPT !.subscribed = TRUE]
    /\ UNCHANGED <<signedIn, visitor, shown, wire, starts, sends, rows, overlapped>>

Deliver(m) ==
    /\ m \in wire /\ widget.subscribed
    /\ wire' = wire \ {m}
    /\ shown' = AddOnce(shown, m)
    /\ UNCHANGED <<signedIn, visitor, widget, starts, sends, rows, overlapped>>

-----------------------------------------------------------------------------
(* Sending: the customer from the widget, the operator from the inbox. *)

\* Each text is typed once; a refused one is put back into the box by the widget.
Type(x) ==
    /\ widget.open /\ widget.body = {}
    /\ sends[x].stage = "unused"
    /\ widget' = [widget EXCEPT !.body = {x}]
    /\ UNCHANGED <<signedIn, visitor, shown, wire, starts, sends, rows, overlapped>>

BodyAfterSend == {}

Send(x) ==
    /\ widget.open /\ widget.body = {x} /\ widget.conversation # NoConversation
    /\ sends[x].stage \in {"unused", "over"}
    /\ widget' = [widget EXCEPT !.body = BodyAfterSend, !.error = "none"]
    /\ sends' = [sends EXCEPT ![x] = [SendAt("sent") EXCEPT
                                        !.conversation = widget.conversation, !.live = TRUE]]
    /\ UNCHANGED <<signedIn, visitor, shown, wire, starts, rows, overlapped>>

MayAccess(c) == conversations[c].owner = visitor

\* The conversation is loaded, access and throttle are checked.
LoadPost(x) ==
    LET c == sends[x].conversation IN
    /\ sends[x].stage = "sent"
    /\ \/ /\ MayAccess(c)
          /\ sends' = [sends EXCEPT ![x] =
                         [@ EXCEPT !.stage = "loaded", !.seen = conversations[c].status]]
       \/ sends' = [sends EXCEPT ![x] = [@ EXCEPT !.stage = "refused"]]
    /\ UNCHANGED <<signedIn, visitor, widget, shown, wire, starts, rows, overlapped>>

\* The operator replies once, to a conversation he has on the screen.
AdminReply(x, c) ==
    /\ sends[x].stage = "unused"
    /\ sends' = [sends EXCEPT ![x] =
                  [SendAt("loaded") EXCEPT !.conversation = c, !.seen = conversations[c].status]]
    /\ UNCHANGED <<signedIn, visitor, widget, shown, wire, starts, rows, overlapped>>

BugDocumentedChannelName(m, c) == wire' = wire

Broadcast(m, c) ==
    wire' = IF widget.subscribed /\ widget.conversation = c THEN wire \union {m} ELSE wire

\* A message row is inserted and broadcast in one transaction, still open.  No socket id
\* is sent along, so toOthers() leaves nobody out.
WriteMessage(x) ==
    LET c == sends[x].conversation
        m == Len(messages) + 1
    IN  /\ sends[x].stage = "loaded"
        /\ ~Locked(c) /\ m <= MaxMessages
        /\ messages' = Append(messages, [text |-> x, conversation |-> c, state |-> "open"])
        /\ Broadcast(m, c)
        /\ sends' = [sends EXCEPT ![x] = [@ EXCEPT !.stage = "written", !.id = m]]
        /\ UNCHANGED <<signedIn, visitor, widget, shown, starts, conversations, overlapped>>

BugBroadcastAfterCommit(x) ==
    /\ sends[x].stage = "answered"
    /\ sends' = [sends EXCEPT ![x] = [@ EXCEPT !.stage = "refused"]]
    /\ UNCHANGED <<signedIn, visitor, widget, shown, wire, starts, rows, overlapped>>

\* The broadcast throws inside the transaction: nothing is kept.
BroadcastFails(x) ==
    /\ sends[x].stage = "loaded"
    /\ sends' = [sends EXCEPT ![x] = [@ EXCEPT !.stage = "refused"]]
    /\ UNCHANGED <<signedIn, visitor, widget, shown, wire, starts, rows, overlapped>>

BugReopenedWord(seen, now) == IF seen = "closed" THEN "reopened" ELSE now

\* A message to a conversation that was read as closed opens it again.
StatusAfterMessage(seen, now) == IF seen = "closed" THEN "open" ELSE now

CommitMessage(x) ==
    LET c == sends[x].conversation IN
    /\ sends[x].stage = "written"
    /\ messages' = [messages EXCEPT ![sends[x].id] = [@ EXCEPT !.state = "stored"]]
    /\ conversations' = [conversations EXCEPT ![c] =
                           [@ EXCEPT !.status = StatusAfterMessage(sends[x].seen,
                                                                   conversations[c].status)]]
    /\ sends' = [sends EXCEPT ![x] = [@ EXCEPT !.stage = "answered"]]
    /\ UNCHANGED <<signedIn, visitor, widget, shown, wire, starts, overlapped>>

PostAnswered(x) ==
    /\ sends[x].stage = "answered"
    /\ sends' = [sends EXCEPT ![x] = SendAt("over")]
    /\ shown' = IF sends[x].live THEN AddOnce(shown, sends[x].id) ELSE shown
    /\ UNCHANGED <<signedIn, visitor, widget, wire, starts, rows, overlapped>>

\* The text goes back into the box, over what was typed meanwhile.
PostRefused(x) ==
    /\ sends[x].stage = "refused"
    /\ sends' = [sends EXCEPT ![x] = SendAt("over")]
    /\ widget' = IF sends[x].live THEN [widget EXCEPT !.error = "send", !.body = {x}] ELSE widget
    /\ UNCHANGED <<signedIn, visitor, shown, wire, starts, rows, overlapped>>

\* fetch rejects, nobody catches: the box is empty and no error is shown.
PostLost(x) ==
    /\ sends[x].stage \in {"sent", "answered", "refused"}
    /\ sends' = [sends EXCEPT ![x] = SendAt("over")]
    /\ UNCHANGED <<signedIn, visitor, widget, shown, wire, starts, rows, overlapped>>

\* The operator sees the outcome; his reply is not sent again.
ReplyEnds(x) ==
    /\ sends[x].stage \in {"answered", "refused"}
    /\ sends' = [sends EXCEPT ![x] = SendAt("over")]
    /\ UNCHANGED <<signedIn, visitor, widget, shown, wire, starts, rows, overlapped>>

AdminSetsStatus(c) ==
    /\ ~Locked(c)
    /\ \E status \in OperatorStatuses \ {conversations[c].status} :
         conversations' = [conversations EXCEPT ![c] = [@ EXCEPT !.status = status]]
    /\ UNCHANGED <<signedIn, visitor, widget, shown, wire, starts, sends, messages, overlapped>>

-----------------------------------------------------------------------------
Serving(x) == LoadPost(x) \/ WriteMessage(x) \/ BroadcastFails(x) \/ CommitMessage(x)

StartStep(s) ==
    \/ FindConversation(s) \/ CreateConversation(s) \/ StartAnswered(s) \/ StartFailed(s)

PostStep(x) == Serving(x) \/ PostAnswered(x) \/ PostRefused(x) \/ PostLost(x)
ReplyStep(x) == Serving(x) \/ ReplyEnds(x)

Next ==
    \/ ToggleOpen \/ PageVisit \/ Subscribe
    \/ \E m \in MessageIds : Deliver(m)
    \/ \E s \in Starts : StartStep(s)
    \/ \E x \in Texts : Type(x) \/ Send(x) \/ PostStep(x)
    \/ \E x \in Replies : ReplyStep(x)
    \/ \E c \in 1 .. Len(conversations) :
         AdminSetsStatus(c) \/ \E x \in Replies : AdminReply(x, c)

\* The server and the browser go on with what was asked; nobody must click.
Fairness ==
    /\ \A s \in Starts : WF_vars(StartStep(s))
    /\ \A x \in Texts : WF_vars(PostStep(x))
    /\ \A x \in Replies : WF_vars(ReplyStep(x))
    /\ \A m \in MessageIds : WF_vars(Deliver(m))
    /\ WF_vars(Subscribe)

Spec == Init /\ [][Next]_vars /\ Fairness

-----------------------------------------------------------------------------
(* Properties. *)

StartRow ==
    [stage : {"none", "asked", "searched", "answered", "done"},
     token : 0 .. MaxConversations, live : BOOLEAN,
     conversation : 0 .. MaxConversations, list : SUBSET MessageIds]

SendRow ==
    [stage : {"unused", "sent", "loaded", "written", "answered", "refused", "over"},
     conversation : 0 .. MaxConversations, seen : {"open", "pending", "closed"},
     id : 0 .. MaxMessages, live : BOOLEAN]

WidgetState ==
    [open : BOOLEAN, conversation : 0 .. MaxConversations, subscribed : BOOLEAN,
     loading : BOOLEAN, error : {"none", "start", "send"}, body : SUBSET Texts]

ConversationRow ==
    [owner : 0 .. MaxConversations, status : {"open", "pending", "closed"}]

MessageRow ==
    [text : Texts \union Replies, conversation : 1 .. MaxConversations,
     state : {"open", "stored"}]

WidgetOK ==
    /\ widget \in WidgetState
    /\ shown \in [MessageIds -> Nat]
    /\ wire \subseteq MessageIds

RequestsOK ==
    /\ starts \in [Starts -> StartRow]
    /\ sends \in [Texts \union Replies -> SendRow]

TablesOK ==
    /\ conversations \in Seq(ConversationRow) /\ Len(conversations) <= MaxConversations
    /\ messages \in Seq(MessageRow) /\ Len(messages) <= MaxMessages

\* Every variable has its type; no counter passes its bound.
TypeOK ==
    /\ signedIn \in BOOLEAN /\ overlapped \in BOOLEAN
    /\ visitor \in 0 .. MaxConversations
    /\ WidgetOK /\ RequestsOK /\ TablesOK

\* A message that comes back both as the answer to the post and as a broadcast, in either
\* order, is in the list once (ChatWidget.tsx 75 and 113).
NoMessageTwice == \A m \in MessageIds : Screen.list[m] <= 1

\* A text the widget gives back with "Message could not be sent." can be sent again
\* without the inbox holding it twice: a refusal means that nothing was stored
\* (ChatWidget.tsx 106-110, the transaction of SendChatMessageAction).
StoredOnce ==
    \A m, n \in 1 .. Len(messages) :
        messages[m].text = messages[n].text => m = n

\* Messages of two conversations are never in one list, as long as the widget was not
\* opened again while its first start was still on its way.
OneConversationShown ==
    ~overlapped => \A m \in 1 .. Len(messages) :
                      shown[m] > 0 => messages[m].conversation = widget.conversation

\* What is on the screen stays there until the page is left: the list of a start's
\* answer never replaces messages that arrived since (ChatWidget.tsx 40, 62).
ShownStaysShown ==
    [][widget' # FreshWidget /\ ~overlapped' =>
         \A m \in MessageIds : shown[m] > 0 => shown'[m] > 0]_<<shown, widget, overlapped>>

\* "Starting chat..." does not stay (ChatWidget.tsx 44, 65).
LoadingEnds == Screen.starting ~> ~Screen.starting

\* A reply begun while the widget is subscribed to the conversation comes to be shown,
\* unless it cannot be stored, the page is left or another conversation is taken over.
ReplyReachesSubscriber ==
    \A x \in Replies :
        (sends[x].stage = "loaded" /\ widget.subscribed
           /\ sends[x].conversation = widget.conversation)
          ~> \/ \E m \in 1 .. Len(messages) : messages[m].text = x /\ shown[m] > 0
             \/ sends[x].stage = "refused"
             \/ ~widget.subscribed
=============================================================================
