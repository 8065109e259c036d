--------------------------- MODULE FlightPrompts ----------------------------
(***************************************************************************)
(* The date prompts of /flight (flightState and the handlers around it).   *)
(* A button asks for other dates: whoever presses it gets a prompt, one    *)
(* per chat, unless he has used up his searches.  The next text message of *)
(* the chat is taken for the dates; it is then that a search is counted,   *)
(* for whoever wrote it.                                                   *)
(*                                                                         *)
(* The loop of runBotCommands handles buttons and commands one after the   *)
(* other, and every text message in a goroutine of its own.  The methods   *)
(* of flightState hold its mutex and are one step each; between two of     *)
(* them anything may happen.                                               *)
(*                                                                         *)
(* Time: a prompt is "aged" once it is older than flightPendingExpiry, and *)
(* rateHits counts the hits younger than flightRateWindow, so that those   *)
(* that canRate and cleanup throw away are not in it.  What the messages   *)
(* say and which of them are deleted is left out.                          *)
(***************************************************************************)
EXTENDS Integers

CONSTANTS
    Chats,
    Users,
    Members,        \* Members[c]: the users who write in chat c
    AdminChat,      \* where there is no limit
    Handlers,       \* slots for the goroutines of handleText
    RateMax,        \* flightRateMax: 50
    MaxPrompts      \* bound on the prompts sent in a behaviour

ASSUME ChatsAssumption ==
    /\ Members \in [Chats -> SUBSET Users]
    /\ Chats # {} /\ Users # {}

ASSUME BoundsAssumption == RateMax \in Nat \ {0} /\ MaxPrompts \in Nat

VARIABLES
    pending,        \* pending[c]: the prompt of chat c, or NoPrompt
    aged,           \* the prompts that have expired
    rateHits,       \* rateHits[u]: the searches of u within the window
    loop,           \* what handleCallback does next, or "idle"
    pressed,        \* the chat and the user whose button it handles
    at,             \* at[h]: what handler h does next, or "idle"
    chat,           \* chat[h]: the chat of its message
    writer,         \* writer[h]: and who wrote it
    taken,          \* taken[h]: the prompt it answers
    (* History, which no guard of the program reads. *)
    sent,           \* prompts sent so far: they are numbered
    searched,       \* the prompts a search was made for
    twice,          \* the chats in which two were made for one prompt
    crowded         \* the chats in which somebody did not wait

prompts == <<pending, aged, rateHits>>
handlers == <<at, chat, writer, taken>>
history == <<searched, twice>>
vars == <<pending, aged, rateHits, loop, pressed, at, chat, writer, taken,
          sent, searched, twice, crowded>>

NoPrompt == 0
Prompts == 1 .. MaxPrompts

TypeOK ==
    /\ pending \in [Chats -> Prompts \cup {NoPrompt}]
    /\ aged \subseteq Prompts
    /\ rateHits \in [Users -> Nat]
    /\ loop \in {"idle", "rate", "old", "send", "set"}
    /\ pressed \in [chat : Chats, user : Users]
    /\ at \in [Handlers -> {"idle", "get", "clear", "count"}]
    /\ chat \in [Handlers -> Chats]
    /\ writer \in [Handlers -> Users]
    /\ taken \in [Handlers -> Prompts \cup {NoPrompt}]
    /\ sent \in 0 .. MaxPrompts
    /\ searched \subseteq Prompts
    /\ twice \subseteq Chats
    /\ crowded \subseteq Chats

AnyChat == CHOOSE c \in Chats : TRUE
AnyUser == CHOOSE u \in Users : TRUE

Init ==
    /\ pending = [c \in Chats |-> NoPrompt]
    /\ aged = {}
    /\ rateHits = [u \in Users |-> 0]
    /\ loop = "idle"
    /\ pressed = [chat |-> AnyChat, user |-> AnyUser]
    /\ at = [h \in Handlers |-> "idle"]
    /\ chat = [h \in Handlers |-> AnyChat]
    /\ writer = [h \in Handlers |-> AnyUser]
    /\ taken = [h \in Handlers |-> NoPrompt]
    /\ sent = 0
    /\ searched = {}
    /\ twice = {}
    /\ crowded = {}

-----------------------------------------------------------------------------
(* Time. *)

PromptAges(p) ==
    /\ p <= sent
    /\ aged' = aged \cup {p}
    /\ UNCHANGED <<pending, rateHits, loop, pressed, handlers, sent, history, crowded>>

(* Mutant: a hit that has left the window is taken off the count again.     *)
HitAgesAgain(u) ==
    /\ rateHits' = [rateHits EXCEPT ![u] = @ - 1]
    /\ UNCHANGED <<pending, aged, loop, pressed, handlers, sent, history, crowded>>

HitAges(u) ==
    /\ rateHits[u] > 0
    /\ rateHits' = [rateHits EXCEPT ![u] = @ - 1]
    /\ UNCHANGED <<pending, aged, loop, pressed, handlers, sent, history, crowded>>

(* Mutant: the age of a prompt is not looked at. *)
CleanupAll ==
    /\ pending' = [c \in Chats |-> NoPrompt]
    /\ UNCHANGED <<aged, rateHits, loop, pressed, handlers, sent, history, crowded>>

(* The ticker's cleanup. *)
Cleanup ==
    /\ pending' = [c \in Chats |-> IF pending[c] \in aged THEN NoPrompt ELSE pending[c]]
    /\ UNCHANGED <<aged, rateHits, loop, pressed, handlers, sent, history, crowded>>

-----------------------------------------------------------------------------
(* flightState *)

(* getPending forgets the prompt if it has expired. *)
Fresh(c) == pending[c] # NoPrompt /\ pending[c] \notin aged
GetPending(c) ==
    pending' = [pending EXCEPT ![c] = IF Fresh(c) THEN @ ELSE NoPrompt]

(* Mutant: the answer leaves the prompt where it is. *)
ClearPendingNot(c) == UNCHANGED pending

ClearPending(c) == pending' = [pending EXCEPT ![c] = NoPrompt]

(* Mutant: one search too many. *)
CanRateOneMore(u) == rateHits[u] <= RateMax

CanRate(u) == rateHits[u] < RateMax

ConsumeRate(u) == rateHits' = [rateHits EXCEPT ![u] = @ + 1]

-----------------------------------------------------------------------------
(* runBotCommands: an update at a time. *)

Crowd(c) ==
    crowded' = IF \E h \in Handlers : at[h] # "idle" /\ chat[h] = c
               THEN crowded \cup {c} ELSE crowded

Press(c, u) ==
    /\ loop = "idle"
    /\ loop' = "rate"
    /\ pressed' = [chat |-> c, user |-> u]
    /\ Crowd(c)
    /\ UNCHANGED <<prompts, handlers, sent, history>>

(* Any command cancels the prompt. *)
Command(c) ==
    /\ loop = "idle"
    /\ ClearPending(c)
    /\ UNCHANGED <<aged, rateHits, loop, pressed, handlers, sent, history, crowded>>

Text(h, c, u) ==
    /\ loop = "idle"
    /\ at[h] = "idle"
    /\ at' = [at EXCEPT ![h] = "get"]
    /\ chat' = [chat EXCEPT ![h] = c]
    /\ writer' = [writer EXCEPT ![h] = u]
    /\ Crowd(c)
    /\ UNCHANGED <<prompts, loop, pressed, taken, sent, history>>

-----------------------------------------------------------------------------
(* handleCallback *)

(* Past the limit the user is told to wait; in the admin's chat nobody is.  *)
Rate ==
    /\ loop = "rate"
    /\ loop' = IF pressed.chat = AdminChat \/ CanRate(pressed.user)
               THEN "old" ELSE "idle"
    /\ UNCHANGED <<prompts, pressed, handlers, sent, history, crowded>>

(* The message of a prompt that is still pending is deleted. *)
Old ==
    /\ loop = "old"
    /\ GetPending(pressed.chat)
    /\ loop' = "send"
    /\ UNCHANGED <<aged, rateHits, pressed, handlers, sent, history, crowded>>

Send ==
    /\ loop = "send"
    /\ \/ sent < MaxPrompts /\ sent' = sent + 1 /\ loop' = "set"
       \/ UNCHANGED sent /\ loop' = "idle"
    /\ UNCHANGED <<prompts, pressed, handlers, history, crowded>>

SetPending ==
    /\ loop = "set"
    /\ pending' = [pending EXCEPT ![pressed.chat] = sent]
    /\ loop' = "idle"
    /\ UNCHANGED <<aged, rateHits, pressed, handlers, sent, history, crowded>>

-----------------------------------------------------------------------------
(* handleText *)

Goto(h, label) == at' = [at EXCEPT ![h] = label]

Get(h) ==
    /\ at[h] = "get"
    /\ GetPending(chat[h])
    /\ IF Fresh(chat[h])
       THEN Goto(h, "clear") /\ taken' = [taken EXCEPT ![h] = pending[chat[h]]]
       ELSE Goto(h, "idle") /\ UNCHANGED taken
    /\ UNCHANGED <<aged, rateHits, loop, pressed, chat, writer, sent, history, crowded>>

(* Whatever is pending by now. *)
Clear(h) ==
    /\ at[h] = "clear"
    /\ ClearPending(chat[h])
    /\ Goto(h, "count")
    /\ UNCHANGED <<aged, rateHits, loop, pressed, chat, writer, taken, sent, history,
                   crowded>>

(* The text is two dates, or it is not; if it is, a search is counted and   *)
(* made, which changes nothing here.                                        *)
Count(h) ==
    /\ at[h] = "count"
    /\ \/ /\ ConsumeRate(writer[h])
          /\ searched' = searched \cup {taken[h]}
          /\ twice' = IF taken[h] \in searched THEN twice \cup {chat[h]} ELSE twice
       \/ UNCHANGED <<rateHits, history>>
    /\ Goto(h, "idle")
    /\ taken' = [taken EXCEPT ![h] = NoPrompt]
    /\ UNCHANGED <<pending, aged, loop, pressed, chat, writer, sent, crowded>>

(* A new process knows of no prompt and no search. *)
Restart ==
    /\ pending' = [c \in Chats |-> NoPrompt]
    /\ rateHits' = [u \in Users |-> 0]
    /\ loop' = "idle"
    /\ at' = [h \in Handlers |-> "idle"]
    /\ taken' = [h \in Handlers |-> NoPrompt]
    /\ UNCHANGED <<aged, pressed, chat, writer, sent, history, crowded>>

Update(c) ==
    \/ \E u \in Members[c] :
          Press(c, u) \/ \E h \in Handlers : Text(h, c, u)
    \/ Command(c)

HandleCallback == Rate \/ Old \/ Send \/ SetPending
HandleText(h) == Get(h) \/ Clear(h) \/ Count(h)

Next ==
    \/ \E p \in Prompts : PromptAges(p)
    \/ \E u \in Users : HitAges(u)
    \/ Cleanup
    \/ \E c \in Chats : Update(c)
    \/ HandleCallback
    \/ \E h \in Handlers : HandleText(h)
    \/ Restart

Spec == Init /\ [][Next]_vars

-----------------------------------------------------------------------------
(* A prompt gives one search, be it replaced, expired, cancelled or         *)
(* answered; two only in a chat where a message came while another one was  *)
(* still being handled: both can find the prompt before either clears it.   *)
OneSearchPerPrompt == twice \subseteq crowded

(* The limit is checked when the button is pressed and counted, for whoever *)
(* answers, when the dates come.  For a user who writes to the bot in one   *)
(* private chat, waiting for an answer before the next message, it is       *)
(* exact, however prompts are left, cancelled and asked for anew.           *)
Private(u, c) ==
    /\ Members[c] = {u} /\ c # AdminChat
    /\ \A d \in Chats : u \in Members[d] => d = c

LimitHolds ==
    \A u \in Users, c \in Chats :
        Private(u, c) /\ c \notin crowded => rateHits[u] <= RateMax

(* A prompt that was asked for and has not expired is there until it is     *)
(* answered, cancelled by a command or replaced by a newer one: nothing     *)
(* that goes on in another chat or at the ticker's cleanup takes it away.   *)
PromptStays ==
    [][\A c \in Chats :
          Fresh(c) /\ pending'[c] # pending[c] =>
              \/ pending'[c] > pending[c]
              \/ \E h \in Handlers : taken[h] = pending[c]
              \/ Command(c) \/ Restart
              \/ c \in crowded]_vars
=============================================================================
