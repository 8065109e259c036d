------------------------ MODULE FlightPromptsProofs -------------------------
(***************************************************************************)
(* Proofs about module FlightPrompts, for any chats, users and members of  *)
(* chats, any number of text messages at a time, of prompts, and any       *)
(* limit: in a chat in which everybody waits for his last message to be    *)
(* handled, a prompt stays, gives one search, and the limit holds.         *)
(***************************************************************************)
EXTENDS FlightPrompts, TLAPS

-----------------------------------------------------------------------------
(* The inductive invariant. *)

(* Prompts are numbered in the order they are sent: the one that is sent    *)
(* and not yet pending is new.                                              *)
Numbered ==
    /\ \A c \in Chats : pending[c] <= sent
    /\ \A h \in Handlers : taken[h] <= sent
    /\ \A p \in searched : p <= sent
    /\ loop = "set" =>
         /\ sent > 0 /\ sent \notin searched
         /\ \A c \in Chats : pending[c] # sent
         /\ \A h \in Handlers : taken[h] # sent

(* A handler that has taken a prompt answers it; whoever writes or presses  *)
(* a button is a member of the chat.                                        *)
Handling ==
    /\ \A h \in Handlers :
         /\ taken[h] # NoPrompt <=> at[h] \in {"clear", "count"}
         /\ at[h] # "idle" => writer[h] \in Members[chat[h]]
    /\ loop # "idle" => pressed.user \in Members[pressed.chat]

(* A prompt is of one chat. *)
OfOneChat ==
    /\ \A c, d \in Chats : pending[c] # NoPrompt /\ pending[c] = pending[d] => c = d
    /\ \A h \in Handlers, c \in Chats :
         taken[h] # NoPrompt /\ taken[h] = pending[c] => chat[h] = c
    /\ \A h, g \in Handlers :
         taken[h] # NoPrompt /\ taken[h] = taken[g] => chat[h] = chat[g]

(* Where everybody waits, one message is handled at a time. *)
TakingTurns ==
    /\ \A h, g \in Handlers :
         h # g /\ at[h] # "idle" /\ at[g] # "idle" /\ chat[h] = chat[g]
           => chat[h] \in crowded
    /\ \A h \in Handlers :
         at[h] # "idle" /\ loop # "idle" /\ pressed.chat = chat[h] => chat[h] \in crowded

(* A prompt that has been answered is not pending any more; where everybody *)
(* waits, it is the one that was pending that is cleared.                   *)
Answered ==
    /\ \A h \in Handlers :
         /\ at[h] = "clear" /\ chat[h] \notin crowded
              => pending[chat[h]] \in {taken[h], NoPrompt}
         /\ at[h] = "count" => pending[chat[h]] # taken[h]
         /\ at[h] = "count" /\ chat[h] \notin crowded => pending[chat[h]] = NoPrompt
         /\ taken[h] \in searched => chat[h] \in crowded
    /\ \A c \in Chats : pending[c] \in searched => c \in crowded

(* A search has been granted in chat c and not yet been counted. *)
GrantedIn(c) ==
    \/ pending[c] # NoPrompt
    \/ loop \in {"old", "send", "set"} /\ pressed.chat = c
    \/ \E h \in Handlers : chat[h] = c /\ at[h] \in {"clear", "count"}

(* What has been granted is within the limit. *)
WithinLimit ==
    \A u \in Users, c \in Chats :
        Private(u, c) /\ c \notin crowded /\ GrantedIn(c) => rateHits[u] < RateMax

Inv ==
    /\ TypeOK
    /\ Numbered
    /\ Handling
    /\ OfOneChat
    /\ TakingTurns
    /\ Answered
    /\ OneSearchPerPrompt
    /\ WithinLimit
    /\ LimitHolds

-----------------------------------------------------------------------------
(* Type correctness. *)

LEMMA SomeChatAndUser == AnyChat \in Chats /\ AnyUser \in Users
BY ChatsAssumption DEF AnyChat, AnyUser

LEMMA TypeInit == Init => TypeOK
<1> SUFFICES ASSUME Init PROVE TypeOK
  OBVIOUS
<1> USE SomeChatAndUser, BoundsAssumption DEF Init, TypeOK, Prompts, NoPrompt
<1>1. /\ pending \in [Chats -> Prompts \cup {NoPrompt}]
      /\ rateHits \in [Users -> Nat]
      /\ sent \in 0 .. MaxPrompts
  OBVIOUS
<1>2. /\ pressed \in [chat : Chats, user : Users]
      /\ at \in [Handlers -> {"idle", "get", "clear", "count"}]
      /\ chat \in [Handlers -> Chats]
      /\ writer \in [Handlers -> Users]
      /\ taken \in [Handlers -> Prompts \cup {NoPrompt}]
  OBVIOUS
<1>3. QED
  BY <1>1, <1>2

(* Only a prompt that was sent becomes pending, and only one that was taken *)
(* is searched for.                                                         *)
LEMMA TypeStep == TypeOK /\ Numbered /\ Handling /\ [Next]_vars => TypeOK'
<1> SUFFICES ASSUME TypeOK, Numbered, Handling, [Next]_vars PROVE TypeOK'
  OBVIOUS
<1> USE BoundsAssumption, ChatsAssumption DEF prompts, handlers, history
<1>1. CASE UNCHANGED vars
  BY <1>1 DEF vars, TypeOK
<1>2. ASSUME NEW p \in Prompts, PromptAges(p) PROVE TypeOK'
  BY <1>2 DEF PromptAges, TypeOK
<1>3. ASSUME NEW u \in Users, HitAges(u) PROVE TypeOK'
  BY <1>3 DEF HitAges, TypeOK
<1>4. CASE Cleanup
  BY <1>4 DEF Cleanup, TypeOK
<1>5. ASSUME NEW c \in Chats, NEW u \in Members[c], Press(c, u) PROVE TypeOK'
  <2>1. pressed' \in [chat : Chats, user : Users] /\ crowded' \subseteq Chats /\ loop' = "rate"
    BY <1>5 DEF Press, Crowd, TypeOK
  <2>2. QED
    BY <1>5, <2>1 DEF Press, TypeOK
<1>6. ASSUME NEW h \in Handlers, NEW c \in Chats, NEW u \in Members[c], Text(h, c, u)
      PROVE  TypeOK'
  <2>1. u \in Users /\ crowded' \subseteq Chats
    BY <1>6 DEF Text, Crowd, TypeOK
  <2>2. QED
    BY <1>6, <2>1 DEF Text, TypeOK
<1>7. ASSUME NEW c \in Chats, Command(c) PROVE TypeOK'
  BY <1>7 DEF Command, ClearPending, TypeOK
<1>8. CASE Rate
  BY <1>8 DEF Rate, TypeOK
<1>9. CASE Old
  BY <1>9 DEF Old, GetPending, TypeOK
<1>10. CASE Send
  BY <1>10 DEF Send, TypeOK
<1>11. CASE SetPending
  <2>1. sent \in Prompts
    BY <1>11 DEF SetPending, Numbered, TypeOK, Prompts
  <2>2. QED
    BY <1>11, <2>1 DEF SetPending, TypeOK
<1>12. ASSUME NEW h \in Handlers, Get(h) PROVE TypeOK'
  BY <1>12 DEF Get, GetPending, Goto, TypeOK
<1>13. ASSUME NEW h \in Handlers, Clear(h) PROVE TypeOK'
  BY <1>13 DEF Clear, ClearPending, Goto, TypeOK
<1>14. ASSUME NEW h \in Handlers, Count(h) PROVE TypeOK'
  <2>1. rateHits' \in [Users -> Nat]
    BY <1>14 DEF Count, ConsumeRate, TypeOK
  <2>2. /\ at' \in [Handlers -> {"idle", "get", "clear", "count"}]
        /\ taken' \in [Handlers -> Prompts \cup {NoPrompt}]
    BY <1>14 DEF Count, Goto, TypeOK
  <2>3. twice' \subseteq Chats
    BY <1>14 DEF Count, TypeOK
  <2>4. searched' \subseteq Prompts
    <3>1. taken[h] \in Prompts
      BY <1>14 DEF Count, Handling, TypeOK
    <3>2. QED
      BY <1>14, <3>1 DEF Count, TypeOK
  <2>5. QED
    BY <1>14, <2>1, <2>2, <2>3, <2>4 DEF Count, TypeOK
<1>15. CASE Restart
  BY <1>15 DEF Restart, TypeOK
<1>16. QED
  BY <1>1, <1>2, <1>3, <1>4, <1>5, <1>6, <1>7, <1>8, <1>9, <1>10, <1>11, <1>12, <1>13,
     <1>14, <1>15 DEF Next, Update, HandleCallback, HandleText

-----------------------------------------------------------------------------
(* Every step keeps the invariant. *)

LEMMA InvInit == Init => Inv
<1> SUFFICES ASSUME Init PROVE Inv
  OBVIOUS
<1>1. Numbered /\ Handling /\ OfOneChat /\ TakingTurns /\ Answered /\ OneSearchPerPrompt
  BY DEF Init, Numbered, Handling, OfOneChat, TakingTurns, Answered, OneSearchPerPrompt,
         NoPrompt
<1>2. WithinLimit /\ LimitHolds
  BY BoundsAssumption DEF Init, WithinLimit, LimitHolds
<1>3. QED
  BY <1>1, <1>2, TypeInit DEF Inv

(* A step that at most forgets prompts and hits and ends what the loop does *)
(* or, from "old", goes on with it.                                         *)
LEMMA ForgettingStep ==
    ASSUME Inv, TypeOK', UNCHANGED <<pressed, handlers, sent, history, crowded>>,
           \A c \in Chats : pending'[c] \in {pending[c], NoPrompt},
           \A u \in Users : rateHits'[u] <= rateHits[u],
           loop' \in {loop, "idle"} \/ (loop = "old" /\ loop' = "send")
    PROVE  Inv'
<1> USE DEF Inv, handlers, history
<1>1. Numbered'
  BY DEF Numbered, TypeOK, NoPrompt
<1>2. Handling'
  BY DEF Handling
<1>3. OfOneChat'
  BY DEF OfOneChat, TypeOK
<1>4. TakingTurns'
  BY DEF TakingTurns
<1>5. Answered'
  BY DEF Answered, Handling, TypeOK, NoPrompt, Prompts
<1>6. OneSearchPerPrompt'
  BY DEF OneSearchPerPrompt
<1>7. \A c \in Chats : GrantedIn(c)' => GrantedIn(c)
  BY DEF GrantedIn
<1>8. WithinLimit'
  <2>1. SUFFICES ASSUME NEW u \in Users, NEW c \in Chats,
                        Private(u, c), c \notin crowded, GrantedIn(c)'
                 PROVE  rateHits'[u] < RateMax
    BY DEF WithinLimit, Private
  <2>2. rateHits[u] < RateMax
    BY <1>7, <2>1 DEF WithinLimit
  <2>3. rateHits'[u] <= rateHits[u] /\ rateHits[u] \in Nat /\ rateHits'[u] \in Nat
    BY DEF TypeOK
  <2>4. QED
    BY <2>2, <2>3, BoundsAssumption
<1>9. LimitHolds'
  BY BoundsAssumption DEF LimitHolds, Private, TypeOK
<1>10. QED
  BY <1>1, <1>2, <1>3, <1>4, <1>5, <1>6, <1>8, <1>9

(* A button is pressed: a run of the loop begins. *)
LEMMA PressStep ==
    ASSUME Inv, TypeOK', NEW c \in Chats, NEW u \in Members[c], Press(c, u)
    PROVE  Inv'
<1>1. /\ loop = "idle" /\ loop' = "rate" /\ pressed' = [chat |-> c, user |-> u]
      /\ UNCHANGED <<pending, aged, rateHits, at, chat, writer, taken, sent, searched, twice>>
  BY DEF Press, prompts, handlers, history
<1>2. /\ crowded \subseteq crowded'
      /\ \A h \in Handlers : at[h] # "idle" /\ chat[h] = c => c \in crowded'
  BY DEF Press, Crowd
<1> USE <1>1, <1>2 DEF Inv
<1>3. Numbered' /\ Handling' /\ OfOneChat'
  BY DEF Numbered, Handling, OfOneChat
<1>4. TakingTurns'
  BY DEF TakingTurns
<1>5. Answered' /\ OneSearchPerPrompt'
  BY DEF Answered, OneSearchPerPrompt
<1>6. \A d \in Chats : GrantedIn(d)' => GrantedIn(d)
  BY DEF GrantedIn
<1>7. WithinLimit' /\ LimitHolds'
  BY <1>6 DEF WithinLimit, LimitHolds, Private
<1>8. QED
  BY <1>3, <1>4, <1>5, <1>7

(* A text message comes: a handler begins. *)
LEMMA TextStep ==
    ASSUME Inv, TypeOK', NEW h \in Handlers, NEW c \in Chats, NEW u \in Members[c],
           Text(h, c, u)
    PROVE  Inv'
<1>1. /\ loop = "idle" /\ at[h] = "idle"
      /\ UNCHANGED <<pending, aged, rateHits, loop, pressed, taken, sent, searched, twice>>
  BY DEF Text, prompts, history
<1>2. /\ crowded \subseteq crowded'
      /\ \A g \in Handlers : at[g] # "idle" /\ chat[g] = c => c \in crowded'
  BY DEF Text, Crowd
<1>3. at'[h] = "get" /\ chat'[h] = c /\ writer'[h] = u
  BY DEF Text, Inv, TypeOK
<1>4. \A g \in Handlers : g # h => at'[g] = at[g] /\ chat'[g] = chat[g] /\ writer'[g] = writer[g]
  BY DEF Text, Inv, TypeOK
<1>5. taken[h] = NoPrompt
  BY <1>1 DEF Inv, Handling, TypeOK
<1> USE <1>1, <1>2, <1>3, <1>4, <1>5 DEF Inv
<1>6. Numbered'
  BY DEF Numbered
<1>7. Handling'
  BY DEF Handling
<1>8. OfOneChat'
  BY DEF OfOneChat
<1>9. TakingTurns'
  BY DEF TakingTurns
<1>10. Answered' /\ OneSearchPerPrompt'
  BY DEF Answered, OneSearchPerPrompt, NoPrompt, TypeOK, Prompts
<1>11. \A d \in Chats : GrantedIn(d)' => GrantedIn(d)
  BY DEF GrantedIn
<1>12. WithinLimit' /\ LimitHolds'
  BY <1>11 DEF WithinLimit, LimitHolds, Private
<1>13. QED
  BY <1>6, <1>7, <1>8, <1>9, <1>10, <1>12

(* The rate is checked: a search is granted, if the user has one left. *)
LEMMA RateStep ==
    ASSUME Inv, TypeOK', Rate
    PROVE  Inv'
<1>1. CASE loop' = "idle"
  BY <1>1, ForgettingStep DEF Rate, prompts, Inv, TypeOK
<1>2. CASE loop' = "old"
  <2>1. /\ loop = "rate" /\ (pressed.chat = AdminChat \/ rateHits[pressed.user] < RateMax)
        /\ UNCHANGED <<prompts, pressed, handlers, sent, history, crowded>>
    BY <1>2 DEF Rate, CanRate
  <2> USE <1>2, <2>1 DEF prompts, handlers, history, Inv
  <2>2. Numbered' /\ Handling' /\ OfOneChat' /\ TakingTurns'
    BY DEF Numbered, Handling, OfOneChat, TakingTurns
  <2>3. Answered' /\ OneSearchPerPrompt' /\ LimitHolds'
    BY DEF Answered, OneSearchPerPrompt, LimitHolds, Private
  <2>4. WithinLimit'
    <3>1. SUFFICES ASSUME NEW u \in Users, NEW c \in Chats,
                          Private(u, c), c \notin crowded, GrantedIn(c)'
                   PROVE  rateHits[u] < RateMax
      BY DEF WithinLimit, Private
    <3>2. CASE GrantedIn(c)
      BY <3>1, <3>2 DEF WithinLimit
    <3>3. CASE ~GrantedIn(c)
      <4>1. pressed.chat = c
        BY <3>1, <3>3 DEF GrantedIn
      <4>2. pressed.user = u
        BY <3>1, <4>1 DEF Handling, Private
      <4>3. QED
        BY <3>1, <4>1, <4>2 DEF Private
    <3>4. QED
      BY <3>2, <3>3
  <2>5. QED
    BY <2>2, <2>3, <2>4
<1>3. QED
  BY <1>1, <1>2 DEF Rate

(* A prompt is sent. *)
LEMMA SendStep ==
    ASSUME Inv, TypeOK', Send
    PROVE  Inv'
<1>1. CASE loop' = "idle" /\ UNCHANGED sent
  BY <1>1, ForgettingStep DEF Send, prompts, Inv, TypeOK
<1>2. CASE sent' = sent + 1 /\ loop' = "set"
  <2>1. /\ loop = "send"
        /\ UNCHANGED <<prompts, pressed, handlers, history, crowded>>
    BY DEF Send
  <2> USE <1>2, <2>1 DEF prompts, handlers, history, Inv
  <2>2. Numbered'
    BY DEF Numbered, TypeOK, Prompts, NoPrompt
  <2>3. Handling' /\ OfOneChat' /\ TakingTurns'
    BY DEF Handling, OfOneChat, TakingTurns
  <2>4. Answered' /\ OneSearchPerPrompt' /\ LimitHolds'
    BY DEF Answered, OneSearchPerPrompt, LimitHolds, Private
  <2>5. \A c \in Chats : GrantedIn(c)' => GrantedIn(c)
    BY DEF GrantedIn
  <2>6. WithinLimit'
    BY <2>5 DEF WithinLimit, Private
  <2>7. QED
    BY <2>2, <2>3, <2>4, <2>6
<1>3. QED
  BY <1>1, <1>2 DEF Send

(* It becomes the one that is pending. *)
LEMMA SetPendingStep ==
    ASSUME Inv, TypeOK', SetPending
    PROVE  Inv'
<1>1. /\ loop = "set" /\ loop' = "idle"
      /\ UNCHANGED <<aged, rateHits, pressed, handlers, sent, history, crowded>>
  BY DEF SetPending
<1>2. pressed.chat \in Chats
  BY DEF Inv, TypeOK
<1>3. /\ pending'[pressed.chat] = sent
      /\ \A c \in Chats : c # pressed.chat => pending'[c] = pending[c]
  BY <1>2 DEF SetPending, Inv, TypeOK
<1>4. /\ sent > 0 /\ sent \notin searched
      /\ \A c \in Chats : pending[c] # sent
      /\ \A h \in Handlers : taken[h] # sent
  BY <1>1 DEF Inv, Numbered
<1> USE <1>1, <1>2, <1>3, <1>4 DEF handlers, history, Inv
<1>5. Numbered'
  BY DEF Numbered, TypeOK
<1>6. Handling' /\ TakingTurns'
  BY DEF Handling, TakingTurns
<1>7. OfOneChat'
  BY DEF OfOneChat
<1>8. Answered' /\ OneSearchPerPrompt'
  BY DEF Answered, TakingTurns, OneSearchPerPrompt, TypeOK
<1>9. \A c \in Chats : GrantedIn(c)' => GrantedIn(c)
  BY DEF GrantedIn
<1>10. WithinLimit' /\ LimitHolds'
  BY <1>9 DEF WithinLimit, LimitHolds, Private
<1>11. QED
  BY <1>5, <1>6, <1>7, <1>8, <1>10

(* A handler finds a prompt, or none. *)
LEMMA GetStep ==
    ASSUME Inv, TypeOK', NEW h \in Handlers, Get(h)
    PROVE  Inv'
<1>1. /\ at[h] = "get" /\ taken[h] = NoPrompt /\ chat[h] \in Chats
      /\ UNCHANGED <<aged, rateHits, loop, pressed, chat, writer, sent, searched, twice, crowded>>
  BY DEF Get, history, Inv, Handling, TypeOK
<1>2. CASE Fresh(chat[h])
  <2>1. UNCHANGED pending /\ pending[chat[h]] # NoPrompt
    BY <1>1, <1>2 DEF Get, GetPending, Fresh, Inv, TypeOK
  <2>2. at'[h] = "clear" /\ \A g \in Handlers : g # h => at'[g] = at[g]
    BY <1>2 DEF Get, Goto, Inv, TypeOK
  <2>3. taken'[h] = pending[chat[h]] /\ \A g \in Handlers : g # h => taken'[g] = taken[g]
    BY <1>2 DEF Get, Inv, TypeOK
  <2> USE <1>1, <2>1, <2>2, <2>3 DEF Inv
  <2>4. Numbered'
    BY DEF Numbered
  <2>5. Handling' /\ TakingTurns'
    BY DEF Handling, TakingTurns
  <2>6. OfOneChat'
    BY DEF OfOneChat, TypeOK
  <2>7. Answered' /\ OneSearchPerPrompt'
    BY DEF Answered, OneSearchPerPrompt, TypeOK
  <2>8. \A c \in Chats : GrantedIn(c)' => GrantedIn(c)
    BY DEF GrantedIn
  <2>9. WithinLimit' /\ LimitHolds'
    BY <2>8 DEF WithinLimit, LimitHolds, Private
  <2>10. QED
    BY <2>4, <2>5, <2>6, <2>7, <2>9
<1>3. CASE ~Fresh(chat[h])
  <2>1. \A c \in Chats : pending'[c] \in {pending[c], NoPrompt}
    BY <1>1, <1>3 DEF Get, GetPending, Inv, TypeOK
  <2>2. at'[h] = "idle" /\ UNCHANGED taken /\ \A g \in Handlers : g # h => at'[g] = at[g]
    BY <1>3 DEF Get, Goto, Inv, TypeOK
  <2> USE <1>1, <2>1, <2>2 DEF Inv
  <2>4. Numbered'
    BY DEF Numbered, TypeOK, NoPrompt
  <2>5. Handling' /\ TakingTurns'
    BY DEF Handling, TakingTurns
  <2>6. OfOneChat'
    BY DEF OfOneChat, TypeOK
  <2>7. Answered' /\ OneSearchPerPrompt'
    BY DEF Answered, Handling, OneSearchPerPrompt, TypeOK, NoPrompt, Prompts
  <2>8. \A c \in Chats : GrantedIn(c)' => GrantedIn(c)
    BY DEF GrantedIn
  <2>9. WithinLimit' /\ LimitHolds'
    BY <2>8 DEF WithinLimit, LimitHolds, Private
  <2>10. QED
    BY <2>4, <2>5, <2>6, <2>7, <2>9
<1>4. QED
  BY <1>2, <1>3

(* A handler clears the prompt of its chat, whichever it is by now. *)
LEMMA ClearStep ==
    ASSUME Inv, TypeOK', NEW h \in Handlers, Clear(h)
    PROVE  Inv'
<1>1. /\ at[h] = "clear" /\ taken[h] # NoPrompt /\ chat[h] \in Chats
      /\ UNCHANGED <<aged, rateHits, loop, pressed, chat, writer, taken, sent, searched, twice, crowded>>
  BY DEF Clear, history, Inv, Handling, TypeOK
<1>2. /\ pending'[chat[h]] = NoPrompt
      /\ \A c \in Chats : pending'[c] \in {pending[c], NoPrompt}
  BY <1>1 DEF Clear, ClearPending, Inv, TypeOK
<1>3. at'[h] = "count" /\ \A g \in Handlers : g # h => at'[g] = at[g]
  BY DEF Clear, Goto, Inv, TypeOK
<1> USE <1>1, <1>2, <1>3 DEF Inv
<1>4. Numbered'
  BY DEF Numbered, TypeOK, NoPrompt
<1>5. Handling' /\ TakingTurns'
  BY DEF Handling, TakingTurns
<1>6. OfOneChat'
  BY DEF OfOneChat, TypeOK
<1>7. Answered' /\ OneSearchPerPrompt'
  BY DEF Answered, Handling, OneSearchPerPrompt, TypeOK, NoPrompt, Prompts
<1>8. \A c \in Chats : GrantedIn(c)' => GrantedIn(c)
  BY DEF GrantedIn
<1>9. WithinLimit' /\ LimitHolds'
  BY <1>8 DEF WithinLimit, LimitHolds, Private
<1>10. QED
  BY <1>4, <1>5, <1>6, <1>7, <1>9

(* A handler makes the search it has taken the prompt for, or does not.     *)
LEMMA CountStep ==
    ASSUME Inv, TypeOK', NEW h \in Handlers, Count(h)
    PROVE  Inv'
<1>1. /\ at[h] = "count" /\ taken[h] # NoPrompt /\ chat[h] \in Chats
      /\ UNCHANGED <<pending, aged, loop, pressed, chat, writer, sent, crowded>>
  BY DEF Count, Inv, Handling, TypeOK
<1>2. at'[h] = "idle" /\ \A g \in Handlers : g # h => at'[g] = at[g]
  BY DEF Count, Goto, Inv, TypeOK
<1>3. taken'[h] = NoPrompt /\ \A g \in Handlers : g # h => taken'[g] = taken[g]
  BY DEF Count, Inv, TypeOK
<1>4. writer[h] \in Members[chat[h]] /\ writer[h] \in Users
  BY <1>1 DEF Inv, Handling, TypeOK
<1>5. searched \subseteq searched' /\ searched' \subseteq searched \cup {taken[h]}
  BY DEF Count, history
<1>6. twice' \subseteq twice \cup {chat[h]} /\ (taken[h] \notin searched => twice' = twice)
  BY DEF Count, history
<1>7. \A u \in Users : u # writer[h] => rateHits'[u] = rateHits[u]
  BY DEF Count, ConsumeRate, Inv, TypeOK
<1>8. rateHits'[writer[h]] \in {rateHits[writer[h]], rateHits[writer[h]] + 1}
  BY <1>4 DEF Count, ConsumeRate, Inv, TypeOK
<1> USE <1>1, <1>2, <1>3, <1>5 DEF Inv
<1>9. Numbered'
  BY DEF Numbered, TypeOK, NoPrompt
<1>10. Handling' /\ TakingTurns'
  BY DEF Handling, TakingTurns
<1>11. OfOneChat'
  BY DEF OfOneChat, TypeOK
<1>12. Answered'
  <2>1. ASSUME NEW g \in Handlers, g # h, taken'[g] \in searched' PROVE chat[g] \in crowded
    <3>1. CASE taken[g] \in searched
      BY <3>1 DEF Answered
    <3>2. CASE taken[g] = taken[h]
      <4>1. chat[g] = chat[h] /\ at[g] # "idle"
        BY <3>2 DEF OfOneChat, Handling
      <4>2. QED
        BY <2>1, <4>1 DEF TakingTurns
    <3>3. QED
      BY <2>1, <3>1, <3>2
  <2>2. ASSUME NEW c \in Chats, pending[c] \in searched' PROVE c \in crowded
    <3>1. CASE pending[c] \in searched
      BY <3>1 DEF Answered
    <3>2. CASE pending[c] = taken[h]
      BY <3>2 DEF OfOneChat, Answered
    <3>3. QED
      BY <2>2, <3>1, <3>2
  <2>3. NoPrompt \notin searched'
    BY DEF TypeOK, NoPrompt, Prompts
  <2>4. QED
    BY <2>1, <2>2, <2>3 DEF Answered
<1>13. OneSearchPerPrompt'
  BY <1>6 DEF Answered, OneSearchPerPrompt
<1>14. \A c \in Chats : GrantedIn(c)' => GrantedIn(c)
  BY DEF GrantedIn
<1>15. GrantedIn(chat[h])
  BY DEF GrantedIn
<1>16. chat[h] \notin crowded => ~GrantedIn(chat[h])'
  BY DEF GrantedIn, Answered, TakingTurns
<1>17. ASSUME NEW u \in Users, NEW c \in Chats, Private(u, c), c \notin crowded
       PROVE  rateHits'[u] <= RateMax /\ (GrantedIn(c)' => rateHits'[u] < RateMax)
  <2>1. rateHits[u] \in Nat /\ RateMax \in Nat
    BY BoundsAssumption DEF TypeOK
  <2>2. CASE u = writer[h]
    <3>1. c = chat[h]
      BY <1>4, <1>17, <2>2 DEF Private
    <3>2. rateHits[u] < RateMax
      BY <1>15, <1>17, <3>1 DEF WithinLimit
    <3>3. QED
      BY <1>8, <1>16, <1>17, <2>1, <2>2, <3>1, <3>2
  <2>3. CASE u # writer[h]
    BY <1>7, <1>14, <1>17, <2>3 DEF WithinLimit, LimitHolds
  <2>4. QED
    BY <2>2, <2>3
<1>18. WithinLimit' /\ LimitHolds'
  BY <1>17 DEF WithinLimit, LimitHolds, Private
<1>19. QED
  BY <1>9, <1>10, <1>11, <1>12, <1>13, <1>18

(* A new process has neither prompts nor searches. *)
LEMMA RestartStep ==
    ASSUME Inv, TypeOK', Restart
    PROVE  Inv'
<1>1. /\ loop' = "idle"
      /\ \A c \in Chats : pending'[c] = NoPrompt
      /\ \A h \in Handlers : at'[h] = "idle" /\ taken'[h] = NoPrompt
      /\ \A u \in Users : rateHits'[u] = 0
      /\ UNCHANGED <<sent, searched, twice, crowded>>
  BY DEF Restart, history
<1> USE <1>1 DEF Inv
<1>2. Numbered' /\ Handling' /\ OfOneChat' /\ TakingTurns'
  BY DEF Numbered, Handling, OfOneChat, TakingTurns, TypeOK, NoPrompt
<1>3. Answered' /\ OneSearchPerPrompt'
  BY DEF Answered, OneSearchPerPrompt, TypeOK, NoPrompt, Prompts
<1>4. WithinLimit' /\ LimitHolds'
  BY BoundsAssumption DEF WithinLimit, LimitHolds
<1>5. QED
  BY <1>2, <1>3, <1>4

LEMMA InvStep == Inv /\ [Next]_vars => Inv'
<1> SUFFICES ASSUME Inv, [Next]_vars PROVE Inv'
  OBVIOUS
<1>0. TypeOK /\ TypeOK'
  BY TypeStep DEF Inv
<1> USE DEF TypeOK, handlers, history
<1>1. CASE UNCHANGED vars
  BY <1>0, <1>1, ForgettingStep DEF vars
<1>2. ASSUME NEW p \in Prompts, PromptAges(p) PROVE Inv'
  BY <1>0, <1>2, ForgettingStep DEF PromptAges
<1>3. ASSUME NEW u \in Users, HitAges(u) PROVE Inv'
  BY <1>0, <1>3, ForgettingStep DEF HitAges
<1>4. CASE Cleanup
  BY <1>0, <1>4, ForgettingStep DEF Cleanup
<1>5. ASSUME NEW c \in Chats, Command(c) PROVE Inv'
  BY <1>0, <1>5, ForgettingStep DEF Command, ClearPending
<1>6. CASE Old
  BY <1>0, <1>6, ForgettingStep DEF Old, GetPending
<1>7. ASSUME NEW c \in Chats, Update(c) PROVE Inv'
  BY <1>0, <1>5, <1>7, PressStep, TextStep DEF Update
<1>8. CASE HandleCallback
  BY <1>0, <1>6, <1>8, RateStep, SendStep, SetPendingStep DEF HandleCallback
<1>9. ASSUME NEW h \in Handlers, HandleText(h) PROVE Inv'
  BY <1>0, <1>9, GetStep, ClearStep, CountStep DEF HandleText
<1>10. CASE Restart
  BY <1>0, <1>10, RestartStep
<1>11. QED
  BY <1>1, <1>2, <1>3, <1>4, <1>7, <1>8, <1>9, <1>10 DEF Next

(* The inductive invariant. *)
THEOREM Invariance == Spec => []Inv
<1>1. QED
  BY InvInit, InvStep, PTL DEF Spec

(* Type correctness: in every behaviour the variables keep their types.     *)
THEOREM TypeCorrect == Spec => []TypeOK
<1>1. Inv => TypeOK
  BY DEF Inv
<1>2. QED
  BY <1>1, Invariance, PTL

(* A prompt gives one search, however it is replaced, expires, is cancelled *)
(* or answered, unless somebody in the chat did not wait (getPending and    *)
(* clearPending are two steps).                                             *)
THEOREM OneSearch == Spec => []OneSearchPerPrompt
<1>1. Inv => OneSearchPerPrompt
  BY DEF Inv
<1>2. QED
  BY <1>1, Invariance, PTL

(* The limit of searches is exact for whoever writes in one private chat    *)
(* and waits, although canRate and consumeRate are two steps and a prompt   *)
(* between them.                                                            *)
THEOREM LimitIsExact == Spec => []LimitHolds
<1>1. Inv => LimitHolds
  BY DEF Inv
<1>2. QED
  BY <1>1, Invariance, PTL

(* A prompt that has not expired is taken away only by an answer, a         *)
(* command, a newer prompt or a restart, unless somebody did not wait.      *)
THEOREM PromptIsKept == Spec => PromptStays
<1> DEFINE Kept(c) ==
             Fresh(c) /\ pending'[c] # pending[c] =>
                 \/ pending'[c] > pending[c]
                 \/ \E h \in Handlers : taken[h] = pending[c]
                 \/ Command(c) \/ Restart
                 \/ c \in crowded
<1>1. Inv /\ [Next]_vars => [\A c \in Chats : Kept(c)]_vars
  <2> SUFFICES ASSUME Inv, Next, NEW c \in Chats, Fresh(c), pending'[c] # pending[c], ~Restart,
                      ~Command(c), c \notin crowded
               PROVE  pending'[c] > pending[c] \/ \E h \in Handlers : taken[h] = pending[c]
    BY DEF vars
  <2> USE DEF Inv
  <2>1. CASE SetPending
    <3>1. pending'[c] = sent
      BY <2>1 DEF SetPending, TypeOK
    <3>2. pending[c] <= sent /\ pending[c] # sent
      BY <2>1, <3>1 DEF SetPending, Numbered
    <3>3. pending[c] \in Nat /\ sent \in Nat
      BY BoundsAssumption DEF TypeOK, Prompts, NoPrompt
    <3>4. QED
      BY <3>1, <3>2, <3>3
  <2>2. ASSUME NEW h \in Handlers, Clear(h)
        PROVE  \E g \in Handlers : taken[g] = pending[c]
    <3>1. at[h] = "clear" /\ chat[h] = c
      BY <2>2 DEF Clear, ClearPending, TypeOK
    <3>2. QED
      BY <3>1 DEF Answered, Fresh
  <2>3. ASSUME NEW h \in Handlers, Get(h) PROVE FALSE
    BY <2>3 DEF Get, GetPending, Fresh, TypeOK
  <2>4. CASE Old
    BY <2>4 DEF Old, GetPending, Fresh, TypeOK
  <2>5. CASE Cleanup
    BY <2>5 DEF Cleanup, Fresh
  <2>6. ASSUME NEW d \in Chats, Command(d) PROVE FALSE
    BY <2>6 DEF Command, ClearPending, TypeOK
  <2>7. CASE \/ Rate \/ Send
             \/ \E p \in Prompts : PromptAges(p)
             \/ \E u \in Users : HitAges(u)
             \/ \E d \in Chats : \E u \in Members[d] : Press(d, u)
             \/ \E d \in Chats : \E u \in Members[d] : \E h \in Handlers : Text(h, d, u)
             \/ \E h \in Handlers : Count(h)
    BY <2>7 DEF Rate, Send, PromptAges, HitAges, Press, Text, Count, prompts
  <2>8. QED
    BY <2>1, <2>2, <2>3, <2>4, <2>5, <2>6, <2>7 DEF Next, Update, HandleCallback, HandleText
<1>2. QED
  BY <1>1, Invariance, PTL DEF Spec, PromptStays
=============================================================================
