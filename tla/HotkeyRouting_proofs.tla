------------------------ MODULE HotkeyRouting_proofs ------------------------
(***************************************************************************)
(* Theorems about HotkeyRouting, for any number of presses, of messages    *)
(* and of generations: the types, that one press does one thing and what   *)
(* it was made for, and that the game is not refused of what is its own.   *)
(*                                                                         *)
(* KeysInv is the inductive invariant.  A press is announced in order and  *)
(* logged once (InOrder, LoggedOnce), so that everything done about it is  *)
(* done by one owner (EffectsMeant); until it is done, the press is in one *)
(* place only: on its way as an event (EventsUndone), or asked for of the  *)
(* host list or the lobby (Requests).  An Escape that is the game's or the *)
(* lobby's finds no panel open when it is handled, because the keys that   *)
(* open one are behind it (EscapeEvents).                                  *)
(***************************************************************************)
EXTENDS HotkeyRouting, SequenceTheorems, FiniteSetTheorems, TLAPS

Messages == Seq([kind : {"down", "up", "F1", "F2", "blur"}, press : 0..MaxInputs])
Hotkeys == Seq([key : {"F1", "F2", "b", "esc"}, gen : Nat, press : 0..MaxInputs])
Generations == Seq([press : 1..MaxInputs, owner : Owners, scene : Scenes])
PanelWords == PanelNames \cup {"hostlist"}

KeysTypes ==
  /\ esc \in [held : BOOLEAN, press : Nat] /\ (esc.held => esc.press > 0)
  /\ bkey \in [held : BOOLEAN, press : Nat]
  /\ inputs \in 0..MaxInputs /\ esc.press + bkey.press <= inputs
  /\ focus \in BOOLEAN
  /\ messages \in Messages /\ Len(messages) <= MaxMessages
  /\ \A i \in 1..Len(messages) : messages[i].kind = "down" => messages[i].press > 0
  /\ read \in [down : BOOLEAN, fresh : 0..MaxInputs]
  /\ log \in Generations
  /\ kb \in [down : BOOLEAN, gen : Nat] /\ kb.gen = Len(log) /\ (kb.down => Len(log) > 0)
  /\ consumed \in 0..Len(log) /\ native \in 0..Len(log)
  /\ events \in Hotkeys
  /\ \A i \in 1..Len(events) :
       events[i].key = "esc" => /\ events[i].gen \in 1..Len(log)
                                /\ events[i].press = log[events[i].gen].press
  /\ ui \in [PanelNames -> BOOLEAN]
  /\ hostlist \in [open : BOOLEAN, exit : 0..MaxInputs] /\ lobbyExit \in 0..MaxInputs
  /\ scene \in Scenes /\ newScene \in Scenes /\ stage \in Steps
  /\ mappedDown \in BOOLEAN /\ blocking \in BOOLEAN /\ inBattle \in BOOLEAN

\* Presses are posted, logged and read in their order: a later message is of the same press
\* or a later one, a key-down behind a release is a later press.
InOrder ==
  /\ read.fresh <= esc.press
  /\ \A i \in 1..Len(messages) : messages[i].press <= esc.press
  /\ \A i, j \in 1..Len(messages) :
       i < j => /\ messages[i].press <= messages[j].press
                /\ messages[i].kind = "up" /\ messages[j].kind = "down"
                     => messages[i].press < messages[j].press
  /\ \A i \in 1..Len(messages) :
       esc.held /\ messages[i].kind = "up" => messages[i].press < esc.press
  /\ \A g \in 1..Len(log) :
       /\ log[g].press <= esc.press
       /\ \A i \in 1..Len(messages) : log[g].press <= messages[i].press

\* A press that may be announced (again) and has its generation is the one that the window
\* believes down, unless the window lost the focus under it: a press has one generation.
Logged(p) == \E g \in 1..Len(log) : log[g].press = p
Announced(p) ==
  \/ esc.held /\ esc.press = p
  \/ \E i \in 1..Len(messages) : messages[i].kind = "down" /\ messages[i].press = p
LoggedOnce ==
  /\ \A p \in Nat \ interrupted :
       Logged(p) /\ Announced(p) => kb.down /\ log[Len(log)].press = p
  /\ \A g, h \in 1..Len(log) :
       log[g].press = log[h].press => g = h \/ log[g].press \in interrupted

\* An Escape on its way that is not for the mod's panels finds none of them open, and comes
\* before the keys that open them; a generation is on its way once.
EscapeEvents ==
  /\ \A i \in 1..Len(events) :
       events[i].key = "esc" /\ log[events[i].gen].owner # "MOD_UI" =>
         ~isInputing /\ \A j \in 1..(i - 1) : events[j].key \notin {"F1", "F2"}
  /\ \A i, j \in 1..Len(events) :
       events[i].key = "esc" /\ events[j].key = "esc" /\ events[i].gen = events[j].gen
         => i = j

\* What an owner's press may do.
OwnerDoes(owner, what) ==
  /\ owner = "NATIVE_GAME" => what = "game"
  /\ owner = "LOBBY" => what = "lobby"
  /\ owner = "MOD_UI" => what \in PanelWords

EffectsShaped ==
  \A e \in effects : \E k \in {"esc", "b"}, p \in Nat, w \in PanelWords \cup {"lobby", "game"} :
    e = <<k, p, w>>
EffectsMeant ==
  \A e \in effects : e[1] = "esc" /\ e[2] \notin Excused =>
    \E g \in 1..Len(log) : log[g].press = e[2] /\ OwnerDoes(log[g].owner, e[3])
EffectsOnce ==
  \A e, f \in effects : 
    e[1] = "esc" /\ f[1] = "esc" /\ e[2] = f[2] /\ e[2] \notin Excused => e = f

\* A press that is not the game's has done nothing while its event is on its way.
EventsUndone ==
  \A i \in 1..Len(events) :
    /\ events[i].key = "esc" /\ events[i].press \notin Excused
    /\ log[events[i].gen].owner # "NATIVE_GAME"
    => Done(events[i].press) = {}

\* A press that has asked for the host list's or the lobby's end has done nothing yet, and
\* has no event any more.
Requested(p, owner) ==
  p # 0 /\ p \notin Excused =>
    /\ \E g \in 1..Len(log) : log[g].press = p /\ log[g].owner = owner
    /\ Done(p) = {}
    /\ \A i \in 1..Len(events) : events[i].key = "esc" => events[i].press # p
Requests == Requested(hostlist.exit, "MOD_UI") /\ Requested(lobbyExit, "LOBBY")

\* The scene asked for is the scene, until the game's own code has run; a press that is
\* later than the one the game reads was made in this scene.
SceneOfFrame ==
  /\ \/ newScene = scene \/ stage = "keys"
     \/ scene # "select" /\ stage \in {"list", "chat", "chatting", "leave", "closed"}
  /\ \A g \in 1..Len(log) :
       read.fresh # 0 /\ log[g].press > read.fresh => log[g].scene = scene

\* Why the game would be refused of a press that is its own: it got it before, or was
\* refused it when it was not due, or is past asking about it.
NativeAnswers(p) == p \in early \/ Done(p) # {}
ConsumedAnswers(p) ==
  <<p, FALSE>> \in refused \/ Done(p) # {} \/ (p < esc.press /\ p # read.fresh)
GameAnswered ==
  /\ native # 0 => NativeAnswers(log[native].press)
  /\ consumed # 0 /\ log[consumed].owner = "NATIVE_GAME" => ConsumedAnswers(log[consumed].press)

\* The B of this press is blocked from the game once it has met the picker.
PickerHidesB ==
  /\ \A i \in 1..Len(events) :
       events[i].key = "b" => /\ events[i].press <= bkey.press
                              /\ events[i].press = bkey.press /\ bkey.held => blocking
  /\ \A e \in effects :
       e[1] = "b" => /\ e[2] <= bkey.press /\ e[3] = "picker"
                     /\ e[2] = bkey.press /\ bkey.held => blocking

\* The inductive invariant.
KeysInv ==
  /\ KeysTypes /\ InOrder /\ LoggedOnce /\ EscapeEvents
  /\ EffectsShaped /\ EffectsMeant /\ EffectsOnce /\ EventsUndone /\ Requests
  /\ SceneOfFrame /\ GameAnswered /\ PickerHidesB
  /\ EscapeReachesTheGame

\* The bounds are numbers.
LEMMA KeyBounds == MaxInputs \in Nat /\ MaxMessages \in Nat
BY KeysAssumption DEF KeysAssumption

\* What Append and Tail make of a sequence, index by index.
LEMMA AppendedAt ==
  ASSUME NEW S, NEW s \in Seq(S), NEW e \in S, NEW t, t = Append(s, e)
  PROVE  /\ t \in Seq(S) /\ Len(t) = Len(s) + 1 /\ t[Len(s) + 1] = e
         /\ \A i \in 1..Len(s) : t[i] = s[i]
BY AppendProperties

\* What stands where in the rest of a sequence.
LEMMA TailAt ==
  ASSUME NEW S, NEW s \in Seq(S), s # <<>>, NEW t, t = Tail(s)
  PROVE  /\ t \in Seq(S) /\ Len(t) = Len(s) - 1 /\ Len(s) \in Nat \ {0}
         /\ \A i \in 1..Len(t) : t[i] = s[i + 1] /\ i + 1 \in 1..Len(s)
         /\ Head(s) = s[1] /\ Head(s) \in S
<1>1. Len(s) \in Nat /\ Len(s) # 0
  BY EmptySeq, LenProperties
<1> QED
  BY <1>1, HeadTailProperties, ElementOfSeq

\* The step after one of a frame.
LEMMA NextStep ==
  /\ scene = "title" => /\ After("route") = "native" /\ After("native") = "list"
                        /\ After("chat") = "leave"
  /\ scene = "select" => /\ After("route") = "chat" /\ After("native") = "keys"
                         /\ After("chat") = "native"
  /\ scene = "battle" => /\ After("route") = "native" /\ After("native") = "chat"
                         /\ After("chat") = "keys"
<1>1. ASSUME scene = "title"
      PROVE  After("route") = "native" /\ After("native") = "list" /\ After("chat") = "leave"
  <2> DEFINE f == <<"keys", "route", "native", "list", "chat", "leave">>
  <2>1. FrameCalls[scene] = f
    BY <1>1 DEF FrameCalls
  <2>2. /\ f \in Seq({"keys", "route", "native", "list", "chat", "leave"}) 
        /\ DOMAIN f = 1..6 /\ Len(f) = 6
        /\ f[1] = "keys" /\ f[2] = "route" /\ f[3] = "native" /\ f[4] = "list" 
        /\ f[5] = "chat" /\ f[6] = "leave"
    OBVIOUS
  <2> HIDE DEF f
  <2>3. (CHOOSE k \in DOMAIN f : f[k] = "route") = 2
    BY <2>2
  <2>4. (CHOOSE k \in DOMAIN f : f[k] = "native") = 3
    BY <2>2
  <2>5. (CHOOSE k \in DOMAIN f : f[k] = "chat") = 5
    BY <2>2
  <2> QED
    BY <2>1, <2>2, <2>3, <2>4, <2>5 DEF After
<1>2. ASSUME scene = "select"
      PROVE  After("route") = "chat" /\ After("native") = "keys" /\ After("chat") = "native"
  <2> DEFINE f == <<"keys", "route", "chat", "native">>
  <2>1. FrameCalls[scene] = f
    BY <1>2 DEF FrameCalls
  <2>2. /\ DOMAIN f = 1..4 /\ Len(f) = 4
        /\ f[1] = "keys" /\ f[2] = "route" /\ f[3] = "chat" /\ f[4] = "native" 
    OBVIOUS
  <2> HIDE DEF f
  <2>3. (CHOOSE k \in DOMAIN f : f[k] = "route") = 2
    BY <2>2
  <2>4. (CHOOSE k \in DOMAIN f : f[k] = "native") = 4
    BY <2>2
  <2>5. (CHOOSE k \in DOMAIN f : f[k] = "chat") = 3
    BY <2>2
  <2> QED
    BY <2>1, <2>2, <2>3, <2>4, <2>5 DEF After
<1>3. ASSUME scene = "battle"
      PROVE  After("route") = "native" /\ After("native") = "chat" /\ After("chat") = "keys"
  <2> DEFINE f == <<"keys", "route", "native", "chat">>
  <2>1. FrameCalls[scene] = f
    BY <1>3 DEF FrameCalls
  <2>2. /\ DOMAIN f = 1..4 /\ Len(f) = 4
        /\ f[1] = "keys" /\ f[2] = "route" /\ f[3] = "native" /\ f[4] = "chat" 
    OBVIOUS
  <2> HIDE DEF f
  <2>3. (CHOOSE k \in DOMAIN f : f[k] = "route") = 2
    BY <2>2
  <2>4. (CHOOSE k \in DOMAIN f : f[k] = "native") = 3
    BY <2>2
  <2>5. (CHOOSE k \in DOMAIN f : f[k] = "chat") = 4
    BY <2>2
  <2> QED
    BY <2>1, <2>2, <2>3, <2>4, <2>5 DEF After
<1> QED
  BY <1>1, <1>2, <1>3

\* What a key posts.
LEMMA PostKeepsTypes ==
  ASSUME KeysTypes, esc' \in [held : BOOLEAN, press : Nat], esc'.press <= MaxInputs,
         NEW kind \in {"down", "up", "F1", "F2", "blur"}, Post(kind),
         kind = "down" => esc'.press > 0
  PROVE  /\ messages' \in Messages /\ Len(messages') <= MaxMessages
         /\ \A i \in 1..Len(messages') : messages'[i].kind = "down" => messages'[i].press > 0
<1> DEFINE m == [kind |-> kind, press |-> esc'.press]
           M == [kind : {"down", "up", "F1", "F2", "blur"}, press : 0..MaxInputs]
<1>1. m \in M /\ messages \in Seq(M) /\ Len(messages) < MaxMessages
      /\ messages' = Append(messages, m)
  BY KeyBounds DEF KeysTypes, Messages, Post
<1>2. m.kind = "down" => m.press > 0
  OBVIOUS
<1>3. \A i \in 1..Len(messages) : messages[i].kind = "down" => messages[i].press > 0
  BY DEF KeysTypes
<1> HIDE DEF m, M
<1>4. /\ messages' \in Seq(M) /\ Len(messages') = Len(messages) + 1
      /\ messages'[Len(messages) + 1] = m
      /\ \A i \in 1..Len(messages) : messages'[i] = messages[i]
  BY <1>1, AppendedAt
<1>5. Len(messages) \in Nat
  BY <1>1, LenProperties
<1>6. Len(messages') <= MaxMessages
  BY <1>1, <1>4, <1>5, KeyBounds
<1>7. \A i \in 1..Len(messages') : i \in 1..Len(messages) \/ i = Len(messages) + 1
  BY <1>4, <1>5
<1> QED
  BY <1>2, <1>3, <1>4, <1>6, <1>7 DEF M, Messages

\* What the player does is of the right type.
LEMMA InputTypesKept ==
  ASSUME KeysTypes,
         \/ PressEscape \/ RepeatEscape \/ ReleaseEscape \/ PressB \/ ReleaseB
         \/ Tap("F1") \/ Tap("F2") \/ SwitchAway \/ SwitchBack
  PROVE  KeysTypes'
<1> USE KeyBounds DEF keyboard, escape, panels, history, KeepProgram
<1>1. UNCHANGED <<read, escape, mappedDown, blocking, events, panels, scene, newScene, stage,
                  history>>
  BY DEF PressEscape, RepeatEscape, ReleaseEscape, PressB, ReleaseB, Tap, SwitchAway, SwitchBack
<1>2. /\ esc' \in [held : BOOLEAN, press : Nat] /\ (esc'.held => esc'.press > 0)
      /\ bkey' \in [held : BOOLEAN, press : Nat]
      /\ inputs' \in 0..MaxInputs /\ esc'.press + bkey'.press <= inputs'
      /\ focus' \in BOOLEAN
  <2>0. /\ esc \in [held : BOOLEAN, press : Nat] /\ (esc.held => esc.press > 0)
        /\ bkey \in [held : BOOLEAN, press : Nat]
        /\ inputs \in 0..MaxInputs /\ esc.press + bkey.press <= inputs
        /\ focus \in BOOLEAN
    BY DEF KeysTypes
  <2>1. CASE PressEscape
    BY <2>0, <2>1 DEF PressEscape, Count
  <2>2. CASE RepeatEscape
    BY <2>0, <2>2 DEF RepeatEscape
  <2>3. CASE ReleaseEscape
    BY <2>0, <2>3 DEF ReleaseEscape
  <2>4. CASE PressB \/ ReleaseB
    <3>1. UNCHANGED <<esc, focus>>
      BY <2>4 DEF PressB, ReleaseB
    <3>2. /\ bkey' \in [held : BOOLEAN, press : Nat]
          /\ inputs' \in 0..MaxInputs /\ bkey'.press - bkey.press <= inputs' - inputs
      <4>1. CASE PressB
        <5>1. bkey' = [held |-> TRUE, press |-> bkey.press + 1]
              /\ inputs' = inputs + 1 /\ inputs < MaxInputs
          BY <4>1 DEF PressB, Count
        <5>2. bkey' \in [held : BOOLEAN, press : Nat] /\ bkey'.press = bkey.press + 1
          BY <2>0, <5>1
        <5> QED
          BY <2>0, <5>1, <5>2
      <4>2. CASE ReleaseB
        <5>1. bkey' = [bkey EXCEPT !.held = FALSE] /\ inputs' = inputs
          BY <4>2 DEF ReleaseB
        <5>2. bkey' \in [held : BOOLEAN, press : Nat] /\ bkey'.press = bkey.press
          BY <2>0, <5>1
        <5> QED
          BY <2>0, <5>1, <5>2
      <4> QED
        BY <2>4, <4>1, <4>2
    <3> QED
      BY <2>0, <3>1, <3>2
  <2>5. CASE Tap("F1") \/ Tap("F2") \/ SwitchAway \/ SwitchBack
    <3>1. /\ esc' = esc /\ bkey' = bkey /\ focus' \in BOOLEAN
          /\ inputs' = inputs \/ (inputs < MaxInputs /\ inputs' = inputs + 1)
      <4>1. CASE Tap("F1") \/ Tap("F2")
        BY <2>0, <4>1 DEF Tap, Count
      <4>2. CASE SwitchAway
        BY <2>0, <4>2 DEF SwitchAway, Count
      <4>3. CASE SwitchBack
        <5>1. focus' = TRUE /\ esc' = esc /\ bkey' = bkey /\ inputs' = inputs
          BY <4>3 DEF SwitchBack
        <5> QED
          BY <5>1
      <4> QED
        BY <2>5, <4>1, <4>2, <4>3
    <3>2. inputs' \in 0..MaxInputs /\ inputs <= inputs'
      BY <2>0, <3>1
    <3> QED
      BY <2>0, <3>1, <3>2
  <2> QED
    BY <2>1, <2>2, <2>3, <2>4, <2>5
<1>3. esc'.press <= MaxInputs
  BY <1>2
<1>4. /\ messages' \in Messages /\ Len(messages') <= MaxMessages
      /\ \A i \in 1..Len(messages') : messages'[i].kind = "down" => messages'[i].press > 0
  <2>1. CASE UNCHANGED messages
    BY <2>1 DEF KeysTypes
  <2>2. CASE PressEscape
    <3>1. Post("down") /\ esc'.press > 0
      BY <2>2 DEF PressEscape, KeysTypes
    <3> QED
      BY <1>2, <1>3, <3>1, PostKeepsTypes
  <2>3. CASE RepeatEscape
    <3>1. Post("down") /\ esc'.press > 0
      BY <2>3 DEF RepeatEscape, KeysTypes
    <3> QED
      BY <1>2, <1>3, <3>1, PostKeepsTypes
  <2>4. CASE ReleaseEscape
    <3>1. Post("up") \/ UNCHANGED messages
      BY <2>4 DEF ReleaseEscape
    <3> QED
      BY <1>2, <1>3, <2>1, <3>1, PostKeepsTypes
  <2>5. CASE PressB \/ ReleaseB \/ SwitchBack
    BY <2>1, <2>5 DEF PressB, ReleaseB, SwitchBack
  <2>6. CASE Tap("F1")
    BY <1>2, <1>3, <2>6, PostKeepsTypes DEF Tap
  <2>7. CASE Tap("F2")
    BY <1>2, <1>3, <2>7, PostKeepsTypes DEF Tap
  <2>8. CASE SwitchAway
    BY <1>2, <1>3, <2>8, PostKeepsTypes DEF SwitchAway
  <2> QED
    BY <2>2, <2>3, <2>4, <2>5, <2>6, <2>7, <2>8
<1> QED
  BY <1>1, <1>2, <1>4 DEF KeysTypes

\* So is what the window procedure makes of a message.
LEMMA MessageTypesKept ==
  ASSUME KeysTypes, WindowMessage
  PROVE  KeysTypes'
<1> USE KeyBounds DEF keyboard, escape, panels, history
<1> DEFINE m == Head(messages)
           M == [kind : {"down", "up", "F1", "F2", "blur"}, press : 0..MaxInputs]
           H == [key : {"F1", "F2", "b", "esc"}, gen : Nat, press : 0..MaxInputs]
           P == [press : 1..MaxInputs, owner : Owners, scene : Scenes]
<1>1. UNCHANGED <<keyboard, read, blocking, consumed, native, panels, scene, newScene, stage>>
  BY DEF WindowMessage
<1>2. messages \in Seq(M) /\ messages # <<>> /\ messages' = Tail(messages)
  BY DEF WindowMessage, KeysTypes, Messages
<1>3. \A i \in 1..Len(messages) : messages[i].kind = "down" => messages[i].press > 0
  BY DEF KeysTypes
<1>4. /\ events \in Seq(H) /\ log \in Seq(P) /\ Len(log) \in Nat
      /\ kb \in [down : BOOLEAN, gen : Nat] /\ kb.gen = Len(log) /\ (kb.down => Len(log) > 0)
      /\ consumed \in 0..Len(log) /\ native \in 0..Len(log)
      /\ \A i \in 1..Len(events) :
           events[i].key = "esc" => /\ events[i].gen \in 1..Len(log)
                                    /\ events[i].press = log[events[i].gen].press
      /\ mappedDown \in BOOLEAN /\ scene \in Scenes /\ Len(messages) <= MaxMessages
  BY LenProperties DEF KeysTypes, Hotkeys, Generations
<1> HIDE DEF M, H, P
<1>5. /\ messages' \in Seq(M) /\ Len(messages') = Len(messages) - 1 /\ Len(messages) \in Nat \ {0}
      /\ \A i \in 1..Len(messages') : messages'[i] = messages[i + 1] /\ i + 1 \in 1..Len(messages)
      /\ m = messages[1] /\ m \in M
  BY <1>2, TailAt
<1>6. /\ Len(messages') <= MaxMessages /\ Len(events) \in Nat
      /\ \A i \in 1..Len(messages') : messages'[i].kind = "down" => messages'[i].press > 0
  <2>1. Len(events) \in Nat
    BY <1>4, LenProperties
  <2>2. \A i \in 1..Len(messages') : messages'[i].kind = "down" => messages'[i].press > 0
    BY <1>3, <1>5
  <2> QED
    BY <1>4, <1>5, <2>1, <2>2
<1>7. /\ events' \in Seq(H) /\ log' \in Seq(P)
      /\ kb' \in [down : BOOLEAN, gen : Nat] /\ kb'.gen = Len(log')
      /\ (kb'.down => Len(log') > 0)
      /\ Len(log) <= Len(log') /\ Len(log') \in Nat
      /\ \A i \in 1..Len(events') :
           events'[i].key = "esc" => /\ events'[i].gen \in 1..Len(log')
                                    /\ events'[i].press = log'[events'[i].gen].press
      /\ mappedDown' \in BOOLEAN
  <2>1. CASE m.kind = "down" /\ kb.down
    <3>1. UNCHANGED <<kb, log, events, mappedDown>>
      BY <2>1 DEF WindowMessage, EscapeDown, Repeated
    <3> QED
      BY <1>4, <3>1
  <2>2. CASE m.kind = "down" /\ ~kb.down
    <3> DEFINE g == [press |-> m.press, owner |-> _classifyEscapeOwner, scene |-> scene]
               e == [key |-> "esc", gen |-> Len(log) + 1, press |-> m.press]
    <3>1. /\ log' = Append(log, g) /\ kb' = [down |-> TRUE, gen |-> Len(log) + 1]
          /\ events' = Append(events, e) /\ UNCHANGED mappedDown
      BY <2>2 DEF WindowMessage, EscapeDown, Repeated
    <3>2. g \in P /\ e \in H
      <4>1. m.press \in 1..MaxInputs
        BY <1>3, <1>5, <2>2 DEF M
      <4>2. _classifyEscapeOwner \in Owners
        BY DEF _classifyEscapeOwner, Owners
      <4> QED
        BY <1>4, <4>1, <4>2 DEF P, H
    <3>3. g.press = e.press /\ e.gen = Len(log) + 1
      OBVIOUS
    <3> HIDE DEF g, e
    <3>4. /\ log' \in Seq(P) /\ Len(log') = Len(log) + 1 /\ log'[Len(log) + 1] = g
          /\ \A i \in 1..Len(log) : log'[i] = log[i]
      BY <1>4, <3>1, <3>2, AppendedAt
    <3>5. /\ events' \in Seq(H) /\ Len(events') = Len(events) + 1
          /\ events'[Len(events) + 1] = e
          /\ \A i \in 1..Len(events) : events'[i] = events[i]
      BY <1>4, <3>1, <3>2, AppendedAt
    <3> QED
      BY <1>4, <1>6, <3>1, <3>3, <3>4, <3>5
  <2>3. CASE m.kind = "up"
    <3>1. kb' = [kb EXCEPT !.down = FALSE] /\ UNCHANGED <<log, events, mappedDown>>
      BY <2>3 DEF WindowMessage
    <3>2. /\ kb' \in [down : BOOLEAN, gen : Nat] /\ kb'.gen = Len(log) /\ ~kb'.down
      BY <1>4, <3>1
    <3> QED
      BY <1>4, <3>1, <3>2
  <2>4. CASE m.kind \in {"F1", "F2"}
    <3> DEFINE e == [key |-> m.kind, gen |-> 0, press |-> 0]
    <3>1. events' = Append(events, e) /\ UNCHANGED <<kb, log, mappedDown>>
      BY <2>4 DEF WindowMessage
    <3>2. e \in H /\ e.key # "esc"
      BY <2>4 DEF H
    <3> HIDE DEF e
    <3>3. /\ events' \in Seq(H) /\ Len(events') = Len(events) + 1
          /\ events'[Len(events) + 1] = e
          /\ \A i \in 1..Len(events) : events'[i] = events[i]
      BY <1>4, <3>1, <3>2, AppendedAt
    <3> QED
      BY <1>4, <1>6, <3>1, <3>2, <3>3
  <2>5. CASE m.kind = "blur"
    <3>1. /\ kb' = [kb EXCEPT !.down = FALSE] /\ mappedDown' = FALSE /\ events' = <<>>
          /\ UNCHANGED log
      BY <2>5 DEF WindowMessage
    <3>2. /\ kb' \in [down : BOOLEAN, gen : Nat] /\ kb'.gen = Len(log) /\ ~kb'.down
      BY <1>4, <3>1
    <3>3. events' \in Seq(H) /\ Len(events') = 0
      BY <3>1
    <3>4. \A i \in 1..Len(events') : FALSE
      BY <3>3
    <3>5. log' = log /\ mappedDown' \in BOOLEAN
      BY <3>1
    <3> QED
      BY <1>4, <3>2, <3>3, <3>4, <3>5
  <2> QED
    BY <1>5, <2>1, <2>2, <2>3, <2>4, <2>5 DEF M
<1>8. consumed' \in 0..Len(log') /\ native' \in 0..Len(log')
  BY <1>1, <1>4, <1>7
<1>9. /\ esc' \in [held : BOOLEAN, press : Nat] /\ (esc'.held => esc'.press > 0)
      /\ bkey' \in [held : BOOLEAN, press : Nat]
      /\ inputs' \in 0..MaxInputs /\ esc'.press + bkey'.press <= inputs'
      /\ focus' \in BOOLEAN /\ read' \in [down : BOOLEAN, fresh : 0..MaxInputs]
      /\ ui' \in [PanelNames -> BOOLEAN]
      /\ hostlist' \in [open : BOOLEAN, exit : 0..MaxInputs] /\ lobbyExit' \in 0..MaxInputs
      /\ scene' \in Scenes /\ newScene' \in Scenes /\ stage' \in Steps
      /\ blocking' \in BOOLEAN /\ inBattle' \in BOOLEAN
  BY <1>1 DEF KeysTypes
<1> QED
  BY <1>5, <1>6, <1>7, <1>8, <1>9 DEF KeysTypes, M, H, P, Messages, Hotkeys, Generations

\* What comes after a step of a frame is one.
LEMMA StepAfter ==
  ASSUME KeysTypes
  PROVE  After("route") \in Steps /\ After("native") \in Steps /\ After("chat") \in Steps
BY NextStep DEF KeysTypes, Scenes, Steps

FrameSteps ==
  \/ EnterRouting("route", "routing") \/ EnterRouting("chat", "chatting") \/ Routed
  \/ Chat \/ AskEscape \/ Native \/ UpdateHostlist \/ LeaveOrWalk

\* The other steps of a frame keep the types: what they assign is made of what there is.
LEMMA FrameTypesKept ==
  ASSUME KeysTypes, FrameSteps
  PROVE  KeysTypes'
<1> USE KeyBounds DEF keyboard, escape, panels, history
<1>1. UNCHANGED <<esc, bkey, focus, messages, read, kb, log, events, mappedDown, blocking, scene>>
  BY DEF FrameSteps, EnterRouting, Routed, Chat, AskEscape, Native, UpdateHostlist, LeaveOrWalk
<1>2. inputs' \in 0..MaxInputs /\ inputs <= inputs'
  <2>1. inputs \in 0..MaxInputs
    BY DEF KeysTypes
  <2>2. inputs' = inputs \/ Count
    BY DEF FrameSteps, EnterRouting, Routed, Chat, AskEscape, Native, UpdateHostlist, LeaveOrWalk
  <2> QED
    BY <2>1, <2>2 DEF Count
<1>3. consumed' \in 0..Len(log) /\ native' \in 0..Len(log)
  <2>1. consumed \in 0..Len(log) /\ native \in 0..Len(log) /\ kb.gen = Len(log) /\ kb.gen \in Nat
    BY DEF KeysTypes
  <2>2. consumed' \in {consumed, kb.gen} /\ native' \in {native, kb.gen}
    BY DEF FrameSteps, EnterRouting, Routed, Chat, AskEscape, Native, UpdateHostlist, LeaveOrWalk
  <2> QED
    BY <2>1, <2>2
<1>4. ui' \in [PanelNames -> BOOLEAN] /\ inBattle' \in BOOLEAN
  <2>1. ui \in [PanelNames -> BOOLEAN] /\ inBattle \in BOOLEAN
    BY DEF KeysTypes
  <2>2. CASE Chat
    <3>1. inBattle' \in BOOLEAN
      BY <2>2 DEF Chat
    <3>2. \E b \in BOOLEAN, c \in BOOLEAN, d \in BOOLEAN :
            ui' \in {[ui EXCEPT !.editing = b],
                     [[ui EXCEPT !.editing = b] EXCEPT !.picker = FALSE, !.menu = c, !.editing = d],
                     [[ui EXCEPT !.editing = b] EXCEPT !.editing = TRUE]}
      BY <2>1, <2>2 DEF Chat, PanelNames
    <3> QED
      BY <2>1, <3>1, <3>2 DEF PanelNames
  <2>3. CASE UNCHANGED <<ui, inBattle>>
    BY <2>1, <2>3
  <2>4. ASSUME ~Chat
        PROVE  ui' = ui /\ inBattle' = inBattle
    BY <2>4 DEF FrameSteps, EnterRouting, Routed, AskEscape, Native, UpdateHostlist, LeaveOrWalk
  <2> QED
    BY <2>2, <2>3, <2>4
<1>5. /\ hostlist' \in [open : BOOLEAN, exit : 0..MaxInputs] /\ lobbyExit' \in 0..MaxInputs
  <2>1. hostlist \in [open : BOOLEAN, exit : 0..MaxInputs] /\ lobbyExit \in 0..MaxInputs
    BY DEF KeysTypes
  <2>2. /\ hostlist' \in {hostlist, [hostlist EXCEPT !.open = TRUE], [open |-> FALSE, exit |-> 0]}
        /\ lobbyExit' \in {0, lobbyExit}
    BY DEF FrameSteps, EnterRouting, Routed, Chat, AskEscape, Native, UpdateHostlist, LeaveOrWalk
  <2> DEFINE E == 0..MaxInputs
  <2>3. 0 \in E
    OBVIOUS
  <2> HIDE DEF E
  <2>5. [hostlist EXCEPT !.open = TRUE] \in [open : BOOLEAN, exit : E]
    BY <2>1 DEF E
  <2>6. [open |-> FALSE, exit |-> 0] \in [open : BOOLEAN, exit : E]
    BY <2>3
  <2>8. /\ [hostlist EXCEPT !.open = TRUE] \in [open : BOOLEAN, exit : 0..MaxInputs]
        /\ [open |-> FALSE, exit |-> 0] \in [open : BOOLEAN, exit : 0..MaxInputs]
    BY <2>5, <2>6 DEF E
  <2>7. lobbyExit' \in 0..MaxInputs
    BY <2>1, <2>2
  <2> QED
    BY <2>1, <2>2, <2>7, <2>8
<1>6. newScene' \in Scenes /\ stage' \in Steps
  <2>1. newScene \in Scenes /\ scene \in Scenes /\ stage \in Steps
    BY DEF KeysTypes
  <2>2. newScene' \in {newScene, "select", "battle", "title"}
    BY <2>1 DEF FrameSteps, EnterRouting, Routed, Chat, AskEscape, Native, UpdateHostlist,
                LeaveOrWalk, Scenes
  <2>3. stage' \in {stage, "routing", "chatting", After("route"), After("chat"), After("native"),
                    "keys", "chat", "closed"}
    BY DEF FrameSteps, EnterRouting, Routed, Chat, AskEscape, Native, UpdateHostlist, LeaveOrWalk
  <2> QED
    BY <2>1, <2>2, <2>3, StepAfter DEF Scenes, Steps
<1>7. esc.press + bkey.press <= inputs'
  <2>1. esc.press + bkey.press <= inputs /\ esc.press \in Nat /\ bkey.press \in Nat
        /\ inputs \in Nat
    BY DEF KeysTypes
  <2> QED
    BY <1>2, <2>1
<1> QED
  BY <1>1, <1>2, <1>3, <1>4, <1>5, <1>6, <1>7 DEF KeysTypes

\* So does the reading of the keyboard, whose event is of a B that was pressed.
LEMMA ReadTypesKept ==
  ASSUME KeysTypes, ReadKeys
  PROVE  KeysTypes'
<1> USE KeyBounds DEF keyboard, escape, panels, history
<1> DEFINE H == [key : {"F1", "F2", "b", "esc"}, gen : Nat, press : 0..MaxInputs]
           e == [key |-> "b", gen |-> 0, press |-> bkey.press]
<1>1. /\ UNCHANGED <<keyboard, messages, escape, panels, newScene>>
      /\ scene' = newScene /\ stage' = "route"
      /\ events' = events \/ events' = Append(events, e)
      /\ mappedDown' = bkey.held /\ blocking' = Hidden(bkey.held)
  BY DEF ReadKeys
<1>2. /\ bkey \in [held : BOOLEAN, press : Nat] /\ esc \in [held : BOOLEAN, press : Nat]
      /\ inputs \in 0..MaxInputs
      /\ esc.press + bkey.press <= inputs /\ events \in Seq(H) /\ focus \in BOOLEAN
      /\ \A i \in 1..Len(events) :
           events[i].key = "esc" => /\ events[i].gen \in 1..Len(log)
                                    /\ events[i].press = log[events[i].gen].press
  BY DEF KeysTypes, Hotkeys
<1>3. e \in H /\ e.key # "esc"
  BY <1>2
<1>4. read' \in [down : BOOLEAN, fresh : 0..MaxInputs]
  <2>1. read' = [down |-> (esc.held /\ focus), 
                 fresh |-> IF esc.held /\ focus /\ ~read.down THEN esc.press ELSE 0]
    BY DEF ReadKeys
  <2>2. esc.press \in 0..MaxInputs
    BY <1>2
  <2>3. (esc.held /\ focus) \in BOOLEAN
    BY <1>2
  <2> QED
    BY <2>1, <2>2, <2>3
<1> HIDE DEF H, e
<1>5. /\ events' \in Seq(H)
      /\ \A i \in 1..Len(events') :
           events'[i].key = "esc" => /\ events'[i].gen \in 1..Len(log)
                                     /\ events'[i].press = log[events'[i].gen].press
  <2>1. CASE events' = events
    BY <1>2, <2>1
  <2>2. CASE events' = Append(events, e)
    <3>1. /\ events' \in Seq(H) /\ Len(events') = Len(events) + 1
          /\ events'[Len(events) + 1] = e
          /\ \A i \in 1..Len(events) : events'[i] = events[i]
      BY <1>2, <1>3, <2>2, AppendedAt
    <3>2. Len(events) \in Nat
      BY <1>2, LenProperties
    <3>3. \A i \in 1..Len(events') : i \in 1..Len(events) \/ i = Len(events) + 1
      BY <3>1, <3>2
    <3> QED
      BY <1>2, <1>3, <3>1, <3>3
  <2> QED
    BY <1>1, <2>1, <2>2
<1>6. mappedDown' \in BOOLEAN /\ blocking' \in BOOLEAN
  BY <1>1, <1>2 DEF Hidden, isInputing, KeysTypes
<1>7. scene' \in Scenes /\ newScene' \in Scenes /\ stage' \in Steps /\ log' = log
  BY <1>1 DEF KeysTypes, Steps
<1> QED
  BY <1>1, <1>4, <1>5, <1>6, <1>7 DEF KeysTypes, H, Hotkeys

\* Something is open when an Escape closes it.
LEMMA ClosesAPanel ==
  ASSUME isInputing
  PROVE  (CHOOSE p \in {"picker", "menu", "editing"} :
            ui[p] /\ (ui.picker => p = "picker") /\ (~ui.picker /\ ui.menu => p = "menu"))
           \in PanelNames
<1>1. \E p \in {"picker", "menu", "editing"} :
        ui[p] /\ (ui.picker => p = "picker") /\ (~ui.picker /\ ui.menu => p = "menu")
  BY DEF isInputing
<1> QED
  BY <1>1 DEF PanelNames

\* So does the handling of an event, of which the requests take their presses.
LEMMA HotkeyTypesKept ==
  ASSUME KeysTypes, HandleHotkey
  PROVE  KeysTypes'
<1> USE KeyBounds DEF keyboard, escape, panels, history
<1> DEFINE H == [key : {"F1", "F2", "b", "esc"}, gen : Nat, press : 0..MaxInputs]
           e == Head(events)
<1>1. UNCHANGED <<keyboard, messages, read, kb, log, native, mappedDown, blocking,
                  inBattle, scene, newScene, stage>>
  BY DEF HandleHotkey
<1>2. /\ events \in Seq(H) /\ events # <<>> /\ events' = Tail(events)
      /\ consumed \in 0..Len(log) /\ ui \in [PanelNames -> BOOLEAN]
      /\ hostlist \in [open : BOOLEAN, exit : 0..MaxInputs] /\ lobbyExit \in 0..MaxInputs
      /\ \A i \in 1..Len(events) :
           events[i].key = "esc" => /\ events[i].gen \in 1..Len(log)
                                    /\ events[i].press = log[events[i].gen].press
  BY DEF KeysTypes, Hotkeys, HandleHotkey
<1> HIDE DEF H
<1>3. /\ events' \in Seq(H) /\ Len(events') = Len(events) - 1 /\ Len(events) \in Nat \ {0}
      /\ \A i \in 1..Len(events') : events'[i] = events[i + 1] /\ i + 1 \in 1..Len(events)
      /\ e = events[1] /\ e \in H
  BY <1>2, TailAt
<1>4. 1 \in 1..Len(events)
  BY <1>3
<1>5. \A i \in 1..Len(events') :
        events'[i].key = "esc" => /\ events'[i].gen \in 1..Len(log)
                                  /\ events'[i].press = log[events'[i].gen].press
  BY <1>2, <1>3
<1>6. /\ consumed' \in 0..Len(log) /\ ui' \in [PanelNames -> BOOLEAN]
      /\ hostlist' \in [open : BOOLEAN, exit : 0..MaxInputs] /\ lobbyExit' \in 0..MaxInputs
  <2>1. CASE e.key \in {"F1", "F2"}
    <3>1. UNCHANGED <<consumed, hostlist, lobbyExit>>
      BY <2>1 DEF HandleHotkey
    <3>2. PICK mine \in PanelNames, other \in PanelNames : TogglePanel(mine, other)
      BY <2>1 DEF HandleHotkey, PanelNames
    <3>3. ui' \in [PanelNames -> BOOLEAN]
      BY <1>2, <3>2 DEF TogglePanel
    <3> QED
      BY <1>2, <3>1, <3>3
  <2>2. CASE e.key = "b"
    <3>1. UNCHANGED <<consumed, hostlist, lobbyExit>> /\ ui' = [ui EXCEPT !.picker = FALSE]
      BY <2>2 DEF HandleHotkey
    <3> QED
      BY <1>2, <3>1
  <2>3. CASE e.key = "esc"
    <3>1. e.gen \in 1..Len(log) /\ e.press \in 0..MaxInputs
      BY <1>2, <1>3, <1>4, <2>3 DEF H
    <3>2. Escaped(e)
      BY <2>3 DEF HandleHotkey
    <3>3. consumed' \in {consumed, e.gen} /\ lobbyExit' \in {lobbyExit, e.press}
          /\ hostlist' \in {hostlist, [hostlist EXCEPT !.exit = e.press]}
      BY <3>2 DEF Escaped
    <3>4. ui' = ui \/ \E p \in PanelNames : ui' = [ui EXCEPT ![p] = FALSE]
      BY <3>2, ClosesAPanel DEF Escaped
    <3>5. ui' \in [PanelNames -> BOOLEAN]
      BY <1>2, <3>4
    <3>6. hostlist' \in [open : BOOLEAN, exit : 0..MaxInputs] /\ lobbyExit' \in 0..MaxInputs
      BY <1>2, <3>1, <3>3
    <3>7. consumed' \in 0..Len(log)
      BY <1>2, <3>1, <3>3
    <3> QED
      BY <3>5, <3>6, <3>7
  <2> QED
    BY <1>3, <2>1, <2>2, <2>3 DEF H
<1> QED
  BY <1>1, <1>3, <1>5, <1>6 DEF KeysTypes, H, Hotkeys

\* The steps, by what they leave alone.
InputSteps ==
  \/ PressEscape \/ RepeatEscape \/ ReleaseEscape \/ PressB \/ ReleaseB
  \/ Tap("F1") \/ Tap("F2") \/ SwitchAway \/ SwitchBack

\* The next-state relation is the disjunction of these groups.
LEMMA KeysSteps ==
  KeysNext <=> InputSteps \/ WindowMessage \/ ReadKeys \/ HandleHotkey \/ FrameSteps
BY DEF KeysNext, InputSteps, FrameSteps

\* Every step keeps the types.
LEMMA KeysTypesKept ==
  ASSUME KeysTypes, KeysNext
  PROVE  KeysTypes'
BY KeysSteps, InputTypesKept, MessageTypesKept, FrameTypesKept, ReadTypesKept, HotkeyTypesKept
   DEF InputSteps

(***************************************************************************)
(* The order of the presses.                                               *)
(***************************************************************************)
\* What the types say of single messages, generations and events.
LEMMA PressesAreNumbers ==
  ASSUME KeysTypes
  PROVE  /\ esc.press \in Nat /\ bkey.press \in Nat /\ read.fresh \in Nat
         /\ Len(messages) \in Nat /\ Len(log) \in Nat /\ Len(events) \in Nat
         /\ \A i \in 1..Len(messages) :
              /\ messages[i].kind \in {"down", "up", "F1", "F2", "blur"}
              /\ messages[i].press \in 0..MaxInputs /\ messages[i].press \in Nat
         /\ \A g \in 1..Len(log) :
              log[g].press \in Nat \ {0} /\ log[g].owner \in Owners /\ log[g].scene \in Scenes
         /\ \A i \in 1..Len(events) :
              /\ events[i].key \in {"F1", "F2", "b", "esc"}
              /\ events[i].gen \in Nat /\ events[i].press \in Nat
<1> DEFINE M == [kind : {"down", "up", "F1", "F2", "blur"}, press : 0..MaxInputs]
           P == [press : 1..MaxInputs, owner : Owners, scene : Scenes]
           H == [key : {"F1", "F2", "b", "esc"}, gen : Nat, press : 0..MaxInputs]
<1>1. messages \in Seq(M) /\ log \in Seq(P) /\ events \in Seq(H)
  BY DEF KeysTypes, Messages, Generations, Hotkeys
<1>2. esc.press \in Nat /\ bkey.press \in Nat /\ read.fresh \in Nat
  BY KeyBounds DEF KeysTypes
<1> HIDE DEF M, P, H
<1>3. Len(messages) \in Nat /\ Len(log) \in Nat /\ Len(events) \in Nat
  BY <1>1, LenProperties
<1>4. \A i \in 1..Len(messages) : messages[i] \in M
  BY <1>1, ElementOfSeq
<1>5. \A g \in 1..Len(log) : log[g] \in P
  BY <1>1, ElementOfSeq
<1>6. \A i \in 1..Len(events) : events[i] \in H
  BY <1>1, ElementOfSeq
<1>7. \A i \in 1..Len(messages) :
        /\ messages[i].kind \in {"down", "up", "F1", "F2", "blur"}
        /\ messages[i].press \in 0..MaxInputs /\ messages[i].press \in Nat
  BY <1>4, KeyBounds DEF M
<1>8. \A g \in 1..Len(log) :
        log[g].press \in Nat \ {0} /\ log[g].owner \in Owners /\ log[g].scene \in Scenes
  BY <1>5, KeyBounds DEF P
<1>9. \A i \in 1..Len(events) :
        /\ events[i].key \in {"F1", "F2", "b", "esc"}
        /\ events[i].gen \in Nat /\ events[i].press \in Nat
  BY <1>6, KeyBounds DEF H
<1> QED
  BY <1>2, <1>3, <1>7, <1>8, <1>9

\* What is posted is of the press that is down or was down last.
LEMMA PostKeepsOrder ==
  ASSUME KeysTypes, InOrder, NEW kind \in {"down", "up", "F1", "F2", "blur"}, Post(kind),
         UNCHANGED <<read, log>>,
         esc' \in [held : BOOLEAN, press : Nat], esc'.press <= MaxInputs,
         esc.press <= esc'.press,
         esc'.held => esc.held \/ esc.press < esc'.press,
         kind = "up" => ~esc'.held,
         kind = "down" => esc.held \/ esc.press < esc'.press
  PROVE  InOrder'
<1> DEFINE m == [kind |-> kind, press |-> esc'.press]
           M == [kind : {"down", "up", "F1", "F2", "blur"}, press : 0..MaxInputs]
<1>1. m \in M /\ messages \in Seq(M) /\ messages' = Append(messages, m)
  BY KeyBounds DEF KeysTypes, Messages, Post
<1>2. m.press = esc'.press /\ m.kind = kind
  OBVIOUS
<1> HIDE DEF m, M
<1>3. /\ messages' \in Seq(M) /\ Len(messages') = Len(messages) + 1
      /\ messages'[Len(messages) + 1] = m
      /\ \A i \in 1..Len(messages) : messages'[i] = messages[i]
      /\ Len(messages) \in Nat
  BY <1>1, AppendedAt, LenProperties
<1>4. /\ esc.press \in Nat /\ esc'.press \in Nat /\ read.fresh \in Nat
      /\ \A i \in 1..Len(messages) : messages[i].press \in Nat
      /\ \A g \in 1..Len(log) : log[g].press \in Nat
  BY PressesAreNumbers
<1>5. \A i \in 1..Len(messages') : i \in 1..Len(messages) \/ i = Len(messages) + 1
  BY <1>3
<1>6. read'.fresh <= esc'.press
  BY <1>4 DEF InOrder
<1>7. \A i \in 1..Len(messages') : messages'[i].press <= esc'.press
  BY <1>2, <1>3, <1>4, <1>5 DEF InOrder
<1>8. ASSUME NEW i \in 1..Len(messages'), NEW j \in 1..Len(messages'), i < j
      PROVE  /\ messages'[i].press <= messages'[j].press
             /\ messages'[i].kind = "up" /\ messages'[j].kind = "down"
                  => messages'[i].press < messages'[j].press
  <2>1. i \in 1..Len(messages)
    BY <1>3, <1>8
  <2>2. CASE j \in 1..Len(messages)
    BY <1>3, <1>8, <2>1, <2>2 DEF InOrder
  <2>3. CASE j = Len(messages) + 1
    <3>1. messages[i].press <= esc.press
      BY <2>1 DEF InOrder
    <3>2. esc.held /\ messages[i].kind = "up" => messages[i].press < esc.press
      BY <2>1 DEF InOrder
    <3>3. messages'[i] = messages[i] /\ messages'[j] = m
      BY <1>3, <2>1, <2>3
    <3> QED
      BY <1>2, <1>4, <2>1, <3>1, <3>2, <3>3
  <2> QED
    BY <1>5, <2>2, <2>3
<1>9. ASSUME NEW i \in 1..Len(messages'), esc'.held, messages'[i].kind = "up"
      PROVE  messages'[i].press < esc'.press
  <2>1. i \in 1..Len(messages)
    BY <1>2, <1>3, <1>5, <1>9
  <2>2. messages[i].press <= esc.press /\ (esc.held => messages[i].press < esc.press)
    BY <1>3, <1>9, <2>1 DEF InOrder
  <2> QED
    BY <1>3, <1>4, <1>9, <2>1, <2>2
<1>10. ASSUME NEW g \in 1..Len(log')
       PROVE  /\ log'[g].press <= esc'.press
              /\ \A i \in 1..Len(messages') : log'[g].press <= messages'[i].press
  <2>1. log'[g].press = log[g].press /\ g \in 1..Len(log) /\ log[g].press <= esc.press
    BY DEF InOrder
  <2>2. \A i \in 1..Len(messages) : log[g].press <= messages[i].press
    BY <2>1 DEF InOrder
  <2>3. log[g].press <= esc'.press
    BY <1>4, <2>1
  <2>4. ASSUME NEW i \in 1..Len(messages')
        PROVE  log[g].press <= messages'[i].press
    BY <1>2, <1>3, <1>5, <2>2, <2>3, <2>4
  <2> QED
    BY <2>1, <2>3, <2>4
<1> QED
  BY <1>6, <1>7, <1>8, <1>9, <1>10 DEF InOrder

\* The window procedure takes the messages in their order, so the log grows in it.
LEMMA WindowMessageInOrder ==
  ASSUME KeysTypes, InOrder, WindowMessage
  PROVE  InOrder'
<1> DEFINE m == Head(messages)
           M == [kind : {"down", "up", "F1", "F2", "blur"}, press : 0..MaxInputs]
           P == [press : 1..MaxInputs, owner : Owners, scene : Scenes]
           new == [press |-> m.press, owner |-> _classifyEscapeOwner, scene |-> scene]
<1>1. messages \in Seq(M) /\ messages # <<>> /\ messages' = Tail(messages)
  BY DEF WindowMessage, KeysTypes, Messages
<1>2. UNCHANGED <<esc, read>>
  BY DEF WindowMessage, keyboard
<1>3. log \in Seq(P)
  BY DEF KeysTypes, Generations
<1> HIDE DEF M
<1>4. /\ messages' \in Seq(M) /\ Len(messages') = Len(messages) - 1 /\ Len(messages) \in Nat \ {0}
      /\ \A i \in 1..Len(messages') : messages'[i] = messages[i + 1] /\ i + 1 \in 1..Len(messages)
      /\ m = messages[1] /\ m \in M
  BY <1>1, TailAt
<1>5. 1 \in 1..Len(messages) /\ \A i \in 1..Len(messages) : messages[i].press \in Nat
  BY <1>4, PressesAreNumbers
<1>6. log' = log \/ (log' = Append(log, new) /\ m.kind = "down")
  BY <1>4 DEF WindowMessage, EscapeDown, M
<1>7. /\ read.fresh <= esc.press
      /\ \A i \in 1..Len(messages') : messages'[i].press <= esc.press
      /\ \A i \in 1..Len(messages') :
           esc.held /\ messages'[i].kind = "up" => messages'[i].press < esc.press
  BY <1>4 DEF InOrder
<1>8. \A i, j \in 1..Len(messages') :
        i < j => /\ messages'[i].press <= messages'[j].press
                 /\ messages'[i].kind = "up" /\ messages'[j].kind = "down"
                      => messages'[i].press < messages'[j].press
  <2> SUFFICES ASSUME NEW i \in 1..Len(messages'), NEW j \in 1..Len(messages'), i < j
               PROVE  /\ messages'[i].press <= messages'[j].press
                      /\ messages'[i].kind = "up" /\ messages'[j].kind = "down"
                           => messages'[i].press < messages'[j].press
    OBVIOUS
  <2>1. i + 1 < j + 1 /\ i + 1 \in 1..Len(messages) /\ j + 1 \in 1..Len(messages)
    BY <1>4
  <2>2. messages'[i] = messages[i + 1] /\ messages'[j] = messages[j + 1]
    BY <1>4
  <2> QED
    BY <2>1, <2>2 DEF InOrder
<1>9. \A g \in 1..Len(log) :
         log[g].press <= esc.press /\ \A i \in 1..Len(messages') : log[g].press <= messages'[i].press
  BY <1>4 DEF InOrder
<1>10. /\ m.press <= esc.press
       /\ \A i \in 1..Len(messages') : m.press <= messages'[i].press
  <2>1. \A i \in 1..Len(messages') : 1 < i + 1
    BY <1>4
  <2> QED
    BY <1>4, <1>5, <2>1 DEF InOrder
<1>11. \A g \in 1..Len(log') :
          log'[g].press <= esc.press /\ \A i \in 1..Len(messages') : log'[g].press <= messages'[i].press
  <2>1. CASE log' = log
    BY <1>9, <2>1
  <2>2. CASE log' = Append(log, new) /\ m.kind = "down"
    <3>1. new \in P /\ new.press = m.press
      <4>1. m.press \in 1..MaxInputs
        BY <1>4, <1>5, <2>2, KeyBounds DEF KeysTypes, M
      <4>2. _classifyEscapeOwner \in Owners /\ scene \in Scenes
        BY DEF _classifyEscapeOwner, Owners, KeysTypes
      <4> QED
        BY <4>1, <4>2
    <3> HIDE DEF new, P, m
    <3>2. /\ Len(log') = Len(log) + 1 /\ log'[Len(log) + 1] = new
          /\ \A i \in 1..Len(log) : log'[i] = log[i]
          /\ Len(log) \in Nat
      BY <1>3, <2>2, <3>1, AppendedAt, LenProperties
    <3>3. \A g \in 1..Len(log') : g \in 1..Len(log) \/ g = Len(log) + 1
      BY <3>2
    <3> QED
      BY <1>9, <1>10, <3>1, <3>2, <3>3
  <2> QED
    BY <1>6, <2>1, <2>2
<1> QED
  BY <1>2, <1>7, <1>8, <1>11 DEF InOrder

\* Every step keeps the order.
LEMMA OrderKept ==
  ASSUME KeysTypes, KeysTypes', InOrder, KeysNext
  PROVE  InOrder'
<1> USE DEF keyboard, escape, panels, history, KeepProgram
<1>0. /\ esc \in [held : BOOLEAN, press : Nat] /\ esc' \in [held : BOOLEAN, press : Nat]
      /\ esc'.press <= MaxInputs
  <2>1. esc \in [held : BOOLEAN, press : Nat]
    BY DEF KeysTypes
  <2>2. esc' \in [held : BOOLEAN, press : Nat] /\ bkey' \in [held : BOOLEAN, press : Nat]
        /\ inputs' \in 0..MaxInputs /\ esc'.press + bkey'.press <= inputs'
    BY DEF KeysTypes
  <2> QED
    BY <2>1, <2>2, KeyBounds
<1>1. CASE PressEscape
  <2>1. /\ Post("down") /\ UNCHANGED <<read, log>>
        /\ esc.press <= esc'.press /\ esc.press < esc'.press
    BY <1>0, <1>1 DEF PressEscape
  <2> QED
    BY <1>0, <2>1, PostKeepsOrder
<1>2. CASE RepeatEscape
  <2>1. /\ Post("down") /\ UNCHANGED <<read, log>> /\ esc' = esc /\ esc.held
    BY <1>2 DEF RepeatEscape
  <2> QED
    BY <1>0, <2>1, PostKeepsOrder
<1>3. CASE ReleaseEscape
  <2>1. UNCHANGED <<read, log>> /\ ~esc'.held /\ esc'.press = esc.press
    BY <1>0, <1>3 DEF ReleaseEscape
  <2>2. CASE Post("up")
    BY <1>0, <2>1, <2>2, PostKeepsOrder
  <2>3. CASE UNCHANGED messages
    BY <2>1, <2>3 DEF InOrder
  <2> QED
    BY <1>3, <2>2, <2>3 DEF ReleaseEscape
<1>4. CASE Tap("F1")
  <2>1. Post("F1") /\ UNCHANGED <<read, log>> /\ esc' = esc
    BY <1>4 DEF Tap
  <2> QED
    BY <1>0, <2>1, PostKeepsOrder
<1>5. CASE Tap("F2")
  <2>1. Post("F2") /\ UNCHANGED <<read, log>> /\ esc' = esc
    BY <1>5 DEF Tap
  <2> QED
    BY <1>0, <2>1, PostKeepsOrder
<1>6. CASE SwitchAway
  <2>1. Post("blur") /\ UNCHANGED <<read, log>> /\ esc' = esc
    BY <1>6 DEF SwitchAway
  <2> QED
    BY <1>0, <2>1, PostKeepsOrder
<1>7. CASE WindowMessage
  BY <1>7, WindowMessageInOrder
<1>8. CASE ReadKeys
  <2>1. UNCHANGED <<esc, messages, log>> /\ read'.fresh \in {0, esc.press}
    BY <1>8 DEF ReadKeys
  <2> QED
    BY <1>0, <2>1 DEF InOrder
<1>9. CASE PressB \/ ReleaseB \/ SwitchBack \/ HandleHotkey \/ FrameSteps
  <2>1. UNCHANGED <<esc, messages, read, log>>
    BY <1>9 DEF PressB, ReleaseB, SwitchBack, HandleHotkey, FrameSteps, EnterRouting, Routed,
                Chat, AskEscape, Native, UpdateHostlist, LeaveOrWalk
  <2> QED
    BY <2>1 DEF InOrder
<1> QED
  BY <1>1, <1>2, <1>3, <1>4, <1>5, <1>6, <1>7, <1>8, <1>9, KeysSteps DEF InputSteps

\* A press that has a generation and is announced again is the last one, and still down; so
\* it gets no other generation. What is newly announced has none yet.
LEMMA PostAnnounces ==
  ASSUME KeysTypes, NEW kind \in {"down", "up", "F1", "F2", "blur"}, Post(kind),
         esc' \in [held : BOOLEAN, press : Nat], esc'.press <= MaxInputs, NEW p, Announced(p)'
  PROVE  Announced(p) \/ (p = esc'.press /\ (esc'.held \/ kind = "down"))
<1> DEFINE m == [kind |-> kind, press |-> esc'.press]
           M == [kind : {"down", "up", "F1", "F2", "blur"}, press : 0..MaxInputs]
<1>1. m \in M /\ messages \in Seq(M) /\ messages' = Append(messages, m)
  BY KeyBounds DEF KeysTypes, Messages, Post
<1>2. m.press = esc'.press /\ m.kind = kind
  OBVIOUS
<1> HIDE DEF m, M
<1>3. /\ Len(messages') = Len(messages) + 1 /\ messages'[Len(messages) + 1] = m
      /\ \A i \in 1..Len(messages) : messages'[i] = messages[i]
      /\ Len(messages) \in Nat
  BY <1>1, AppendedAt, LenProperties
<1>4. \A i \in 1..Len(messages') : i \in 1..Len(messages) \/ i = Len(messages) + 1
  BY <1>3
<1> QED
  BY <1>2, <1>3, <1>4 DEF Announced

\* A key-down makes a generation only when none is down: the announced press had none yet.
LEMMA WindowMessageLogsOnce ==
  ASSUME KeysTypes, KeysTypes', InOrder, LoggedOnce, WindowMessage
  PROVE  LoggedOnce'
<1> DEFINE m == Head(messages)
           M == [kind : {"down", "up", "F1", "F2", "blur"}, press : 0..MaxInputs]
           P == [press : 1..MaxInputs, owner : Owners, scene : Scenes]
           new == [press |-> m.press, owner |-> _classifyEscapeOwner, scene |-> scene]
<1>1. messages \in Seq(M) /\ messages # <<>> /\ messages' = Tail(messages)
  BY DEF WindowMessage, KeysTypes, Messages
<1>2. esc' = esc
  BY DEF WindowMessage, keyboard
<1>3. log \in Seq(P)
  BY DEF KeysTypes, Generations
<1> HIDE DEF M, P
<1>4. /\ Len(messages') = Len(messages) - 1 /\ Len(messages) \in Nat \ {0}
      /\ \A i \in 1..Len(messages') : messages'[i] = messages[i + 1] /\ i + 1 \in 1..Len(messages)
      /\ m = messages[1] /\ m \in M
  BY <1>1, TailAt
<1>5. 1 \in 1..Len(messages)
  BY <1>4
<1>6. \A p : Announced(p)' => Announced(p)
  BY <1>2, <1>4 DEF Announced
<1>7. /\ esc.press \in Nat /\ Len(log) \in Nat /\ m.press \in Nat
      /\ \A i \in 1..Len(messages) : messages[i].press \in Nat
      /\ \A g \in 1..Len(log) : log[g].press \in Nat
  BY <1>4, <1>5, PressesAreNumbers
<1>8. CASE m.kind = "down" /\ ~kb.down
  <2>1. /\ log' = Append(log, new) /\ kb' = [down |-> TRUE, gen |-> Len(log) + 1]
        /\ interrupted' = interrupted
    BY <1>8 DEF WindowMessage, EscapeDown, Repeated
  <2>2. new \in P /\ new.press = m.press
    <3>1. m.press \in 1..MaxInputs
      <4>1. messages[1].press \in 0..MaxInputs
        BY <1>5, PressesAreNumbers
      <4>2. messages[1].press > 0
        BY <1>4, <1>5, <1>8 DEF KeysTypes
      <4> QED
        BY <1>4, <4>1, <4>2, KeyBounds
    <3>2. _classifyEscapeOwner \in Owners /\ scene \in Scenes
      BY DEF _classifyEscapeOwner, Owners, KeysTypes
    <3> QED
      BY <3>1, <3>2 DEF P
  <2> HIDE DEF new, m
  <2>3. /\ Len(log') = Len(log) + 1 /\ log'[Len(log) + 1] = new
        /\ \A g \in 1..Len(log) : log'[g] = log[g]
    BY <1>3, <2>1, <2>2, AppendedAt
  <2>4. \A g \in 1..Len(log') : g \in 1..Len(log) \/ g = Len(log) + 1
    BY <1>7, <2>3
  <2>5. Announced(m.press)
    BY <1>4, <1>5, <1>8 DEF Announced
  <2>6. Logged(m.press) => m.press \in interrupted
    BY <1>7, <1>8, <2>5 DEF LoggedOnce
  <2>7. ASSUME NEW p \in Nat \ interrupted', Logged(p)', Announced(p)'
        PROVE  kb'.down /\ log'[Len(log')].press = p
    <3>1. p = m.press \/ Logged(p)
      BY <2>2, <2>3, <2>4, <2>7 DEF Logged
    <3>2. ~Logged(p)
      BY <1>6, <1>8, <2>1, <2>7 DEF LoggedOnce
    <3> QED
      BY <2>1, <2>2, <2>3, <3>1, <3>2
  <2>8. ASSUME NEW g \in 1..Len(log'), NEW h \in 1..Len(log'), log'[g].press = log'[h].press
        PROVE  g = h \/ log'[g].press \in interrupted'
    <3>1. CASE g \in 1..Len(log) /\ h \in 1..Len(log)
      BY <2>1, <2>3, <2>8, <3>1 DEF LoggedOnce
    <3>2. CASE g = Len(log) + 1 /\ h = Len(log) + 1
      BY <3>2
    <3>3. CASE g \in 1..Len(log) /\ h = Len(log) + 1
      <4>1. log[g].press = m.press /\ log'[g].press = m.press
        BY <2>2, <2>3, <2>8, <3>3
      <4> QED
        BY <2>1, <2>6, <3>3, <4>1 DEF Logged
    <3>4. CASE g = Len(log) + 1 /\ h \in 1..Len(log)
      <4>1. log[h].press = m.press /\ log'[g].press = m.press
        BY <2>2, <2>3, <2>8, <3>4
      <4> QED
        BY <2>1, <2>6, <3>4, <4>1 DEF Logged
    <3> QED
      BY <2>4, <3>1, <3>2, <3>3, <3>4
  <2> QED
    BY <2>7, <2>8 DEF LoggedOnce
<1>9. interrupted \subseteq interrupted'
  BY <1>4 DEF WindowMessage, M
<1>10. ASSUME log' = log
      PROVE  \A g, h \in 1..Len(log') :
               log'[g].press = log'[h].press => g = h \/ log'[g].press \in interrupted'
  BY <1>10, <1>9 DEF LoggedOnce
<1>11. CASE m.kind = "up"
  <2>1. log' = log /\ interrupted' = interrupted
    BY <1>11 DEF WindowMessage
  <2>2. ASSUME NEW p \in Nat \ interrupted', Logged(p)', Announced(p)'
        PROVE  FALSE
    <3>1. p <= m.press
      BY <1>4, <1>5, <2>1, <2>2 DEF Logged, InOrder
    <3>2. CASE esc.held /\ esc.press = p
      BY <1>4, <1>5, <1>7, <1>11, <3>1, <3>2 DEF InOrder
    <3>3. CASE \E i \in 1..Len(messages') : messages'[i].kind = "down" /\ messages'[i].press = p
      <4>1. PICK i \in 1..Len(messages') : messages'[i].kind = "down" /\ messages'[i].press = p
        BY <3>3
      <4>2. /\ messages[i + 1].kind = "down" /\ messages[i + 1].press = p
            /\ 1 < i + 1 /\ i + 1 \in 1..Len(messages)
        BY <1>4, <4>1
      <4>3. messages[1].press < messages[i + 1].press
        BY <1>4, <1>5, <1>11, <4>2 DEF InOrder
      <4> QED
        BY <1>4, <1>7, <3>1, <4>2, <4>3
    <3> QED
      BY <1>2, <2>2, <3>2, <3>3 DEF Announced
  <2> QED
    BY <1>10, <2>1, <2>2 DEF LoggedOnce
<1>12. CASE m.kind = "blur"
  <2>1. /\ log' = log /\ kb.gen = Len(log)
        /\ interrupted' = IF kb.down THEN interrupted \cup {log[kb.gen].press} ELSE interrupted
    BY <1>12 DEF WindowMessage, KeysTypes
  <2>2. ASSUME NEW p \in Nat \ interrupted', Logged(p)', Announced(p)'
        PROVE  FALSE
    <3>1. Logged(p) /\ Announced(p) /\ p \notin interrupted
      BY <1>2, <1>6, <2>1, <2>2 DEF Logged
    <3>2. kb.down /\ log[Len(log)].press = p
      BY <3>1 DEF LoggedOnce
    <3> QED
      BY <2>1, <2>2, <3>2
  <2> QED
    BY <1>10, <2>1, <2>2 DEF LoggedOnce
<1>13. CASE m.kind \in {"F1", "F2"} \/ (m.kind = "down" /\ kb.down)
  <2>1. UNCHANGED <<log, kb, interrupted>>
    BY <1>13 DEF WindowMessage, EscapeDown, Repeated
  <2>2. ASSUME NEW p \in Nat \ interrupted', Logged(p)', Announced(p)'
        PROVE  kb'.down /\ log'[Len(log')].press = p
    <3>1. Logged(p) /\ Announced(p) /\ p \notin interrupted
      BY <1>6, <2>1, <2>2 DEF Logged
    <3> QED
      BY <2>1, <3>1 DEF LoggedOnce
  <2> QED
    BY <1>10, <2>1, <2>2 DEF LoggedOnce
<1> QED
  BY <1>4, <1>8, <1>11, <1>12, <1>13 DEF M

\* A press keeps its one generation.
LEMMA OnceKept ==
  ASSUME KeysTypes, KeysTypes', InOrder, LoggedOnce, KeysNext
  PROVE  LoggedOnce'
<1> USE DEF keyboard, escape, panels, history, KeepProgram
<1>0. /\ esc \in [held : BOOLEAN, press : Nat] /\ esc' \in [held : BOOLEAN, press : Nat]
      /\ esc'.press <= MaxInputs
  <2>1. esc \in [held : BOOLEAN, press : Nat]
    BY DEF KeysTypes
  <2>2. esc' \in [held : BOOLEAN, press : Nat] /\ bkey' \in [held : BOOLEAN, press : Nat]
        /\ inputs' \in 0..MaxInputs /\ esc'.press + bkey'.press <= inputs'
    BY DEF KeysTypes
  <2> QED
    BY <2>1, <2>2, KeyBounds
<1>1. ASSUME UNCHANGED <<log, kb, interrupted>>,
             \A p : Announced(p)' => Announced(p) \/ ~Logged(p)
      PROVE  LoggedOnce'
  <2>1. ASSUME NEW p \in Nat \ interrupted', Logged(p)', Announced(p)'
        PROVE  kb'.down /\ log'[Len(log')].press = p
    <3>1. Logged(p)
      BY <1>1, <2>1 DEF Logged
    <3>2. Announced(p)
      BY <1>1, <2>1, <3>1
    <3> QED
      BY <1>1, <2>1, <3>1, <3>2 DEF LoggedOnce
  <2>2. \A g, h \in 1..Len(log') :
          log'[g].press = log'[h].press => g = h \/ log'[g].press \in interrupted'
    BY <1>1 DEF LoggedOnce
  <2> QED
    BY <2>1, <2>2 DEF LoggedOnce
<1>2. CASE PressEscape
  <2>1. /\ Post("down") /\ UNCHANGED <<log, kb, interrupted>> /\ esc.press < esc'.press
    BY <1>0, <1>2 DEF PressEscape
  <2>2. ~Logged(esc'.press)
    BY <1>0, <2>1, PressesAreNumbers DEF InOrder, Logged
  <2> QED
    BY <1>0, <1>1, <2>1, <2>2, PostAnnounces
<1>3. CASE RepeatEscape
  <2>1. /\ Post("down") /\ UNCHANGED <<log, kb, interrupted>> /\ esc' = esc /\ esc.held
    BY <1>3 DEF RepeatEscape
  <2>2. Announced(esc'.press)
    BY <2>1 DEF Announced
  <2> QED
    BY <1>0, <1>1, <2>1, <2>2, PostAnnounces
<1>4. CASE ReleaseEscape
  <2>1. UNCHANGED <<log, kb, interrupted>> /\ ~esc'.held
    BY <1>0, <1>4 DEF ReleaseEscape
  <2>2. CASE Post("up")
    BY <1>0, <1>1, <2>1, <2>2, PostAnnounces
  <2>3. CASE UNCHANGED messages
    <3>1. \A p : Announced(p)' => Announced(p)
      BY <2>1, <2>3 DEF Announced
    <3> QED
      BY <1>1, <2>1, <3>1
  <2> QED
    BY <1>4, <2>2, <2>3 DEF ReleaseEscape
<1>5. ASSUME NEW kind \in {"F1", "F2", "blur"}, Post(kind), UNCHANGED <<esc, log, kb, interrupted>>
      PROVE  LoggedOnce'
  <2>1. esc.held => Announced(esc.press)
    BY DEF Announced
  <2> QED
    BY <1>0, <1>1, <1>5, <2>1, PostAnnounces
<1>6. CASE Tap("F1") \/ Tap("F2") \/ SwitchAway
  BY <1>5, <1>6 DEF Tap, SwitchAway
<1>7. CASE WindowMessage
  BY <1>7, WindowMessageLogsOnce
<1>8. CASE ReadKeys \/ PressB \/ ReleaseB \/ SwitchBack \/ HandleHotkey \/ FrameSteps
  <2>1. UNCHANGED <<esc, messages, log, kb, interrupted>>
    BY <1>8 DEF ReadKeys, PressB, ReleaseB, SwitchBack, HandleHotkey, FrameSteps, EnterRouting,
                Routed, Chat, AskEscape, Native, UpdateHostlist, LeaveOrWalk
  <2>2. \A p : Announced(p)' => Announced(p)
    BY <2>1 DEF Announced
  <2> QED
    BY <1>1, <2>1, <2>2
<1> QED
  BY <1>2, <1>3, <1>4, <1>6, <1>7, <1>8, KeysSteps DEF InputSteps

(***************************************************************************)
(* The events on their way.                                                *)
(***************************************************************************)
\* What is appended, and what a removal leaves, by position.
LEMMA EventAdded ==
  ASSUME KeysTypes, NEW e, e \in [key : {"F1", "F2", "b", "esc"}, gen : Nat, press : 0..MaxInputs],
         events' = Append(events, e)
  PROVE  /\ Len(events') = Len(events) + 1 /\ events'[Len(events) + 1] = e
         /\ \A i \in 1..Len(events) : events'[i] = events[i]
         /\ \A i \in 1..Len(events') : i \in 1..Len(events) \/ i = Len(events) + 1
         /\ Len(events) \in Nat
<1>1. events \in Hotkeys
  BY DEF KeysTypes
<1>2. /\ Len(events') = Len(events) + 1 /\ events'[Len(events) + 1] = e
      /\ \A i \in 1..Len(events) : events'[i] = events[i]
  BY <1>1, AppendedAt DEF Hotkeys
<1> QED
  BY <1>2, PressesAreNumbers

\* One event taken away leaves the others in their order.
LEMMA EventRemoved ==
  ASSUME KeysTypes, events # <<>>, events' = Tail(events)
  PROVE  /\ Len(events') = Len(events) - 1 /\ Len(events) \in Nat \ {0} /\ 1 \in 1..Len(events)
         /\ Head(events) = events[1]
         /\ \A i \in 1..Len(events') : /\ events'[i] = events[i + 1] /\ i + 1 \in 1..Len(events)
                                       /\ 1 < i + 1
<1>1. events \in Hotkeys
  BY DEF KeysTypes
<1>2. /\ Len(events') = Len(events) - 1 /\ Len(events) \in Nat \ {0}
      /\ \A i \in 1..Len(events') : events'[i] = events[i + 1] /\ i + 1 \in 1..Len(events)
      /\ Head(events) = events[1]
  BY <1>1, TailAt DEF Hotkeys
<1> QED
  BY <1>2

\* What the window procedure does, message by message.
LEMMA MessageCases ==
  ASSUME KeysTypes, WindowMessage
  PROVE  \/ UNCHANGED <<log, events>>
         \/ /\ events' = <<>> /\ log' = log
         \/ /\ \E k \in {"F1", "F2"} : events' = Append(events, [key |-> k, gen |-> 0, press |-> 0])
            /\ log' = log
         \/ \E p \in 1..MaxInputs :
              /\ ~kb.down /\ Announced(p)
              /\ log' = Append(log, [press |-> p, owner |-> _classifyEscapeOwner, scene |-> scene])
              /\ events' = Append(events, [key |-> "esc", gen |-> Len(log) + 1, press |-> p])
              /\ Len(log') = Len(log) + 1
              /\ log'[Len(log) + 1] = [press |-> p, owner |-> _classifyEscapeOwner, scene |-> scene]
              /\ \A g \in 1..Len(log) : log'[g] = log[g]
<1> DEFINE m == Head(messages)
<1>1. messages \in Messages /\ messages # <<>>
  BY DEF WindowMessage, KeysTypes
<1>2. m = messages[1] /\ Len(messages) \in Nat \ {0}
  BY <1>1, TailAt DEF Messages
<1>3. 1 \in 1..Len(messages)
  BY <1>2
<1>4. /\ m.kind \in {"down", "up", "F1", "F2", "blur"} /\ m.press \in 0..MaxInputs
      /\ m.kind = "down" => m.press > 0
  BY <1>2, <1>3, PressesAreNumbers DEF KeysTypes
<1>5. CASE m.kind = "down" /\ ~kb.down
  <2>1. /\ log' = Append(log, [press |-> m.press, owner |-> _classifyEscapeOwner, scene |-> scene])
        /\ events' = Append(events, [key |-> "esc", gen |-> Len(log) + 1, press |-> m.press])
    BY <1>5 DEF WindowMessage, EscapeDown, Repeated
  <2>2. Announced(m.press)
    BY <1>2, <1>3, <1>5 DEF Announced
  <2>3. m.press \in 1..MaxInputs
    BY <1>4, <1>5, KeyBounds
  <2>4. /\ log \in Generations
        /\ [press |-> m.press, owner |-> _classifyEscapeOwner, scene |-> scene]
             \in [press : 1..MaxInputs, owner : Owners, scene : Scenes]
    <3>1. _classifyEscapeOwner \in Owners /\ scene \in Scenes /\ log \in Generations
      BY DEF _classifyEscapeOwner, Owners, KeysTypes
    <3> QED
      BY <2>3, <3>1
  <2>5. /\ Len(log') = Len(log) + 1
        /\ log'[Len(log) + 1] = [press |-> m.press, owner |-> _classifyEscapeOwner, scene |-> scene]
        /\ \A g \in 1..Len(log) : log'[g] = log[g]
    BY <2>1, <2>4, AppendedAt DEF Generations
  <2> QED
    BY <1>5, <2>1, <2>2, <2>3, <2>5
<1>6. CASE m.kind = "up" \/ (m.kind = "down" /\ kb.down)
  BY <1>6 DEF WindowMessage, EscapeDown, Repeated
<1>7. CASE m.kind \in {"F1", "F2"}
  BY <1>7 DEF WindowMessage
<1>8. CASE m.kind = "blur"
  BY <1>8 DEF WindowMessage
<1> QED
  BY <1>4, <1>5, <1>6, <1>7, <1>8

\* The Escapes that are not for the panels keep ahead of the keys that open them.
LEMMA EventsKept ==
  ASSUME KeysTypes, EscapeEvents, KeysNext
  PROVE  EscapeEvents'
<1> USE DEF keyboard, escape, panels, history, KeepProgram
<1>0. \A i \in 1..Len(events) : events[i].key = "esc" => events[i].gen \in 1..Len(log)
  BY DEF KeysTypes
<1>1. ASSUME UNCHANGED <<log, ui>>, NEW e, e.key # "esc", events' = Append(events, e),
             e \in [key : {"F1", "F2", "b", "esc"}, gen : Nat, press : 0..MaxInputs]
      PROVE  EscapeEvents'
  <2>1. /\ Len(events') = Len(events) + 1 /\ events'[Len(events) + 1] = e
        /\ \A i \in 1..Len(events) : events'[i] = events[i]
        /\ \A i \in 1..Len(events') : i \in 1..Len(events) \/ i = Len(events) + 1
        /\ Len(events) \in Nat
    BY <1>1, EventAdded
  <2>2. ASSUME NEW i \in 1..Len(events'), events'[i].key = "esc",
               log'[events'[i].gen].owner # "MOD_UI"
        PROVE  ~isInputing' /\ \A j \in 1..(i - 1) : events'[j].key \notin {"F1", "F2"}
    <3>1. i \in 1..Len(events) /\ \A j \in 1..(i - 1) : j \in 1..Len(events)
      BY <1>1, <2>1, <2>2
    <3>2. events'[i] = events[i] /\ \A j \in 1..(i - 1) : events'[j] = events[j]
      BY <2>1, <3>1
    <3> QED
      BY <1>1, <2>2, <3>1, <3>2 DEF EscapeEvents, isInputing
  <2>3. ASSUME NEW i \in 1..Len(events'), NEW j \in 1..Len(events'),
               events'[i].key = "esc", events'[j].key = "esc", events'[i].gen = events'[j].gen
        PROVE  i = j
    BY <1>1, <2>1, <2>3 DEF EscapeEvents
  <2> QED
    BY <2>2, <2>3 DEF EscapeEvents
<1>2. CASE UNCHANGED <<events, log, ui>>
  BY <1>2 DEF EscapeEvents, isInputing
<1>3. ASSUME events' = <<>>
      PROVE  EscapeEvents'
  <2>1. Len(events') = 0
    BY <1>3
  <2>2. \A i \in 1..Len(events') : FALSE
    BY <2>1
  <2> QED
    BY <2>2 DEF EscapeEvents
<1>4. CASE WindowMessage
  <2>0. UNCHANGED ui
    BY <1>4 DEF WindowMessage
  <2>1. CASE UNCHANGED <<log, events>>
    BY <1>2, <2>0, <2>1
  <2>2. CASE events' = <<>>
    BY <1>3, <2>2
  <2>3. ASSUME NEW k \in {"F1", "F2"}, events' = Append(events, [key |-> k, gen |-> 0, press |-> 0]),
               log' = log
        PROVE  EscapeEvents'
    <3> DEFINE e == [key |-> k, gen |-> 0, press |-> 0]
    <3>1. e.key # "esc" /\ e \in [key : {"F1", "F2", "b", "esc"}, gen : Nat, press : 0..MaxInputs]
      BY KeyBounds
    <3> HIDE DEF e
    <3> QED
      BY <1>1, <2>0, <2>3, <3>1 DEF e
  <2>4. ASSUME NEW p \in 1..MaxInputs,
               events' = Append(events, [key |-> "esc", gen |-> Len(log) + 1, press |-> p]),
               log'[Len(log) + 1] = [press |-> p, owner |-> _classifyEscapeOwner, scene |-> scene],
               \A g \in 1..Len(log) : log'[g] = log[g]
        PROVE  EscapeEvents'
    <3> DEFINE e == [key |-> "esc", gen |-> Len(log) + 1, press |-> p]
    <3>0. Len(log) \in Nat
      BY PressesAreNumbers
    <3>1. e \in [key : {"F1", "F2", "b", "esc"}, gen : Nat, press : 0..MaxInputs]
          /\ e.gen = Len(log) + 1 /\ e.key = "esc"
      BY <3>0, KeyBounds
    <3> HIDE DEF e
    <3>2. /\ Len(events') = Len(events) + 1 /\ events'[Len(events) + 1] = e
          /\ \A i \in 1..Len(events) : events'[i] = events[i]
          /\ \A i \in 1..Len(events') : i \in 1..Len(events) \/ i = Len(events) + 1
          /\ Len(events) \in Nat
      BY <2>4, <3>1, EventAdded DEF e
    <3>3. ASSUME NEW i \in 1..Len(events'), events'[i].key = "esc",
                 log'[events'[i].gen].owner # "MOD_UI"
          PROVE  ~isInputing' /\ \A j \in 1..(i - 1) : events'[j].key \notin {"F1", "F2"}
      <4>1. \A j \in 1..(i - 1) : j \in 1..Len(events) /\ events'[j] = events[j]
        BY <3>2
      <4>2. CASE i \in 1..Len(events)
        <5>1. events'[i] = events[i] /\ log'[events[i].gen] = log[events[i].gen]
          BY <1>0, <2>4, <3>2, <3>3, <4>2
        <5> QED
          BY <2>0, <3>3, <4>1, <4>2, <5>1 DEF EscapeEvents, isInputing
      <4>3. CASE i = Len(events) + 1
        <5>1. _classifyEscapeOwner # "MOD_UI"
          BY <2>4, <3>1, <3>2, <3>3, <4>3
        <5>2. ~isInputing /\ \A j \in DOMAIN events : events[j].key \notin {"F1", "F2"}
          BY <5>1 DEF _classifyEscapeOwner
        <5>3. DOMAIN events = 1..Len(events)
          BY LenProperties DEF KeysTypes, Hotkeys
        <5> QED
          BY <2>0, <4>1, <5>2, <5>3 DEF isInputing
      <4> QED
        BY <3>2, <4>2, <4>3
    <3>4. ASSUME NEW i \in 1..Len(events'), NEW j \in 1..Len(events'),
                 events'[i].key = "esc", events'[j].key = "esc", events'[i].gen = events'[j].gen
          PROVE  i = j
      <4>1. \A k \in 1..Len(events) : events'[k].key = "esc" => events'[k].gen # Len(log) + 1
        BY <1>0, <3>0, <3>2
      <4> QED
        BY <3>1, <3>2, <3>4, <4>1 DEF EscapeEvents
    <3> QED
      BY <3>3, <3>4 DEF EscapeEvents
  <2> QED
    BY <1>4, <2>1, <2>2, <2>3, <2>4, MessageCases
<1>5. CASE ReadKeys
  <2> DEFINE e == [key |-> "b", gen |-> 0, press |-> bkey.press]
  <2>1. UNCHANGED <<log, ui>> /\ (events' = events \/ events' = Append(events, e))
    BY <1>5 DEF ReadKeys
  <2>2. e \in [key : {"F1", "F2", "b", "esc"}, gen : Nat, press : 0..MaxInputs] /\ e.key # "esc"
    <3>1. bkey.press \in 0..MaxInputs
      BY KeyBounds DEF KeysTypes
    <3> QED
      BY <3>1
  <2> HIDE DEF e
  <2> QED
    BY <1>1, <1>2, <2>1, <2>2
<1>6. CASE HandleHotkey
  <2> DEFINE e == Head(events)
  <2>1. log' = log /\ events # <<>> /\ events' = Tail(events)
    BY <1>6 DEF HandleHotkey
  <2>2. /\ Len(events') = Len(events) - 1 /\ Len(events) \in Nat \ {0} /\ 1 \in 1..Len(events)
        /\ e = events[1]
        /\ \A i \in 1..Len(events') : /\ events'[i] = events[i + 1] /\ i + 1 \in 1..Len(events)
                                      /\ 1 < i + 1
    BY <2>1, EventRemoved
  <2>3. e.key \in {"F1", "F2", "b", "esc"}
    BY <2>2, PressesAreNumbers
  <2>4. ASSUME NEW i \in 1..Len(events'), events'[i].key = "esc",
               log'[events'[i].gen].owner # "MOD_UI"
        PROVE  ~isInputing' /\ \A j \in 1..(i - 1) : events'[j].key \notin {"F1", "F2"}
    <3>1. /\ ~isInputing /\ \A j \in 1..((i + 1) - 1) : events[j].key \notin {"F1", "F2"}
      BY <2>1, <2>2, <2>4 DEF EscapeEvents
    <3>2. \A j \in 1..(i - 1) : events'[j].key \notin {"F1", "F2"}
      <4>1. \A j \in 1..(i - 1) : j \in 1..Len(events') /\ j + 1 \in 1..((i + 1) - 1)
        BY <2>2
      <4> QED
        BY <2>2, <3>1, <4>1
    <3>3. e.key \notin {"F1", "F2"}
      <4>1. 1 \in 1..((i + 1) - 1)
        BY <2>2
      <4> QED
        BY <2>2, <3>1, <4>1
    <3>4. ui' = ui \/ ui' = [ui EXCEPT !.picker = FALSE]
      BY <1>6, <2>3, <3>1, <3>3 DEF HandleHotkey, Escaped
    <3>5. ~isInputing'
      BY <3>1, <3>4 DEF isInputing, KeysTypes, PanelNames
    <3> QED
      BY <3>2, <3>5
  <2>5. ASSUME NEW i \in 1..Len(events'), NEW j \in 1..Len(events'),
               events'[i].key = "esc", events'[j].key = "esc", events'[i].gen = events'[j].gen
        PROVE  i = j
    <3>1. i + 1 = j + 1
      BY <2>2, <2>5 DEF EscapeEvents
    <3> QED
      BY <3>1
  <2> QED
    BY <2>4, <2>5 DEF EscapeEvents
<1>7. CASE Chat
  BY <1>3, <1>7 DEF Chat
<1>8. CASE InputSteps \/ (FrameSteps /\ ~Chat)
  <2>1. UNCHANGED <<events, log, ui>>
    BY <1>8 DEF InputSteps, PressEscape, RepeatEscape, ReleaseEscape, PressB, ReleaseB, Tap,
                SwitchAway, SwitchBack, FrameSteps, EnterRouting, Routed, AskEscape,
                Native, UpdateHostlist, LeaveOrWalk
  <2> QED
    BY <1>2, <2>1
<1> QED
  BY <1>4, <1>5, <1>6, <1>7, <1>8, KeysSteps

(***************************************************************************)
(* The scene, and the key that closes the picker.                          *)
(***************************************************************************)
\* The scene of a frame, and of the presses made in it.
LEMMA SceneKept ==
  ASSUME KeysTypes, InOrder, SceneOfFrame, KeysNext
  PROVE  SceneOfFrame'
<1> USE DEF keyboard, escape, panels, history, KeepProgram
<1>0. read.fresh \in Nat /\ esc.press \in Nat /\ Len(log) \in Nat /\ scene \in Scenes
      /\ \A g \in 1..Len(log) : log[g].press \in Nat
  BY PressesAreNumbers DEF KeysTypes
<1>1. ASSUME \/ newScene' = scene' \/ stage' = "keys"
             \/ scene' # "select" /\ stage' \in {"list", "chat", "chatting", "leave", "closed"},
             UNCHANGED <<read, log, scene>>
      PROVE  SceneOfFrame'
  BY <1>1 DEF SceneOfFrame
<1>2. CASE InputSteps
  <2>1. UNCHANGED <<read, log, scene, newScene, stage>>
    BY <1>2 DEF InputSteps, PressEscape, RepeatEscape, ReleaseEscape, PressB, ReleaseB, Tap,
                SwitchAway, SwitchBack
  <2> QED
    BY <2>1 DEF SceneOfFrame
<1>3. CASE HandleHotkey \/ AskEscape
  <2>1. UNCHANGED <<read, log, scene, newScene, stage>>
    BY <1>3 DEF HandleHotkey, AskEscape
  <2> QED
    BY <2>1 DEF SceneOfFrame
<1>4. CASE WindowMessage
  <2>1. UNCHANGED <<read, scene, newScene, stage>>
    BY <1>4 DEF WindowMessage
  <2>2. \/ log' = log
        \/ /\ Len(log') = Len(log) + 1 /\ log'[Len(log) + 1].scene = scene
           /\ \A g \in 1..Len(log) : log'[g] = log[g]
    <3>1. ASSUME NEW p \in 1..MaxInputs,
                 log'[Len(log) + 1] = [press |-> p, owner |-> _classifyEscapeOwner, scene |-> scene]
          PROVE  log'[Len(log) + 1].scene = scene
      BY <3>1
    <3> QED
      BY <1>4, <3>1, MessageCases
  <2> QED
    BY <1>0, <2>1, <2>2 DEF SceneOfFrame
<1>5. CASE ReadKeys
  <2>1. /\ scene' = newScene' /\ log' = log /\ read'.fresh \in {0, esc.press}
    BY <1>5 DEF ReadKeys
  <2>2. \A g \in 1..Len(log) : ~(read'.fresh # 0 /\ log[g].press > read'.fresh)
    BY <1>0, <2>1 DEF InOrder
  <2> QED
    BY <2>1, <2>2 DEF SceneOfFrame
<1>6. CASE EnterRouting("route", "routing") \/ Routed
  <2>1. UNCHANGED <<read, log, scene, newScene>> /\ stage \in {"route", "routing"}
    BY <1>6 DEF EnterRouting, Routed
  <2> QED
    BY <1>1, <2>1 DEF SceneOfFrame
<1>7. CASE EnterRouting("chat", "chatting") \/ Chat
  <2>1. /\ UNCHANGED <<read, log, scene, newScene>> /\ stage \in {"chat", "chatting"}
        /\ stage' \in {"chatting", After("chat")}
    BY <1>7 DEF EnterRouting, Chat
  <2> QED
    BY <1>0, <1>1, <2>1, NextStep DEF SceneOfFrame, Scenes
<1>8. CASE Native
  <2>1. UNCHANGED <<read, log, scene>> /\ stage' = After("native")
    BY <1>8 DEF Native
  <2> QED
    BY <1>0, <1>1, <2>1, NextStep DEF Scenes
<1>9. CASE UpdateHostlist \/ LeaveOrWalk
  <2>1. /\ UNCHANGED <<read, log, scene, newScene>> /\ stage \in {"list", "leave"}
        /\ stage' \in {"keys", "chat", "closed"}
    BY <1>9 DEF UpdateHostlist, LeaveOrWalk
  <2> QED
    BY <1>1, <2>1 DEF SceneOfFrame
<1> QED
  BY <1>2, <1>3, <1>4, <1>5, <1>6, <1>7, <1>8, <1>9, KeysSteps DEF FrameSteps

\* The B that met the picker stays blocked until it is let go, so the game never notes it.
LEMMA PickerKept ==
  ASSUME KeysTypes, EffectsShaped, PickerHidesB, KeysNext
  PROVE  /\ PickerHidesB'
         /\ ReadKeys => effects' = effects
<1> USE DEF keyboard, escape, panels, history, KeepProgram
<1>0. bkey.press \in Nat /\ bkey \in [held : BOOLEAN, press : Nat]
      /\ \A i \in 1..Len(events) : events[i].press \in Nat
  BY PressesAreNumbers DEF KeysTypes
<1>1. ASSUME UNCHANGED <<events, effects, bkey, blocking>>
      PROVE  PickerHidesB'
  BY <1>1 DEF PickerHidesB
<1>2. CASE PressB
  <2>1. UNCHANGED <<events, effects, blocking>> /\ bkey'.press = bkey.press + 1
    BY <1>0, <1>2 DEF PressB
  <2>2. \A i \in 1..Len(events) :
          events[i].key = "b" => events[i].press <= bkey'.press /\ events[i].press # bkey'.press
    BY <1>0, <2>1 DEF PickerHidesB
  <2>3. ASSUME NEW f \in effects, f[1] = "b"
        PROVE  f[2] <= bkey'.press /\ f[2] # bkey'.press /\ f[3] = "picker"
    <3>1. f[2] <= bkey.press /\ f[3] = "picker"
      BY <2>3 DEF PickerHidesB
    <3>2. f[2] \in Nat
      <4>1. PICK k \in {"esc", "b"}, p \in Nat, w \in PanelWords \cup {"lobby", "game"} :
              f = <<k, p, w>>
        BY DEF EffectsShaped
      <4> QED
        BY <4>1
    <3> QED
      BY <1>0, <2>1, <3>1, <3>2
  <2> QED
    BY <1>2, <2>1, <2>2, <2>3 DEF PickerHidesB, PressB, ReadKeys
<1>3. CASE ReleaseB
  <2>1. UNCHANGED <<events, effects, blocking>> /\ bkey'.press = bkey.press /\ bkey'.held = FALSE
    BY <1>0, <1>3 DEF ReleaseB
  <2> QED
    BY <1>3, <2>1 DEF PickerHidesB, ReleaseB
<1>4. CASE WindowMessage
  <2>1. UNCHANGED <<effects, bkey, blocking>>
    BY <1>4 DEF WindowMessage
  <2>2. ASSUME NEW e \in [key : {"F1", "F2", "b", "esc"}, gen : Nat, press : 0..MaxInputs],
               events' = Append(events, e), e.key # "b"
        PROVE  PickerHidesB'
    <3>1. /\ Len(events') = Len(events) + 1 /\ events'[Len(events) + 1] = e
          /\ \A i \in 1..Len(events) : events'[i] = events[i]
          /\ \A i \in 1..Len(events') : i \in 1..Len(events) \/ i = Len(events) + 1
      BY <2>2, EventAdded
    <3> QED
      BY <2>1, <2>2, <3>1 DEF PickerHidesB
  <2>3. CASE events' = events
    BY <1>1, <2>1, <2>3
  <2>4. CASE events' = <<>>
    <3>1. Len(events') = 0
      BY <2>4
    <3> QED
      BY <2>1, <3>1 DEF PickerHidesB
  <2>5. ASSUME NEW k \in {"F1", "F2"}, events' = Append(events, [key |-> k, gen |-> 0, press |-> 0])
        PROVE  PickerHidesB'
    <3>1. [key |-> k, gen |-> 0, press |-> 0]
            \in [key : {"F1", "F2", "b", "esc"}, gen : Nat, press : 0..MaxInputs]
          /\ [key |-> k, gen |-> 0, press |-> 0].key # "b"
      BY KeyBounds
    <3> QED
      BY <2>2, <2>5, <3>1
  <2>6. ASSUME NEW p \in 1..MaxInputs,
               events' = Append(events, [key |-> "esc", gen |-> Len(log) + 1, press |-> p])
        PROVE  PickerHidesB'
    <3>1. [key |-> "esc", gen |-> Len(log) + 1, press |-> p]
            \in [key : {"F1", "F2", "b", "esc"}, gen : Nat, press : 0..MaxInputs]
          /\ [key |-> "esc", gen |-> Len(log) + 1, press |-> p].key # "b"
      BY KeyBounds, PressesAreNumbers
    <3> QED
      BY <2>2, <2>6, <3>1
  <2>7. PickerHidesB'
    BY <1>4, <2>3, <2>4, <2>5, <2>6, MessageCases
  <2> QED
    BY <2>1, <2>7
<1>5. CASE ReadKeys
  <2> DEFINE e == [key |-> "b", gen |-> 0, press |-> bkey.press]
             b == bkey.held
  <2>1. /\ bkey' = bkey /\ blocking' = Hidden(b)
        /\ events' = IF b /\ ~mappedDown /\ ui.picker THEN Append(events, e) ELSE events
        /\ effects' = IF b /\ ~Hidden(b) THEN SeenByGame ELSE effects
    BY <1>5 DEF ReadKeys
  <2>2. effects' = effects
    <3>1. CASE b /\ ~Hidden(b)
      <4>1. <<"b", bkey.press, "picker">> \notin effects
        <5>1. <<"b", bkey.press, "picker">>[1] = "b" /\ <<"b", bkey.press, "picker">>[2] = bkey.press
          OBVIOUS
        <5>2. ~blocking
          BY <3>1 DEF Hidden
        <5> QED
          BY <3>1, <5>1, <5>2 DEF PickerHidesB
      <4> QED
        BY <2>1, <3>1, <4>1 DEF SeenByGame
    <3>2. CASE ~(b /\ ~Hidden(b))
      BY <2>1, <3>2
    <3> QED
      BY <3>1, <3>2
  <2>3. blocking /\ b => blocking'
    BY <2>1 DEF Hidden
  <2>4. /\ \A f \in effects :
             f[1] = "b" => /\ f[2] <= bkey.press /\ f[3] = "picker"
                           /\ f[2] = bkey.press /\ bkey.held => blocking'
        /\ \A i \in 1..Len(events) :
             events[i].key = "b" => /\ events[i].press <= bkey.press
                                    /\ events[i].press = bkey.press /\ bkey.held => blocking'
    BY <2>3 DEF PickerHidesB
  <2>5. CASE events' = events
    BY <2>1, <2>2, <2>4, <2>5 DEF PickerHidesB
  <2>6. CASE ui.picker /\ events' = Append(events, e)
    <3>1. e \in [key : {"F1", "F2", "b", "esc"}, gen : Nat, press : 0..MaxInputs]
          /\ e.press = bkey.press
      <4>1. bkey.press \in 0..MaxInputs
        BY KeyBounds DEF KeysTypes
      <4> QED
        BY <4>1
    <3> HIDE DEF e
    <3>2. /\ Len(events') = Len(events) + 1 /\ events'[Len(events) + 1] = e
          /\ \A i \in 1..Len(events) : events'[i] = events[i]
          /\ \A i \in 1..Len(events') : i \in 1..Len(events) \/ i = Len(events) + 1
      BY <2>6, <3>1, EventAdded
    <3>3. blocking' /\ e.press <= bkey.press
      BY <1>0, <2>1, <2>6, <3>1 DEF Hidden, isInputing
    <3>4. ASSUME NEW i \in 1..Len(events'), events'[i].key = "b"
          PROVE  events'[i].press <= bkey'.press
      BY <2>1, <2>4, <3>2, <3>3, <3>4
    <3> QED
      BY <2>1, <2>2, <2>4, <3>3, <3>4 DEF PickerHidesB
  <2>7. PickerHidesB'
    BY <2>1, <2>5, <2>6
  <2> QED
    BY <2>2, <2>7
<1>6. CASE HandleHotkey
  <2> DEFINE e == Head(events)
  <2>1. UNCHANGED <<bkey, blocking>> /\ events # <<>> /\ events' = Tail(events)
    BY <1>6 DEF HandleHotkey
  <2>2. /\ e = events[1] /\ 1 \in 1..Len(events)
        /\ \A i \in 1..Len(events') : events'[i] = events[i + 1] /\ i + 1 \in 1..Len(events)
    BY <2>1, EventRemoved
  <2>3. e.key \in {"F1", "F2", "b", "esc"}
    BY <2>2, PressesAreNumbers
  <2>4. \A f \in effects' : \/ f \in effects \/ f[1] # "b"
                            \/ e.key = "b" /\ f = <<"b", e.press, "picker">>
    <3>1. CASE e.key \in {"F1", "F2"}
      BY <1>6, <3>1 DEF HandleHotkey
    <3>2. CASE e.key = "b"
      BY <1>6, <3>2 DEF HandleHotkey
    <3>3. CASE e.key = "esc"
      <4>1. effects' = effects \/ \E w : effects' = effects \cup {<<"esc", e.press, w>>}
        BY <1>6, <3>3 DEF HandleHotkey, Escaped
      <4> QED
        BY <4>1
    <3> QED
      BY <2>3, <3>1, <3>2, <3>3
  <2>5. e.key = "b" => /\ e.press <= bkey.press
                       /\ e.press = bkey.press /\ bkey.held => blocking
    BY <2>2 DEF PickerHidesB
  <2>6. ASSUME NEW f \in effects', f[1] = "b"
        PROVE  /\ f[2] <= bkey.press /\ f[3] = "picker"
               /\ f[2] = bkey.press /\ bkey.held => blocking
    <3>1. CASE f \in effects
      BY <2>6, <3>1 DEF PickerHidesB
    <3>2. CASE e.key = "b" /\ f = <<"b", e.press, "picker">>
      BY <2>5, <3>2
    <3> QED
      BY <2>4, <2>6, <3>1, <3>2
  <2>7. \A i \in 1..Len(events') :
          events'[i].key = "b" => /\ events'[i].press <= bkey.press
                                  /\ events'[i].press = bkey.press /\ bkey.held => blocking
    BY <2>2 DEF PickerHidesB
  <2> QED
    BY <1>6, <2>1, <2>6, <2>7 DEF PickerHidesB, HandleHotkey, ReadKeys
<1>7. CASE FrameSteps
  <2>1. UNCHANGED <<events, bkey, blocking>>
    BY <1>7 DEF FrameSteps, EnterRouting, Routed, Chat, AskEscape, Native, UpdateHostlist, LeaveOrWalk
  <2>2. effects' = effects \/ \E p, w : effects' = effects \cup {<<"esc", p, w>>}
    BY <1>7 DEF FrameSteps, EnterRouting, Routed, Chat, AskEscape, Native, UpdateHostlist, LeaveOrWalk
  <2>3. \A f \in effects' : f \in effects \/ f[1] # "b"
    BY <2>2
  <2>4. PickerHidesB'
    BY <2>1, <2>3 DEF PickerHidesB
  <2>5. ReadKeys => effects' = effects
    BY <1>5
  <2> QED
    BY <2>4, <2>5
<1>8. CASE InputSteps /\ ~PressB /\ ~ReleaseB
  <2>1. UNCHANGED <<events, effects, bkey, blocking>>
    BY <1>8 DEF InputSteps, PressEscape, RepeatEscape, ReleaseEscape, Tap, SwitchAway, SwitchBack
  <2> QED
    BY <1>1, <2>1
<1> QED
  BY <1>2, <1>3, <1>4, <1>5, <1>6, <1>7, <1>8, KeysSteps

(***************************************************************************)
(* What a press does.                                                      *)
(***************************************************************************)
\* An effect added is done by its press and by no other.
LEMMA DoneAfter ==
  ASSUME NEW p, NEW w, effects' = effects \cup {<<"esc", p, w>>}
  PROVE  /\ \A q : q # p => Done(q)' = Done(q)
         /\ Done(p)' = Done(p) \cup {<<"esc", p, w>>}
<1>1. <<"esc", p, w>>[1] = "esc" /\ <<"esc", p, w>>[2] = p
  OBVIOUS
<1> QED
  BY <1>1 DEF Done

\* The generations made so far, and the excuses, stay.
LogGrows ==
  /\ Len(log) \in Nat /\ Len(log') \in Nat /\ Len(log) <= Len(log')
  /\ \A g \in 1..Len(log) : log'[g] = log[g]
ExcusesStay == early \subseteq early' /\ interrupted \subseteq interrupted'

\* Generations and excuses are only ever added.
LEMMA LogsGrow ==
  ASSUME KeysTypes, KeysNext
  PROVE  LogGrows /\ ExcusesStay
<1> USE DEF keyboard, escape, panels, history, KeepProgram
<1>0. Len(log) \in Nat
  BY PressesAreNumbers
<1>1. CASE WindowMessage
  <2>1. log' = log \/ (Len(log') = Len(log) + 1 /\ \A g \in 1..Len(log) : log'[g] = log[g])
    BY <1>1, MessageCases
  <2>2. early' = early
    BY <1>1 DEF WindowMessage
  <2>3. interrupted \subseteq interrupted'
    <3>1. messages \in Messages /\ messages # <<>>
      BY <1>1 DEF WindowMessage, KeysTypes
    <3>2. Head(messages).kind \in {"down", "up", "F1", "F2", "blur"}
      <4>1. Head(messages) = messages[1] /\ Len(messages) \in Nat \ {0}
        BY <3>1, TailAt DEF Messages
      <4> QED
        BY <4>1, PressesAreNumbers
    <3> QED
      BY <1>1, <3>2 DEF WindowMessage
  <2> QED
    BY <1>0, <2>1, <2>2, <2>3 DEF LogGrows, ExcusesStay
<1>2. CASE InputSteps \/ ReadKeys \/ HandleHotkey
  <2>1. UNCHANGED <<log, early, interrupted>>
    BY <1>2 DEF InputSteps, PressEscape, RepeatEscape, ReleaseEscape, PressB, ReleaseB, Tap,
                SwitchAway, SwitchBack, ReadKeys, HandleHotkey
  <2> QED
    BY <1>0, <2>1 DEF LogGrows, ExcusesStay
<1>3. CASE FrameSteps
  <2>1. UNCHANGED <<log, interrupted>> /\ early \subseteq early'
    BY <1>3 DEF FrameSteps, EnterRouting, Routed, Chat, AskEscape, Native, UpdateHostlist, LeaveOrWalk
  <2> QED
    BY <1>0, <2>1 DEF LogGrows, ExcusesStay
<1> QED
  BY <1>1, <1>2, <1>3, KeysSteps

\* A press that is not excused has one generation.
LEMMA OneGeneration ==
  ASSUME LoggedOnce, NEW g \in 1..Len(log), NEW h \in 1..Len(log), log[g].press = log[h].press,
         log[g].press \notin Excused
  PROVE  g = h
BY DEF LoggedOnce, Excused

\* No effect of Escape is added.
LEMMA EffectsStay ==
  ASSUME EffectsMeant, EffectsOnce, LogGrows, ExcusesStay,
         \A e \in effects' : e \in effects \/ e[1] # "esc"
  PROVE  EffectsMeant' /\ EffectsOnce'
<1>1. \A q : q \notin Excused' => q \notin Excused
  BY DEF ExcusesStay, Excused
<1>2. ASSUME NEW e \in effects', e[1] = "esc", e[2] \notin Excused'
      PROVE  \E g \in 1..Len(log') : log'[g].press = e[2] /\ OwnerDoes(log'[g].owner, e[3])
  <2>1. PICK g \in 1..Len(log) : log[g].press = e[2] /\ OwnerDoes(log[g].owner, e[3])
    BY <1>1, <1>2 DEF EffectsMeant
  <2>2. g \in 1..Len(log') /\ log'[g] = log[g]
    BY DEF LogGrows
  <2> QED
    BY <2>1, <2>2
<1>3. EffectsOnce'
  BY <1>1 DEF EffectsOnce
<1> QED
  BY <1>2, <1>3 DEF EffectsMeant

\* One is added, and is the only one of its press, and meant.
LEMMA EffectAdded ==
  ASSUME EffectsMeant, EffectsOnce, LogGrows, ExcusesStay, 
         NEW p, NEW w, effects' = effects \cup {<<"esc", p, w>>},
         p \notin Excused' =>
           /\ Done(p) \subseteq {<<"esc", p, w>>}
           /\ \E g \in 1..Len(log') : log'[g].press = p /\ OwnerDoes(log'[g].owner, w)
  PROVE  EffectsMeant' /\ EffectsOnce'
<1> DEFINE new == <<"esc", p, w>>
<1>1. \A q : q \notin Excused' => q \notin Excused
  BY DEF ExcusesStay, Excused
<1>2. new[1] = "esc" /\ new[2] = p /\ new[3] = w
  OBVIOUS
<1>3. effects' = effects \cup {new}
  OBVIOUS
<1>4. p \notin Excused' => \A e \in effects : e[1] = "esc" /\ e[2] = p => e = new
  BY DEF Done
<1> HIDE DEF new
<1>5. ASSUME NEW e \in effects', e[1] = "esc", e[2] \notin Excused'
      PROVE  \E g \in 1..Len(log') : log'[g].press = e[2] /\ OwnerDoes(log'[g].owner, e[3])
  <2>1. CASE e = new
    BY <1>2, <1>5, <2>1
  <2>2. CASE e \in effects
    <3>1. PICK g \in 1..Len(log) : log[g].press = e[2] /\ OwnerDoes(log[g].owner, e[3])
      BY <1>1, <1>5, <2>2 DEF EffectsMeant
    <3>2. g \in 1..Len(log') /\ log'[g] = log[g]
      BY DEF LogGrows
    <3> QED
      BY <3>1, <3>2
  <2> QED
    BY <1>3, <2>1, <2>2
<1>6. ASSUME NEW e \in effects', NEW f \in effects',
             e[1] = "esc", f[1] = "esc", e[2] = f[2], e[2] \notin Excused'
      PROVE  e = f
  <2>1. CASE e \in effects /\ f \in effects
    BY <1>1, <1>6, <2>1 DEF EffectsOnce
  <2>2. CASE e = new
    BY <1>2, <1>3, <1>4, <1>6, <2>2
  <2>3. CASE f = new
    BY <1>2, <1>3, <1>4, <1>6, <2>3
  <2> QED
    BY <1>3, <2>1, <2>2, <2>3
<1> QED
  BY <1>5, <1>6 DEF EffectsMeant, EffectsOnce

\* A request stays one as long as its press does nothing and is not on its way again.
LEMMA RequestStays ==
  ASSUME NEW p, NEW owner, Requested(p, owner), LogGrows, ExcusesStay,
         p # 0 /\ p \notin Excused' =>
           /\ Done(p)' = Done(p)
           /\ \A i \in 1..Len(events') : events'[i].key = "esc" => events'[i].press # p
  PROVE  Requested(p, owner)'
<1>1. p \notin Excused' => p \notin Excused
  BY DEF ExcusesStay, Excused
<1>2. ASSUME p # 0, p \notin Excused'
      PROVE  \E g \in 1..Len(log') : log'[g].press = p /\ log'[g].owner = owner
  <2>1. PICK g \in 1..Len(log) : log[g].press = p /\ log[g].owner = owner
    BY <1>1, <1>2 DEF Requested
  <2>2. g \in 1..Len(log') /\ log'[g] = log[g]
    BY DEF LogGrows
  <2> QED
    BY <2>1, <2>2
<1>3. ASSUME p # 0, p \notin Excused'
      PROVE  Done(p)' = {}
  BY <1>1, <1>3 DEF Requested
<1> QED
  BY <1>2, <1>3 DEF Requested

\* Zero asks for nothing.
LEMMA NoRequest ==
  ASSUME NEW owner
  PROVE  Requested(0, owner)'
BY DEF Requested

\* The steps that do nothing of Escape's and have no new event of it.
LEMMA QuietStep ==
  ASSUME EventsUndone, Requests, LogGrows, ExcusesStay,
         \A i \in 1..Len(events) : events[i].key = "esc" => events[i].gen \in 1..Len(log),
         \A q : Done(q)' = Done(q),
         \A i \in 1..Len(events') : events'[i].key = "esc" =>
           \E j \in 1..Len(events) : events'[i] = events[j],
         hostlist'.exit \in {0, hostlist.exit}, lobbyExit' \in {0, lobbyExit}
  PROVE  EventsUndone' /\ Requests'
<1>1. \A q : q \notin Excused' => q \notin Excused
  BY DEF ExcusesStay, Excused
<1>2. ASSUME NEW i \in 1..Len(events'), events'[i].key = "esc",
             events'[i].press \notin Excused', log'[events'[i].gen].owner # "NATIVE_GAME"
      PROVE  \A p : p = events'[i].press => Done(p)' = {}
  <2>1. PICK j \in 1..Len(events) : events'[i] = events[j]
    BY <1>2
  <2>2. log'[events[j].gen] = log[events[j].gen]
    BY <1>2, <2>1 DEF LogGrows
  <2>3. Done(events[j].press) = {}
    BY <1>1, <1>2, <2>1, <2>2 DEF EventsUndone
  <2> QED
    BY <2>1, <2>3
<1>3. ASSUME NEW p, NEW owner, Requested(p, owner)
      PROVE  Requested(p, owner)'
  <2>1. ASSUME p # 0, p \notin Excused', NEW i \in 1..Len(events'), events'[i].key = "esc"
        PROVE  events'[i].press # p
    BY <1>1, <1>3, <2>1 DEF Requested
  <2> QED
    BY <1>3, <2>1, RequestStays
<1>4. \A p : p = hostlist'.exit => Requested(p, "MOD_UI")'
  <2>1. Requested(hostlist.exit, "MOD_UI")
    BY DEF Requests
  <2> QED
    BY <1>3, <2>1, NoRequest
<1>5. \A p : p = lobbyExit' => Requested(p, "LOBBY")'
  <2>1. Requested(lobbyExit, "LOBBY")
    BY DEF Requests
  <2> QED
    BY <1>3, <2>1, NoRequest
<1>6. EventsUndone'
  BY <1>2 DEF EventsUndone, Done
<1>7. Requests'
  BY <1>4, <1>5 DEF Requests, Requested, Done
<1> QED
  BY <1>6, <1>7


\* What _processHotkeyEvents does with one event.
LEMMA HotkeyCases ==
  ASSUME KeysTypes, HandleHotkey
  PROVE  /\ events # <<>> /\ events' = Tail(events) /\ UNCHANGED <<log, early, interrupted>>
         /\ \/ /\ events[1].key # "esc" /\ UNCHANGED <<hostlist, lobbyExit, consumed>>
               /\ \/ effects' = effects
                  \/ effects' = effects \cup {<<"b", events[1].press, "picker">>}
            \/ /\ events[1].key = "esc" /\ isInputing /\ UNCHANGED <<hostlist, lobbyExit>>
               /\ consumed' = events[1].gen
               /\ \E w \in PanelNames : effects' = effects \cup {<<"esc", events[1].press, w>>}
            \/ /\ events[1].key = "esc" /\ ~isInputing /\ UNCHANGED effects
               /\ \/ /\ log[events[1].gen].owner = "MOD_UI" /\ consumed' = events[1].gen
                     /\ UNCHANGED lobbyExit
                     /\ hostlist'.exit \in {hostlist.exit, events[1].press}
                  \/ /\ log[events[1].gen].owner = "LOBBY" /\ consumed' = events[1].gen
                     /\ UNCHANGED hostlist /\ lobbyExit' \in {lobbyExit, events[1].press}
                  \/ /\ log[events[1].gen].owner = "NATIVE_GAME"
                     /\ UNCHANGED <<hostlist, lobbyExit, consumed>>
<1> DEFINE e == Head(events)
<1>1. events # <<>> /\ events' = Tail(events) /\ UNCHANGED <<log, early, interrupted>>
  BY DEF HandleHotkey
<1>2. e = events[1] /\ 1 \in 1..Len(events)
  BY <1>1, EventRemoved
<1>3. e.key \in {"F1", "F2", "b", "esc"}
  BY <1>2, PressesAreNumbers
<1>4. CASE e.key \in {"F1", "F2"}
  <2>1. UNCHANGED <<hostlist, lobbyExit, consumed, effects>>
    BY <1>4 DEF HandleHotkey
  <2> QED
    BY <1>1, <1>2, <1>4, <2>1
<1>5. CASE e.key = "b"
  <2>1. UNCHANGED <<hostlist, lobbyExit, consumed>>
        /\ (effects' = effects \/ effects' = effects \cup {<<"b", e.press, "picker">>})
    BY <1>5 DEF HandleHotkey
  <2> QED
    BY <1>1, <1>2, <1>5, <2>1
<1>6. CASE e.key = "esc"
  <2>0. Escaped(e)
    BY <1>6 DEF HandleHotkey
  <2>1. CASE isInputing
    <3>1. /\ UNCHANGED <<hostlist, lobbyExit>> /\ consumed' = e.gen
          /\ \E w \in PanelNames : effects' = effects \cup {<<"esc", e.press, w>>}
      BY <2>0, <2>1, ClosesAPanel DEF Escaped
    <3> QED
      BY <1>1, <1>2, <1>6, <2>1, <3>1
  <2>2. CASE ~isInputing
    <3>1. log[e.gen].owner \in Owners
      <4>1. e.gen \in 1..Len(log)
        BY <1>2, <1>6 DEF KeysTypes
      <4> QED
        BY <4>1, PressesAreNumbers
    <3>2. hostlist.exit \in {hostlist.exit} /\ [hostlist EXCEPT !.exit = e.press].exit = e.press
      BY DEF KeysTypes
    <3>3. UNCHANGED effects
      BY <2>0, <2>2 DEF Escaped
    <3>4. CASE log[e.gen].owner = "MOD_UI"
      <4>1. /\ hostlist' = IF hostlist.open THEN [hostlist EXCEPT !.exit = e.press]
                           ELSE hostlist
            /\ consumed' = e.gen /\ UNCHANGED lobbyExit
        BY <2>0, <2>2, <3>4 DEF Escaped
      <4>2. hostlist'.exit \in {hostlist.exit, e.press}
        BY <3>2, <4>1
      <4> QED
        BY <1>1, <1>2, <1>6, <2>2, <3>3, <3>4, <4>1, <4>2
    <3>5. CASE log[e.gen].owner = "LOBBY"
      <4>1. /\ lobbyExit' \in {lobbyExit, e.press}
            /\ consumed' = e.gen /\ UNCHANGED hostlist
        BY <2>0, <2>2, <3>5 DEF Escaped
      <4> QED
        BY <1>1, <1>2, <1>6, <2>2, <3>3, <3>5, <4>1
    <3>6. CASE log[e.gen].owner = "NATIVE_GAME"
      <4>1. UNCHANGED <<hostlist, lobbyExit, consumed>>
        BY <2>0, <2>2, <3>6 DEF Escaped
      <4> QED
        BY <1>1, <1>2, <1>6, <2>2, <3>3, <3>6, <4>1
    <3> QED
      BY <3>1, <3>4, <3>5, <3>6 DEF Owners
  <2> QED
    BY <2>1, <2>2
<1> QED
  BY <1>3, <1>4, <1>5, <1>6

\* Every effect is of a key, a press and a word.
LEMMA ShapeKept ==
  ASSUME KeysTypes, EffectsShaped, PickerHidesB, KeysNext
  PROVE  EffectsShaped'
<1>1. ASSUME NEW k \in {"esc", "b"}, NEW p \in Nat, NEW w \in PanelWords \cup {"lobby", "game"},
             effects' = effects \cup {<<k, p, w>>}
      PROVE  EffectsShaped'
  BY <1>1 DEF EffectsShaped
<1>2. CASE effects' = effects
  BY <1>2 DEF EffectsShaped
<1>3. hostlist.exit \in Nat /\ lobbyExit \in Nat /\ read.fresh \in Nat
  BY KeyBounds DEF KeysTypes
<1>4. PanelNames \subseteq PanelWords /\ "picker" \in PanelWords /\ "hostlist" \in PanelWords
  BY DEF PanelWords, PanelNames
<1>5. CASE HandleHotkey
  <2>1. events[1].press \in Nat
    BY <1>5, HotkeyCases, EventRemoved, PressesAreNumbers
  <2>2. \/ effects' = effects \/ effects' = effects \cup {<<"b", events[1].press, "picker">>}
        \/ \E w \in PanelNames : effects' = effects \cup {<<"esc", events[1].press, w>>}
    BY <1>5, HotkeyCases
  <2> QED
    BY <1>1, <1>2, <1>4, <2>1, <2>2
<1>6. CASE FrameSteps
  <2>1. \/ effects' = effects \/ effects' = effects \cup {<<"esc", read.fresh, "game">>}
        \/ effects' = effects \cup {<<"esc", hostlist.exit, "hostlist">>}
        \/ effects' = effects \cup {<<"esc", lobbyExit, "lobby">>}
    BY <1>6 DEF FrameSteps, EnterRouting, Routed, Chat, AskEscape, Native, UpdateHostlist, LeaveOrWalk,
                history
  <2> QED
    BY <1>1, <1>2, <1>3, <1>4, <2>1
<1>7. CASE InputSteps \/ WindowMessage
  <2>1. effects' = effects
    BY <1>7 DEF InputSteps, PressEscape, RepeatEscape, ReleaseEscape, PressB, ReleaseB, Tap,
                SwitchAway, SwitchBack, WindowMessage, KeepProgram, history
  <2> QED
    BY <1>2, <2>1
<1>8. CASE ReadKeys
  BY <1>2, <1>8, PickerKept
<1> QED
  BY <1>5, <1>6, <1>7, <1>8, KeysSteps


\* Events that were on their way before are undone as long as their presses do nothing.
LEMMA UndoneStays ==
  ASSUME EventsUndone, LogGrows, ExcusesStay,
         \A i \in 1..Len(events) : events[i].key = "esc" => events[i].gen \in 1..Len(log),
         \A i \in 1..Len(events') :
           /\ events'[i].key = "esc" /\ events'[i].press \notin Excused'
           /\ log'[events'[i].gen].owner # "NATIVE_GAME"
           => /\ \E j \in 1..Len(events) : events'[i] = events[j]
              /\ \A q : q = events'[i].press => Done(q)' = Done(q)
  PROVE  EventsUndone'
<1>1. \A q : q \notin Excused' => q \notin Excused
  BY DEF ExcusesStay, Excused
<1>2. ASSUME NEW i \in 1..Len(events'), events'[i].key = "esc",
             events'[i].press \notin Excused', log'[events'[i].gen].owner # "NATIVE_GAME"
      PROVE  \A p : p = events'[i].press => Done(p)' = {}
  <2>1. PICK j \in 1..Len(events) : events'[i] = events[j]
    BY <1>2
  <2>2. log'[events[j].gen] = log[events[j].gen]
    BY <1>2, <2>1 DEF LogGrows
  <2>3. Done(events[j].press) = {}
    BY <1>1, <1>2, <2>1, <2>2 DEF EventsUndone
  <2>4. \A q : q = events'[i].press => Done(q)' = Done(q)
    BY <1>2
  <2> QED
    BY <2>1, <2>3, <2>4
<1> QED
  BY <1>2 DEF EventsUndone, Done

\* What each press has done so far, and what its event and its request have still to do.
EffectsInv == EffectsMeant /\ EffectsOnce /\ EventsUndone /\ Requests

\* The requests, one press at a time.
LEMMA RequestsFrom ==
  ASSUME \A p : p = hostlist'.exit => Requested(p, "MOD_UI")',
         \A p : p = lobbyExit' => Requested(p, "LOBBY")'
  PROVE  Requests'
BY DEF Requests, Requested, Done

\* The steps without an effect of Escape.
LEMMA QuietEffects ==
  ASSUME KeysTypes, EffectsInv, LogGrows, ExcusesStay,
         effects \subseteq effects', \A e \in effects' : e \in effects \/ e[1] # "esc",
         \A i \in 1..Len(events') : events'[i].key = "esc" =>
           \E j \in 1..Len(events) : events'[i] = events[j],
         hostlist'.exit \in {0, hostlist.exit}, lobbyExit' \in {0, lobbyExit}
  PROVE  EffectsInv'
<1>1. EffectsMeant' /\ EffectsOnce'
  BY EffectsStay DEF EffectsInv
<1>2. \A q : Done(q)' = Done(q)
  BY DEF Done
<1>3. \A i \in 1..Len(events) : events[i].key = "esc" => events[i].gen \in 1..Len(log)
  BY DEF KeysTypes
<1>4. EventsUndone' /\ Requests'
  BY <1>2, <1>3, QuietStep DEF EffectsInv
<1> QED
  BY <1>1, <1>4 DEF EffectsInv

\* A message of a new press: nothing was done by it, and nothing asked for.
LEMMA MessageEffects ==
  ASSUME KeysTypes, LoggedOnce, EffectsInv, WindowMessage, LogGrows, ExcusesStay
  PROVE  EffectsInv'
<1>1. UNCHANGED <<effects, hostlist, lobbyExit>>
  BY DEF WindowMessage, panels
<1>2. CASE events' = events
  BY <1>1, <1>2, QuietEffects
<1>3. CASE events' = <<>>
  <2>1. Len(events') = 0
    BY <1>3
  <2>2. \A i \in 1..Len(events') : FALSE
    BY <2>1
  <2> QED
    BY <1>1, <2>2, QuietEffects
<1>4. ASSUME NEW k \in {"F1", "F2"}, events' = Append(events, [key |-> k, gen |-> 0, press |-> 0])
      PROVE  EffectsInv'
  <2> DEFINE e == [key |-> k, gen |-> 0, press |-> 0]
  <2>1. e \in [key : {"F1", "F2", "b", "esc"}, gen : Nat, press : 0..MaxInputs] /\ e.key # "esc"
    BY KeyBounds
  <2> HIDE DEF e
  <2>2. /\ Len(events') = Len(events) + 1 /\ events'[Len(events) + 1] = e
        /\ \A i \in 1..Len(events) : events'[i] = events[i]
        /\ \A i \in 1..Len(events') : i \in 1..Len(events) \/ i = Len(events) + 1
    BY <1>4, <2>1, EventAdded DEF e
  <2>3. \A i \in 1..Len(events') : events'[i].key = "esc" =>
          \E j \in 1..Len(events) : events'[i] = events[j]
    BY <2>1, <2>2
  <2> QED
    BY <1>1, <2>3, QuietEffects
<1>5. ASSUME NEW p \in 1..MaxInputs, ~kb.down, Announced(p),
             events' = Append(events, [key |-> "esc", gen |-> Len(log) + 1, press |-> p])
      PROVE  EffectsInv'
  <2> DEFINE e == [key |-> "esc", gen |-> Len(log) + 1, press |-> p]
  <2>1. e \in [key : {"F1", "F2", "b", "esc"}, gen : Nat, press : 0..MaxInputs] /\ e.press = p
    BY KeyBounds, PressesAreNumbers
  <2> HIDE DEF e
  <2>2. /\ Len(events') = Len(events) + 1 /\ events'[Len(events) + 1] = e
        /\ \A i \in 1..Len(events) : events'[i] = events[i]
        /\ \A i \in 1..Len(events') : i \in 1..Len(events) \/ i = Len(events) + 1
    BY <1>5, <2>1, EventAdded DEF e
  <2>3. \A q : Done(q)' = Done(q)
    BY <1>1 DEF Done
  <2>4. \A q : q \notin Excused' => q \notin Excused
    BY DEF ExcusesStay, Excused
  <2>5. p \notin Excused' => ~Logged(p)
    <3>1. p \in Nat
      BY KeyBounds
    <3> QED
      BY <1>5, <2>4, <3>1 DEF LoggedOnce, Excused
  <2>6. p \notin Excused' => Done(p) = {}
    <3>1. ASSUME p \notin Excused', NEW x \in Done(p)
          PROVE  FALSE
      <4>1. \E g \in 1..Len(log) : log[g].press = p
        BY <2>4, <3>1 DEF EffectsInv, EffectsMeant, Done
      <4> QED
        BY <2>5, <3>1, <4>1 DEF Logged
    <3> QED
      BY <3>1
  <2>7. EffectsMeant' /\ EffectsOnce'
    BY <1>1, EffectsStay DEF EffectsInv
  <2>8. EventsUndone'
    <3>1. ASSUME NEW i \in 1..Len(events'), events'[i].key = "esc",
                 events'[i].press \notin Excused', log'[events'[i].gen].owner # "NATIVE_GAME"
          PROVE  Done(events'[i].press) = {}
      <4>1. CASE i = Len(events) + 1
        BY <2>1, <2>2, <2>6, <3>1, <4>1
      <4>2. CASE i \in 1..Len(events)
        <5>1. events'[i] = events[i] /\ events[i].gen \in 1..Len(log)
          BY <2>2, <3>1, <4>2 DEF KeysTypes
        <5>2. log'[events[i].gen] = log[events[i].gen]
          BY <5>1 DEF LogGrows
        <5> QED
          BY <2>4, <3>1, <4>2, <5>1, <5>2 DEF EffectsInv, EventsUndone
      <4> QED
        BY <2>2, <4>1, <4>2
    <3> QED
      BY <1>1, <3>1 DEF EventsUndone, Done
  <2>9. ASSUME NEW r, NEW owner, Requested(r, owner)
        PROVE  Requested(r, owner)'
    <3>1. ASSUME r # 0, r \notin Excused', NEW i \in 1..Len(events'), events'[i].key = "esc"
          PROVE  events'[i].press # r
      <4>1. Logged(r) /\ \A j \in 1..Len(events) : events[j].key = "esc" => events[j].press # r
        BY <2>4, <2>9, <3>1 DEF Requested, Logged
      <4> QED
        BY <2>1, <2>2, <2>5, <3>1, <4>1
    <3> QED
      BY <2>3, <2>9, <3>1, RequestStays
  <2>10. Requests'
    <3>1. Requested(hostlist.exit, "MOD_UI") /\ Requested(lobbyExit, "LOBBY")
      BY DEF EffectsInv, Requests
    <3> QED
      BY <1>1, <2>9, <3>1, RequestsFrom
  <2> QED
    BY <2>7, <2>8, <2>10 DEF EffectsInv
<1> QED
  BY <1>2, <1>3, <1>4, <1>5, MessageCases


\* An event handled: its press does its one thing, or asks for it.
LEMMA HotkeyEffects ==
  ASSUME KeysTypes, LoggedOnce, EscapeEvents, EffectsInv, HandleHotkey, LogGrows, ExcusesStay
  PROVE  EffectsInv'
<1> DEFINE e == events[1]
<1>1. /\ events # <<>> /\ events' = Tail(events) /\ UNCHANGED <<log, early, interrupted>>
      /\ Excused' = Excused
  BY HotkeyCases DEF Excused
<1>2. /\ 1 \in 1..Len(events)
      /\ \A i \in 1..Len(events') : /\ events'[i] = events[i + 1] /\ i + 1 \in 1..Len(events)
                                    /\ 1 < i + 1
  BY <1>1, EventRemoved
<1>3. \A i \in 1..Len(events') : \E j \in 1..Len(events) : events'[i] = events[j]
  BY <1>2
<1>4. \A i \in 1..Len(events) :
        events[i].key = "esc" => /\ events[i].gen \in 1..Len(log)
                                 /\ events[i].press = log[events[i].gen].press
  BY DEF KeysTypes
<1>5. CASE /\ e.key # "esc" /\ UNCHANGED <<hostlist, lobbyExit>>
           /\ (effects' = effects \/ effects' = effects \cup {<<"b", e.press, "picker">>})
  <2>1. effects \subseteq effects' /\ \A x \in effects' : x \in effects \/ x[1] # "esc"
    BY <1>5
  <2> QED
    BY <1>3, <1>5, <2>1, QuietEffects
<1>6. ASSUME e.key = "esc", e.press \notin Excused,
             NEW i \in 1..Len(events'), events'[i].key = "esc"
      PROVE  events'[i].press # e.press
  <2>1. ASSUME events'[i].press = e.press
        PROVE  events[i + 1].gen = e.gen
    <3>1. /\ events[i + 1].gen \in 1..Len(log) /\ e.gen \in 1..Len(log)
          /\ log[events[i + 1].gen].press = log[e.gen].press
          /\ log[events[i + 1].gen].press \notin Excused
      BY <1>2, <1>4, <1>6, <2>1
    <3> QED
      BY <3>1, OneGeneration
  <2> QED
    BY <1>2, <1>6, <2>1 DEF EscapeEvents
<1>7. ASSUME e.key = "esc", isInputing, UNCHANGED <<hostlist, lobbyExit>>,
             NEW w \in PanelNames, effects' = effects \cup {<<"esc", e.press, w>>}
      PROVE  EffectsInv'
  <2> DEFINE p == e.press
  <2>1. e.gen \in 1..Len(log) /\ p = log[e.gen].press /\ log[e.gen].owner = "MOD_UI"
    BY <1>2, <1>4, <1>7 DEF EscapeEvents
  <2>2. p \notin Excused => Done(p) = {}
    BY <1>2, <1>7, <2>1 DEF EffectsInv, EventsUndone
  <2>3. effects' = effects \cup {<<"esc", p, w>>}
    BY <1>7
  <2>4. OwnerDoes(log[e.gen].owner, w)
    BY <2>1 DEF OwnerDoes, PanelWords
  <2>5. p \notin Excused => \A i \in 1..Len(events') : events'[i].key = "esc" => events'[i].press # p
    BY <1>6, <1>7
  <2>6. Requested(hostlist.exit, "MOD_UI") /\ Requested(lobbyExit, "LOBBY")
    BY DEF EffectsInv, Requests
  <2>7. \A r, owner : r # 0 /\ r \notin Excused /\ Requested(r, owner) => r # p
    BY <1>2, <1>7 DEF Requested
  <2>10. EffectsMeant /\ EffectsOnce /\ EventsUndone
    BY DEF EffectsInv
  <2>11. p \notin Excused' =>
           /\ Done(p) \subseteq {<<"esc", p, w>>}
           /\ \E g \in 1..Len(log') : log'[g].press = p /\ OwnerDoes(log'[g].owner, w)
    BY <1>1, <2>1, <2>2, <2>4
  <2> HIDE DEF p
  <2>12. EffectsMeant' /\ EffectsOnce'
    BY <2>3, <2>10, <2>11, EffectAdded
  <2>13. \A q : q # p => Done(q)' = Done(q)
    BY <2>3, DoneAfter
  <2>14. EventsUndone'
    BY <1>1, <1>3, <1>4, <2>5, <2>10, <2>13, UndoneStays
  <2>15. ASSUME NEW r, NEW owner, Requested(r, owner)
         PROVE  Requested(r, owner)'
    <3>1. ASSUME r # 0, r \notin Excused'
          PROVE  /\ Done(r)' = Done(r)
                 /\ \A i \in 1..Len(events') : events'[i].key = "esc" => events'[i].press # r
      BY <1>1, <1>3, <2>7, <2>13, <2>15, <3>1 DEF Requested
    <3> QED
      BY <2>15, <3>1, RequestStays
  <2>16. Requests'
    BY <1>7, <2>6, <2>15, RequestsFrom
  <2> QED
    BY <2>12, <2>14, <2>16 DEF EffectsInv
<1>8. ASSUME e.key = "esc", UNCHANGED effects,
             NEW p, p = e.press, NEW mine, mine = log[e.gen].owner,
             \/ /\ mine = "MOD_UI" /\ UNCHANGED lobbyExit
                /\ hostlist'.exit \in {hostlist.exit, p}
             \/ /\ mine = "LOBBY" /\ UNCHANGED hostlist
                /\ lobbyExit' \in {lobbyExit, p}
      PROVE  EffectsInv'
  <2>1. e.gen \in 1..Len(log) /\ p = log[e.gen].press
    BY <1>2, <1>4, <1>8
  <2>2. p \notin Excused => Done(p) = {}
    BY <1>2, <1>8 DEF EffectsInv, EventsUndone
  <2>3. \A q : Done(q)' = Done(q)
    BY <1>8 DEF Done
  <2>4. EffectsMeant' /\ EffectsOnce'
    BY <1>8, EffectsStay DEF EffectsInv
  <2>5. EventsUndone'
    BY <1>1, <1>3, <1>4, <2>3, UndoneStays DEF EffectsInv
  <2>6. Requested(hostlist.exit, "MOD_UI") /\ Requested(lobbyExit, "LOBBY")
    BY DEF EffectsInv, Requests
  <2>7. Requested(p, mine)'
    <3>1. p \notin Excused => \A i \in 1..Len(events') : events'[i].key = "esc" => events'[i].press # p
      BY <1>6, <1>8
    <3>2. p \notin Excused' =>
            /\ \E g \in 1..Len(log') : log'[g].press = p /\ log'[g].owner = mine
            /\ Done(p)' = {}
            /\ \A i \in 1..Len(events') : events'[i].key = "esc" => events'[i].press # p
      BY <1>1, <1>8, <2>1, <2>2, <2>3, <3>1
    <3> QED
      BY <1>1, <3>2 DEF Requested, Done
  <2>8. ASSUME NEW r, NEW owner, Requested(r, owner)
        PROVE  Requested(r, owner)'
    <3>1. ASSUME r # 0, r \notin Excused', NEW i \in 1..Len(events'), events'[i].key = "esc"
          PROVE  events'[i].press # r
      BY <1>1, <1>3, <2>8, <3>1 DEF Requested
    <3> QED
      BY <2>3, <2>8, <3>1, RequestStays
  <2>9. /\ \A r : r = hostlist'.exit => Requested(r, "MOD_UI")'
        /\ \A r : r = lobbyExit' => Requested(r, "LOBBY")'
    <3>1. CASE /\ mine = "MOD_UI" /\ UNCHANGED lobbyExit
               /\ hostlist'.exit \in {hostlist.exit, p}
      BY <2>6, <2>7, <2>8, <3>1
    <3>2. CASE /\ mine = "LOBBY" /\ UNCHANGED hostlist
               /\ lobbyExit' \in {lobbyExit, p}
      BY <2>6, <2>7, <2>8, <3>2
    <3> QED
      BY <1>8, <3>1, <3>2
  <2>10. Requests'
    BY <2>9, RequestsFrom
  <2> QED
    BY <2>4, <2>5, <2>10 DEF EffectsInv
<1>9. CASE e.key = "esc" /\ UNCHANGED <<effects, hostlist, lobbyExit>>
  BY <1>3, <1>9, QuietEffects
<1> QED
  BY <1>5, <1>7, <1>8, <1>9, HotkeyCases


\* A press that does its one thing now: nothing else waits for it.
LEMMA LastEffect ==
  ASSUME KeysTypes, EffectsInv, LogGrows, ExcusesStay, UNCHANGED <<log, events>>,
         NEW p, NEW w, effects' = effects \cup {<<"esc", p, w>>},
         p \notin Excused' =>
           /\ Done(p) \subseteq {<<"esc", p, w>>}
           /\ \E g \in 1..Len(log) : log[g].press = p /\ OwnerDoes(log[g].owner, w)
           /\ \A i \in 1..Len(events) :
                events[i].key = "esc" /\ log[events[i].gen].owner # "NATIVE_GAME" => events[i].press # p
           /\ hostlist'.exit # p /\ lobbyExit' # p,
         hostlist'.exit \in {0, hostlist.exit}, lobbyExit' \in {0, lobbyExit}
  PROVE  EffectsInv'
<1>1. EffectsMeant' /\ EffectsOnce'
  BY EffectAdded DEF EffectsInv
<1>2. \A q : q # p => Done(q)' = Done(q)
  BY DoneAfter
<1>3. \A i \in 1..Len(events) : events[i].key = "esc" => events[i].gen \in 1..Len(log)
  BY DEF KeysTypes
<1>4. EventsUndone'
  BY <1>2, <1>3, UndoneStays DEF EffectsInv
<1>5. \A q : q \notin Excused' => q \notin Excused
  BY DEF ExcusesStay, Excused
<1>6. ASSUME NEW r, NEW owner, Requested(r, owner), r # 0 /\ r \notin Excused' => r # p
      PROVE  Requested(r, owner)'
  <2>1. ASSUME r # 0, r \notin Excused'
        PROVE  /\ Done(r)' = Done(r)
               /\ \A i \in 1..Len(events') : events'[i].key = "esc" => events'[i].press # r
    BY <1>2, <1>5, <1>6, <2>1 DEF Requested
  <2> QED
    BY <1>6, <2>1, RequestStays
<1>7. Requested(hostlist.exit, "MOD_UI") /\ Requested(lobbyExit, "LOBBY")
  BY DEF EffectsInv, Requests
<1>8. Requests'
  <2>1. \A r : r = hostlist'.exit => Requested(r, "MOD_UI")'
    <3>1. CASE hostlist'.exit = 0
      BY <3>1, NoRequest
    <3>2. CASE hostlist'.exit = hostlist.exit
      BY <1>6, <1>7, <3>2
    <3> QED
      BY <3>1, <3>2
  <2>2. \A r : r = lobbyExit' => Requested(r, "LOBBY")'
    <3>1. CASE lobbyExit' = 0
      BY <3>1, NoRequest
    <3>2. CASE lobbyExit' = lobbyExit
      BY <1>6, <1>7, <3>2
    <3> QED
      BY <3>1, <3>2
  <2> QED
    BY <2>1, <2>2, RequestsFrom
<1> QED
  BY <1>1, <1>4, <1>8 DEF EffectsInv

\* The answer to the game's question.
LEMMA AskEffects ==
  ASSUME KeysTypes, LoggedOnce, EffectsShaped, EffectsInv, AskEscape, LogGrows, ExcusesStay
  PROVE  EffectsInv'
<1> DEFINE new == <<"esc", read.fresh, "game">>
<1>1. UNCHANGED <<log, events, hostlist, lobbyExit, read>>
  BY DEF AskEscape, panels
<1>2. CASE effects' = effects
  BY <1>1, <1>2, QuietEffects
<1>3. ASSUME NEW p, p = read.fresh, ~Refuses, effects' = effects \cup {<<"esc", p, "game">>}
      PROVE  EffectsInv'
  <2>1. \A q : q \notin Excused' => q \notin Excused
    BY DEF ExcusesStay, Excused
  <2>2. ASSUME p \notin Excused'
        PROVE  /\ kb.gen \in 1..Len(log) /\ log[kb.gen].press = p
               /\ log[kb.gen].owner = "NATIVE_GAME"
    <3>1. p \notin early'
      BY <2>2 DEF Excused
    <3>2. kb.gen # 0 /\ log[kb.gen].press = p
      <4>1. early' = IF kb.gen /= 0 /\ log[kb.gen].press = read.fresh THEN early
                     ELSE early \cup {read.fresh}
                                \cup (IF kb.gen = 0 \/ Refuses THEN {} ELSE {log[kb.gen].press})
        BY DEF AskEscape
      <4> QED
        BY <1>3, <3>1, <4>1
    <3>3. kb.gen \in 1..Len(log)
      BY <3>2 DEF KeysTypes
    <3> QED
      BY <1>3, <3>2, <3>3 DEF Refuses
  <2>3. ASSUME p \notin Excused', NEW g \in 1..Len(log), log[g].press = p
        PROVE  log[g].owner = "NATIVE_GAME"
    <3>1. g = kb.gen
      BY <2>1, <2>2, <2>3, OneGeneration
    <3> QED
      BY <2>2, <2>3, <3>1
  <2>4. ASSUME p \notin Excused', NEW e \in Done(p)
        PROVE  e = <<"esc", p, "game">>
    <3>1. e \in effects /\ e[1] = "esc" /\ e[2] = p
      BY DEF Done
    <3>2. \E g \in 1..Len(log) : log[g].press = p /\ OwnerDoes(log[g].owner, e[3])
      BY <2>1, <2>4, <3>1 DEF EffectsInv, EffectsMeant
    <3>3. e[3] = "game"
      BY <2>3, <2>4, <3>2 DEF OwnerDoes
    <3>4. PICK k \in {"esc", "b"}, q \in Nat, w \in PanelWords \cup {"lobby", "game"} : e = <<k, q, w>>
      BY <3>1 DEF EffectsShaped
    <3> QED
      BY <3>1, <3>3, <3>4
  <2>5. ASSUME p \notin Excused'
        PROVE  \E g \in 1..Len(log) : log[g].press = p /\ OwnerDoes(log[g].owner, "game")
    BY <2>2, <2>5 DEF OwnerDoes
  <2>6. ASSUME p \notin Excused', NEW i \in 1..Len(events), events[i].key = "esc",
               log[events[i].gen].owner # "NATIVE_GAME"
        PROVE  events[i].press # p
    BY <2>3, <2>6 DEF KeysTypes
  <2>7. ASSUME p \notin Excused'
        PROVE  hostlist'.exit # p /\ lobbyExit' # p
    <3>1. Requested(hostlist.exit, "MOD_UI") /\ Requested(lobbyExit, "LOBBY")
      BY DEF EffectsInv, Requests
    <3>2. p # 0
      BY <1>3 DEF AskEscape, Asked
    <3> QED
      BY <1>1, <2>1, <2>3, <2>7, <3>1, <3>2 DEF Requested
  <2>8. hostlist'.exit \in {0, hostlist.exit} /\ lobbyExit' \in {0, lobbyExit}
    BY <1>1
  <2> QED
    BY <1>1, <1>3, <2>4, <2>5, <2>6, <2>7, <2>8, LastEffect
<1> QED
  BY <1>2, <1>3 DEF AskEscape

\* A request honoured.
LEMMA RequestEffects ==
  ASSUME KeysTypes, LoggedOnce, EffectsInv, UpdateHostlist \/ LeaveOrWalk, LogGrows, ExcusesStay
  PROVE  EffectsInv'
<1>0. UNCHANGED <<log, events, early, interrupted>> /\ Excused' = Excused
  BY DEF UpdateHostlist, LeaveOrWalk, escape, Excused
<1>1. Requested(hostlist.exit, "MOD_UI") /\ Requested(lobbyExit, "LOBBY")
  BY DEF EffectsInv, Requests
<1>2. hostlist'.exit \in {0, hostlist.exit} /\ lobbyExit' \in {0, lobbyExit}
  <2>1. hostlist \in [open : BOOLEAN, exit : 0..MaxInputs]
    BY DEF KeysTypes
  <2> QED
    BY <2>1 DEF UpdateHostlist, LeaveOrWalk
<1>3. CASE effects' = effects
  BY <1>0, <1>2, <1>3, QuietEffects
<1>4. ASSUME NEW p, NEW owner, NEW w, Requested(p, owner), p # 0, OwnerDoes(owner, w),
             effects' = effects \cup {<<"esc", p, w>>},
             p \notin Excused => hostlist'.exit # p /\ lobbyExit' # p
      PROVE  EffectsInv'
  <2>1. ASSUME p \notin Excused'
        PROVE  /\ Done(p) \subseteq {<<"esc", p, w>>}
               /\ \E g \in 1..Len(log) : log[g].press = p /\ OwnerDoes(log[g].owner, w)
               /\ \A i \in 1..Len(events) : events[i].key = "esc" => events[i].press # p
               /\ hostlist'.exit # p /\ lobbyExit' # p
    BY <1>0, <1>4, <2>1 DEF Requested
  <2> QED
    BY <1>0, <1>2, <1>4, <2>1, LastEffect
<1>5. ASSUME hostlist.exit # 0, hostlist.exit \notin Excused
      PROVE  lobbyExit # hostlist.exit
  <2>1. ASSUME lobbyExit = hostlist.exit
        PROVE  FALSE
    <3>1. PICK g \in 1..Len(log) : log[g].press = hostlist.exit /\ log[g].owner = "MOD_UI"
      BY <1>1, <1>5 DEF Requested
    <3>2. PICK h \in 1..Len(log) : log[h].press = lobbyExit /\ log[h].owner = "LOBBY"
      BY <1>1, <1>5, <2>1 DEF Requested
    <3>3. g = h
      BY <1>5, <2>1, <3>1, <3>2, OneGeneration
    <3> QED
      BY <3>1, <3>2, <3>3
  <2> QED
    BY <2>1
<1>6. CASE UpdateHostlist /\ effects' # effects
  <2>1. /\ hostlist.exit # 0 /\ hostlist' = [open |-> FALSE, exit |-> 0] /\ lobbyExit' = lobbyExit
        /\ effects' = effects \cup {<<"esc", hostlist.exit, "hostlist">>}
    BY <1>6 DEF UpdateHostlist
  <2>2. OwnerDoes("MOD_UI", "hostlist")
    BY DEF OwnerDoes, PanelWords
  <2>3. hostlist.exit \notin Excused => hostlist'.exit # hostlist.exit /\ lobbyExit' # hostlist.exit
    BY <1>5, <2>1
  <2> QED
    BY <1>1, <1>4, <2>1, <2>2, <2>3
<1>7. CASE LeaveOrWalk /\ effects' # effects
  <2>1. /\ lobbyExit # 0 /\ lobbyExit' = 0 /\ hostlist' = hostlist
        /\ effects' = effects \cup {<<"esc", lobbyExit, "lobby">>}
    BY <1>7 DEF LeaveOrWalk
  <2>2. OwnerDoes("LOBBY", "lobby")
    BY DEF OwnerDoes
  <2>3. lobbyExit \notin Excused => hostlist'.exit # lobbyExit /\ lobbyExit' # lobbyExit
    BY <1>5, <2>1
  <2> QED
    BY <1>1, <1>4, <2>1, <2>2, <2>3
<1> QED
  BY <1>3, <1>6, <1>7

\* Every step keeps what the presses have done, and may still do, in agreement.
LEMMA EffectsKept ==
  ASSUME KeysTypes, LoggedOnce, EscapeEvents, EffectsShaped, PickerHidesB, EffectsInv, KeysNext
  PROVE  EffectsInv'
<1>0. LogGrows /\ ExcusesStay
  BY LogsGrow
<1>1. CASE WindowMessage
  BY <1>0, <1>1, MessageEffects
<1>2. CASE HandleHotkey
  BY <1>0, <1>2, HotkeyEffects
<1>3. CASE AskEscape
  BY <1>0, <1>3, AskEffects
<1>4. CASE UpdateHostlist \/ LeaveOrWalk
  BY <1>0, <1>4, RequestEffects
<1>5. CASE InputSteps \/ (FrameSteps /\ ~AskEscape /\ ~UpdateHostlist /\ ~LeaveOrWalk)
  <2>1. UNCHANGED <<effects, events, hostlist, lobbyExit>>
    BY <1>5 DEF InputSteps, PressEscape, RepeatEscape, ReleaseEscape, PressB, ReleaseB, Tap,
                SwitchAway, SwitchBack, KeepProgram, FrameSteps, EnterRouting, Routed, Chat, Native,
                history, panels
  <2> QED
    BY <1>0, <2>1, QuietEffects
<1>6. CASE ReadKeys
  <2> DEFINE e == [key |-> "b", gen |-> 0, press |-> bkey.press]
  <2>1. UNCHANGED <<hostlist, lobbyExit>> /\ (events' = events \/ events' = Append(events, e))
    BY <1>6 DEF ReadKeys, panels
  <2>2. effects' = effects
    BY <1>6, PickerKept
  <2>3. e \in [key : {"F1", "F2", "b", "esc"}, gen : Nat, press : 0..MaxInputs] /\ e.key # "esc"
    <3>1. bkey.press \in 0..MaxInputs
      BY KeyBounds DEF KeysTypes
    <3> QED
      BY <3>1
  <2> HIDE DEF e
  <2>4. \A i \in 1..Len(events') : events'[i].key = "esc" =>
          \E j \in 1..Len(events) : events'[i] = events[j]
    <3>1. CASE events' = events
      BY <3>1
    <3>2. CASE events' = Append(events, e)
      <4>1. /\ Len(events') = Len(events) + 1 /\ events'[Len(events) + 1] = e
            /\ \A i \in 1..Len(events) : events'[i] = events[i]
            /\ \A i \in 1..Len(events') : i \in 1..Len(events) \/ i = Len(events) + 1
        BY <2>3, <3>2, EventAdded
      <4> QED
        BY <2>3, <4>1
    <3> QED
      BY <2>1, <3>1, <3>2
  <2> QED
    BY <1>0, <2>1, <2>2, <2>4, QuietEffects
<1> QED
  BY <1>1, <1>2, <1>3, <1>4, <1>5, <1>6, KeysSteps


(***************************************************************************)
(* The game's answers.                                                     *)
(***************************************************************************)
\* Steps that use up no generation: what answered the game before still does.
LEMMA AnswersStay ==
  ASSUME ExcusesStay, effects \subseteq effects', refused \subseteq refused',
         NEW p, p < esc.press /\ p # read.fresh => p < esc'.press /\ p # read'.fresh
  PROVE  /\ NativeAnswers(p) => NativeAnswers(p)'
         /\ ConsumedAnswers(p) => ConsumedAnswers(p)'
<1>1. Done(p) \subseteq Done(p)'
  BY DEF Done
<1> QED
  BY <1>1 DEF NativeAnswers, ConsumedAnswers, ExcusesStay

\* The answers, one press at a time.
LEMMA AnsweredFrom ==
  ASSUME \A n, p : n = native' /\ n # 0 /\ p = log'[n].press => NativeAnswers(p)',
         \A c, p : c = consumed' /\ c # 0 /\ p = log'[c].press /\ log'[c].owner = "NATIVE_GAME"
                     => ConsumedAnswers(p)'
  PROVE  GameAnswered'
BY DEF GameAnswered, NativeAnswers, ConsumedAnswers, Done

\* A generation is used up only with a reason the game can be given.
LEMMA AnswersKept ==
  ASSUME KeysTypes, InOrder, SceneOfFrame, EffectsShaped, PickerHidesB, GameAnswered, KeysNext
  PROVE  GameAnswered'
<1> USE DEF keyboard, escape, panels, history, KeepProgram
<1>0. LogGrows /\ ExcusesStay
  BY LogsGrow
<1>1. \A g \in 1..Len(log) : log'[g] = log[g] /\ log[g].press \in Nat \ {0}
  BY <1>0, PressesAreNumbers DEF LogGrows
<1>2. native \in 0..Len(log) /\ consumed \in 0..Len(log) /\ Len(log) \in Nat
  BY PressesAreNumbers DEF KeysTypes
<1>3. ASSUME effects \subseteq effects', refused \subseteq refused',
             \A p \in Nat \ {0} :
               p < esc.press /\ p # read.fresh => p < esc'.press /\ p # read'.fresh
      PROVE  /\ \A n, p : n = native /\ n # 0 /\ p = log'[n].press => NativeAnswers(p)'
             /\ \A c, p : c = consumed /\ c # 0 /\ p = log'[c].press
                          /\ log'[c].owner = "NATIVE_GAME" => ConsumedAnswers(p)'
  <2>1. ASSUME NEW n, n = native, n # 0, NEW p, p = log'[n].press
        PROVE  NativeAnswers(p)'
    <3>1. n \in 1..Len(log) /\ p = log[n].press /\ p \in Nat \ {0}
      BY <1>1, <1>2, <2>1
    <3>2. NativeAnswers(p)
      BY <2>1, <3>1 DEF GameAnswered
    <3> QED
      BY <1>0, <1>3, <3>1, <3>2, AnswersStay
  <2>2. ASSUME NEW c, c = consumed, c # 0, NEW p, p = log'[c].press, log'[c].owner = "NATIVE_GAME"
        PROVE  ConsumedAnswers(p)'
    <3>1. c \in 1..Len(log) /\ p = log[c].press /\ p \in Nat \ {0} /\ log[c].owner = "NATIVE_GAME"
      BY <1>1, <1>2, <2>2
    <3>2. ConsumedAnswers(p)
      BY <2>2, <3>1 DEF GameAnswered
    <3> QED
      BY <1>0, <1>3, <3>1, <3>2, AnswersStay
  <2> QED
    BY <2>1, <2>2
<1>4. ASSUME NEW p, NEW w, effects' = effects \cup {<<"esc", p, w>>}
      PROVE  NativeAnswers(p)' /\ ConsumedAnswers(p)'
  <2>1. <<"esc", p, w>> \in Done(p)'
    BY <1>4, DoneAfter
  <2> QED
    BY <2>1 DEF NativeAnswers, ConsumedAnswers
<1>5. CASE HandleHotkey
  <2>1. UNCHANGED <<esc, read, log, native, refused>>
    BY <1>5 DEF HandleHotkey
  <2>2. effects \subseteq effects'
    BY <1>5, HotkeyCases
  <2>3. /\ \A n, p : n = native' /\ n # 0 /\ p = log'[n].press => NativeAnswers(p)'
        /\ \A c, p : c = consumed /\ c # 0 /\ p = log'[c].press
                     /\ log'[c].owner = "NATIVE_GAME" => ConsumedAnswers(p)'
    BY <1>3, <2>1, <2>2
  <2>4. \/ consumed' = consumed
        \/ /\ consumed' = events[1].gen /\ events[1].key = "esc"
           /\ \/ \E w : effects' = effects \cup {<<"esc", events[1].press, w>>}
              \/ log[events[1].gen].owner # "NATIVE_GAME"
    BY <1>5, HotkeyCases
  <2>5. CASE consumed' = consumed
    BY <2>3, <2>5, AnsweredFrom
  <2>6. ASSUME consumed' = events[1].gen, log[events[1].gen].owner # "NATIVE_GAME"
        PROVE  GameAnswered'
    BY <2>1, <2>3, <2>6, AnsweredFrom
  <2>7. ASSUME consumed' = events[1].gen, events[1].key = "esc",
               NEW w, effects' = effects \cup {<<"esc", events[1].press, w>>}
        PROVE  GameAnswered'
    <3>1. log[events[1].gen].press = events[1].press
      <4>1. 1 \in 1..Len(events)
        BY <1>5, HotkeyCases, EventRemoved
      <4> QED
        BY <2>7, <4>1 DEF KeysTypes
    <3>2. ASSUME NEW c, NEW p, c = consumed', p = log'[c].press
          PROVE  ConsumedAnswers(p)'
      <4>1. effects' = effects \cup {<<"esc", p, w>>}
        BY <2>1, <2>7, <3>1, <3>2
      <4> QED
        BY <1>4, <4>1
    <3> QED
      BY <2>3, <3>2, AnsweredFrom
  <2> QED
    BY <2>4, <2>5, <2>6, <2>7
<1>6. CASE AskEscape
  <2>1. /\ UNCHANGED <<esc, read, log, scene, newScene, kb>> /\ stage = "native"
        /\ read.fresh # 0 /\ effects \subseteq effects' /\ refused \subseteq refused'
    BY <1>6 DEF AskEscape, Asked
  <2>2. /\ \A n, p : n = native /\ n # 0 /\ p = log'[n].press => NativeAnswers(p)'
        /\ \A c, p : c = consumed /\ c # 0 /\ p = log'[c].press
                     /\ log'[c].owner = "NATIVE_GAME" => ConsumedAnswers(p)'
    BY <1>3, <2>1
  <2>3. CASE ~Refuses
    <3>1. /\ native' = kb.gen /\ consumed' = consumed
          /\ effects' = effects \cup {<<"esc", read.fresh, "game">>}
          /\ kb.gen /= 0 /\ log[kb.gen].press # read.fresh => log[kb.gen].press \in early'
      BY <1>6, <2>3 DEF AskEscape
    <3>2. ASSUME NEW n, n = native', n # 0, NEW p, p = log'[n].press
          PROVE  NativeAnswers(p)'
      <4>1. n = kb.gen /\ p = log[kb.gen].press
        BY <2>1, <3>1, <3>2
      <4>2. CASE p = read.fresh
        <5>1. effects' = effects \cup {<<"esc", p, "game">>}
          BY <3>1, <4>2
        <5> QED
          BY <1>4, <5>1
      <4>3. CASE p # read.fresh
        BY <3>1, <3>2, <4>1, <4>3 DEF NativeAnswers
      <4> QED
        BY <4>2, <4>3
    <3> QED
      BY <2>2, <3>1, <3>2, AnsweredFrom
  <2>4. CASE Refuses
    <3>1. native' = native /\ refused' = refused \cup {<<read.fresh, Due>>}
      BY <1>6, <2>4 DEF AskEscape
    <3>2. CASE consumed' = consumed
      BY <2>2, <3>1, <3>2, AnsweredFrom
    <3>3. CASE consumed' # consumed
      <4>1. /\ consumed' = kb.gen /\ kb.gen # 0
            /\ \/ log[kb.gen].owner /= "NATIVE_GAME" \/ scene /= log[kb.gen].scene
               \/ newScene /= log[kb.gen].scene
        BY <1>6, <2>4, <3>3 DEF AskEscape
      <4>2. ASSUME NEW c, c = consumed', c # 0, NEW p, p = log'[c].press,
                   log'[c].owner = "NATIVE_GAME"
            PROVE  ConsumedAnswers(p)'
        <5>0. /\ c = kb.gen /\ c \in 1..Len(log) /\ p = log[c].press
              /\ log[kb.gen].owner = "NATIVE_GAME" /\ p \in Nat
              /\ read.fresh \in Nat /\ esc.press \in Nat
          <6>1. c = kb.gen /\ p = log[c].press /\ log[kb.gen].owner = "NATIVE_GAME"
            BY <2>1, <4>1, <4>2
          <6>2. c \in 1..Len(log)
            BY <4>1, <6>1 DEF KeysTypes
          <6> QED
            BY <6>1, <6>2, PressesAreNumbers
        <5>1. newScene = scene
          BY <2>1 DEF SceneOfFrame
        <5>2. ~(p > read.fresh)
          BY <2>1, <4>1, <5>0, <5>1 DEF SceneOfFrame
        <5>3. CASE p = read.fresh
          <6>1. Due = FALSE
            BY <4>1, <5>0, <5>1 DEF Due
          <6>2. <<p, FALSE>> \in refused'
            BY <3>1, <5>3, <6>1
          <6> QED
            BY <6>2 DEF ConsumedAnswers
        <5>4. CASE p < read.fresh
          <6>1. p < esc'.press /\ p # read'.fresh
            BY <2>1, <5>0, <5>4 DEF InOrder
          <6> QED
            BY <6>1 DEF ConsumedAnswers
        <5> QED
          BY <5>0, <5>2, <5>3, <5>4
      <4> QED
        BY <2>2, <3>1, <4>2, AnsweredFrom
    <3> QED
      BY <3>2, <3>3
  <2> QED
    BY <2>3, <2>4
<1>7. ASSUME UNCHANGED <<native, consumed>>, effects \subseteq effects', refused' = refused,
             \A p \in Nat \ {0} :
               p < esc.press /\ p # read.fresh => p < esc'.press /\ p # read'.fresh
      PROVE  GameAnswered'
  BY <1>3, <1>7, AnsweredFrom
<1>8. CASE ReadKeys
  <2>1. /\ UNCHANGED <<native, consumed, esc, refused>> /\ effects' = effects
        /\ read'.fresh \in {0, esc.press}
    <3>1. effects' = effects
      BY <1>8, PickerKept
    <3>2. UNCHANGED <<native, consumed, esc, refused>>
          /\ read' = [down |-> esc.held /\ focus,
                      fresh |-> IF esc.held /\ focus /\ ~read.down THEN esc.press ELSE 0]
      BY <1>8 DEF ReadKeys
    <3>3. read'.fresh = IF esc.held /\ focus /\ ~read.down THEN esc.press ELSE 0
      BY <3>2
    <3> QED
      BY <3>1, <3>2, <3>3
  <2>2. \A p \in Nat \ {0} :
          p < esc.press /\ p # read.fresh => p < esc'.press /\ p # read'.fresh
    BY <2>1, PressesAreNumbers
  <2> QED
    BY <1>7, <2>1, <2>2
<1>9. CASE InputSteps
  <2>1. UNCHANGED <<native, consumed, effects, refused, read>>
    BY <1>9 DEF InputSteps, PressEscape, RepeatEscape, ReleaseEscape, PressB, ReleaseB, Tap,
                SwitchAway, SwitchBack
  <2>2. esc'.press \in {esc.press, esc.press + 1}
    <3>1. esc \in [held : BOOLEAN, press : Nat]
      BY DEF KeysTypes
    <3>2. esc' \in {esc, [esc EXCEPT !.held = FALSE], [held |-> TRUE, press |-> esc.press + 1]}
      BY <1>9 DEF InputSteps, PressEscape, RepeatEscape, ReleaseEscape, PressB, ReleaseB, Tap,
                  SwitchAway, SwitchBack
    <3> QED
      BY <3>1, <3>2
  <2>3. \A p \in Nat \ {0} :
          p < esc.press /\ p # read.fresh => p < esc'.press /\ p # read'.fresh
    BY <2>1, <2>2, PressesAreNumbers
  <2> QED
    BY <1>7, <2>1, <2>3
<1>10. CASE WindowMessage \/ (FrameSteps /\ ~AskEscape)
  <2>1. UNCHANGED <<native, consumed, refused, read, esc>> /\ effects \subseteq effects'
    BY <1>10 DEF WindowMessage, FrameSteps, EnterRouting, Routed, Chat, Native, UpdateHostlist,
                LeaveOrWalk
  <2> QED
    BY <1>7, <2>1
<1> QED
  BY <1>5, <1>6, <1>8, <1>9, <1>10, KeysSteps

\* The game's own press is refused only when what answered it before was out of order.
LEMMA ReachKept ==
  ASSUME KeysTypes, GameAnswered, EscapeReachesTheGame, KeysNext
  PROVE  EscapeReachesTheGame'
<1> USE DEF keyboard, escape, panels, history, KeepProgram
<1>1. \A q : q \in Excused => q \in Excused'
  BY LogsGrow DEF ExcusesStay, Excused
<1>2. CASE refused' = refused
  BY <1>1, <1>2 DEF EscapeReachesTheGame
<1>3. CASE AskEscape /\ Refuses
  <2>1. refused' = refused \cup {<<read.fresh, Due>>}
    BY <1>3 DEF AskEscape
  <2>2. ASSUME Due
        PROVE  read.fresh \in Excused
    <3>1. consumed = kb.gen \/ native = kb.gen
      BY <1>3, <2>2 DEF Due, Refuses
    <3>2. CASE native = kb.gen
      BY <2>2, <3>2 DEF Due, GameAnswered, NativeAnswers, Excused
    <3>3. CASE consumed = kb.gen
      BY <2>2, <3>3 DEF Due, GameAnswered, ConsumedAnswers
    <3> QED
      BY <3>1, <3>2, <3>3
  <2>3. ASSUME NEW p \in 1..MaxInputs, <<p, TRUE>> \in refused'
        PROVE  p \in Excused'
    <3>1. CASE <<p, TRUE>> \in refused
      BY <1>1, <3>1 DEF EscapeReachesTheGame
    <3>2. CASE <<p, TRUE>> = <<read.fresh, Due>>
      BY <1>1, <2>2, <3>2
    <3> QED
      BY <2>1, <2>3, <3>1, <3>2
  <2> QED
    BY <2>3 DEF EscapeReachesTheGame
<1>4. CASE ~AskEscape
  <2>1. refused' = refused
    BY <1>4 DEF KeysNext, PressEscape, RepeatEscape, ReleaseEscape, PressB, ReleaseB, Tap,
                SwitchAway, SwitchBack, WindowMessage, ReadKeys, HandleHotkey,
                EnterRouting, Routed, Chat, Native, UpdateHostlist, LeaveOrWalk
  <2> QED
    BY <1>2, <2>1
<1>5. CASE AskEscape /\ ~Refuses
  <2>1. refused' = refused
    BY <1>5 DEF AskEscape
  <2> QED
    BY <1>2, <2>1
<1> QED
  BY <1>3, <1>4, <1>5


(***************************************************************************)
(* The theorems.                                                           *)
(***************************************************************************)
\* Nothing has been pressed yet.
LEMMA KeysInitially ==
  ASSUME KeysInit
  PROVE  KeysInv
<1> USE KeyBounds
<1>1. Len(messages) = 0 /\ Len(log) = 0 /\ Len(events) = 0
  BY DEF KeysInit
<1>2. /\ \A i \in 1..Len(messages) : FALSE
      /\ \A i \in 1..Len(log) : FALSE
      /\ \A i \in 1..Len(events) : FALSE
  BY <1>1
<1>3. messages \in Messages /\ log \in Generations /\ events \in Hotkeys
  BY DEF KeysInit, Messages, Generations, Hotkeys
<1>4. ui \in [PanelNames -> BOOLEAN]
  <2>1. ui = [picker |-> FALSE, menu |-> FALSE, editing |-> FALSE]
    BY DEF KeysInit
  <2>2. DOMAIN ui = {"picker", "menu", "editing"}
    BY <2>1
  <2>3. ui = [p \in DOMAIN ui |-> ui[p]]
    BY <2>1
  <2>4. \A p \in DOMAIN ui : ui[p] \in BOOLEAN
    <3>1. ui.picker = FALSE /\ ui.menu = FALSE /\ ui.editing = FALSE
      BY <2>1
    <3> QED
      BY <2>2, <3>1
  <2> QED
    BY <2>2, <2>3, <2>4 DEF PanelNames
<1>5. /\ esc \in [held : BOOLEAN, press : Nat] /\ ~esc.held /\ esc.press = 0
      /\ bkey \in [held : BOOLEAN, press : Nat] /\ bkey.press = 0
      /\ kb \in [down : BOOLEAN, gen : Nat] /\ ~kb.down /\ kb.gen = 0
  BY DEF KeysInit
<1>6. /\ read \in [down : BOOLEAN, fresh : 0..MaxInputs] /\ read.fresh = 0
      /\ hostlist \in [open : BOOLEAN, exit : 0..MaxInputs] /\ hostlist.exit = 0
  <2>1. 0 \in 0..MaxInputs
    OBVIOUS
  <2>2. read = [down |-> FALSE, fresh |-> 0] /\ hostlist = [open |-> FALSE, exit |-> 0]
    BY DEF KeysInit
  <2> DEFINE E == 0..MaxInputs
  <2> HIDE DEF E
  <2>3. 0 \in E => [down |-> FALSE, fresh |-> 0] \in [down : BOOLEAN, fresh : E]
                   /\ [open |-> FALSE, exit |-> 0] \in [open : BOOLEAN, exit : E]
    OBVIOUS
  <2> QED
    BY <2>1, <2>2, <2>3 DEF E
<1>7. KeysTypes
  <2>1. /\ inputs = 0 /\ focus = TRUE /\ consumed = 0 /\ native = 0 /\ lobbyExit = 0
        /\ scene = "title" /\ newScene = "title" /\ stage = "keys"
        /\ mappedDown = FALSE /\ blocking = FALSE /\ inBattle = FALSE
    BY DEF KeysInit
  <2>2. /\ inputs \in 0..MaxInputs /\ esc.press + bkey.press <= inputs
        /\ Len(messages) <= MaxMessages
        /\ consumed \in 0..Len(log) /\ native \in 0..Len(log) /\ lobbyExit \in 0..MaxInputs
    BY <1>1, <1>5, <2>1
  <2>3. /\ focus \in BOOLEAN /\ scene \in Scenes /\ newScene \in Scenes /\ stage \in Steps
        /\ mappedDown \in BOOLEAN /\ blocking \in BOOLEAN /\ inBattle \in BOOLEAN
    BY <2>1 DEF Scenes, Steps
  <2> QED
    BY <1>1, <1>2, <1>3, <1>4, <1>5, <1>6, <2>2, <2>3 DEF KeysTypes
<1>8. InOrder /\ LoggedOnce /\ EscapeEvents
  BY <1>2, <1>5, <1>6 DEF InOrder, LoggedOnce, EscapeEvents, Logged
<1>9. effects = {} /\ refused = {} /\ lobbyExit = 0 /\ consumed = 0 /\ native = 0
      /\ newScene = scene
  BY DEF KeysInit
<1>10. EffectsShaped /\ EffectsMeant /\ EffectsOnce /\ EventsUndone
  BY <1>2, <1>9 DEF EffectsShaped, EffectsMeant, EffectsOnce, EventsUndone
<1>11. Requests /\ SceneOfFrame /\ GameAnswered /\ PickerHidesB /\ EscapeReachesTheGame
  BY <1>2, <1>6, <1>9 DEF Requests, Requested, SceneOfFrame, GameAnswered, PickerHidesB,
                          EscapeReachesTheGame
<1> QED
  BY <1>7, <1>8, <1>10, <1>11 DEF KeysInv

\* Every step keeps the invariant.
LEMMA KeysInvKept ==
  ASSUME KeysInv, KeysNext
  PROVE  KeysInv'
<1>1. EffectsInv
  BY DEF KeysInv, EffectsInv
<1>2. KeysTypes' /\ InOrder' /\ LoggedOnce' /\ EscapeEvents'
  BY KeysTypesKept, OrderKept, OnceKept, EventsKept DEF KeysInv
<1>3. EffectsShaped' /\ EffectsInv'
  BY <1>1, ShapeKept, EffectsKept DEF KeysInv
<1>4. SceneOfFrame' /\ GameAnswered' /\ PickerHidesB' /\ EscapeReachesTheGame'
  BY SceneKept, AnswersKept, PickerKept, ReachKept DEF KeysInv
<1> QED
  BY <1>2, <1>3, <1>4 DEF KeysInv, EffectsInv

\* So does a step of something else.
LEMMA KeysStutter ==
  ASSUME KeysInv, UNCHANGED keysVars
  PROVE  KeysInv'
<1> USE DEF keysVars, keyboard, escape, panels, history, Logged, Announced, isInputing, Excused,
            Done, Requested, NativeAnswers, ConsumedAnswers
<1>1. KeysTypes' /\ InOrder' /\ LoggedOnce' /\ EscapeEvents'
  <2>1. KeysTypes'
    BY DEF KeysInv, KeysTypes
  <2>2. InOrder' /\ LoggedOnce' /\ EscapeEvents'
    BY DEF KeysInv, InOrder, LoggedOnce, EscapeEvents
  <2> QED
    BY <2>1, <2>2
<1>2. EffectsShaped' /\ EffectsMeant' /\ EffectsOnce'
  BY DEF KeysInv, EffectsShaped, EffectsMeant, EffectsOnce
<1>3. EventsUndone' /\ Requests'
  BY DEF KeysInv, EventsUndone, Requests
<1>4. SceneOfFrame' /\ GameAnswered' /\ PickerHidesB' /\ EscapeReachesTheGame'
  BY DEF KeysInv, SceneOfFrame, GameAnswered, PickerHidesB, EscapeReachesTheGame
<1> QED
  BY <1>1, <1>2, <1>3, <1>4 DEF KeysInv

\* KeysInv holds in every reachable state.
THEOREM KeysInvariant == KeysSpec => []KeysInv
BY KeysInitially, KeysInvKept, KeysStutter, PTL DEF KeysSpec

\* The types of the state: the generations, the events and the requests are of presses that
\* were made, whatever the bounds.
THEOREM KeysTypeCorrect == KeysSpec => []KeysTypeOK
<1>1. KeysInv => KeysTypeOK
  <2> SUFFICES ASSUME KeysInv PROVE KeysTypeOK
    OBVIOUS
  <2> USE KeyBounds
  <2>0. KeysTypes
    BY DEF KeysInv
  <2>1. esc \in [held : BOOLEAN, press : 0..MaxInputs] /\ bkey \in [held : BOOLEAN, press : 0..MaxInputs]
    <3> DEFINE E == 0..MaxInputs
    <3>1. esc.press \in E /\ bkey.press \in E
      BY <2>0 DEF KeysTypes
    <3> HIDE DEF E
    <3>2. esc \in [held : BOOLEAN, press : Nat] /\ bkey \in [held : BOOLEAN, press : Nat]
      BY <2>0 DEF KeysTypes
    <3>3. esc \in [held : BOOLEAN, press : E] /\ bkey \in [held : BOOLEAN, press : E]
      BY <3>1, <3>2
    <3> QED
      BY <3>3 DEF E
  <2>2. log \in Generations /\ events \in Hotkeys /\ Len(log) \in Nat /\ Len(events) \in Nat
    BY <2>0, PressesAreNumbers DEF KeysTypes
  <2>3. DOMAIN log = 1..Len(log) /\ DOMAIN events = 1..Len(events)
    BY <2>2, LenProperties DEF Generations, Hotkeys
  <2>4. \A g \in DOMAIN log : log[g] \in [press : 1..MaxInputs, owner : Owners, scene : Scenes]
    BY <2>2, <2>3, ElementOfSeq DEF Generations
  <2>5. \A i \in DOMAIN events :
          /\ events[i].key \in {"F1", "F2", "b", "esc"}
          /\ events[i].key = "esc" => events[i].gen \in DOMAIN log
    BY <2>0, <2>3, PressesAreNumbers DEF KeysTypes
  <2>6. kb \in [down : BOOLEAN, gen : 0..Len(log)]
    <3> DEFINE E == 0..Len(log)
    <3>1. kb.gen \in E /\ kb \in [down : BOOLEAN, gen : Nat]
      BY <2>0, <2>2 DEF KeysTypes
    <3> HIDE DEF E
    <3>2. kb \in [down : BOOLEAN, gen : E]
      BY <3>1
    <3> QED
      BY <3>2 DEF E
  <2> QED
    BY <2>0, <2>1, <2>4, <2>5, <2>6 DEF KeysTypes, KeysTypeOK
<1> QED
  BY <1>1, KeysInvariant, PTL

\* One press of a key does one thing, and what the player made it for: of any number of
\* presses, messages, questions of the game and changes of scene.
THEOREM PressActsAsMeantAlways == KeysSpec => []PressActsAsMeant
<1>1. KeysInv => PressActsAsMeant
  <2> SUFFICES ASSUME KeysInv PROVE PressActsAsMeant
    OBVIOUS
  <2>1. ASSUME NEW p \in 1..MaxInputs, p \notin Excused
        PROVE  Cardinality(Done(p)) <= 1
    <3>1. \A e, f \in Done(p) : e = f
      BY <2>1 DEF KeysInv, EffectsOnce, Done
    <3>2. CASE Done(p) = {}
      BY <3>2, FS_EmptySet
    <3>3. ASSUME NEW e \in Done(p)
          PROVE  Cardinality(Done(p)) <= 1
      <4>1. Done(p) = {e}
        BY <3>1, <3>3
      <4>2. Cardinality({e}) = 1
        BY FS_Singleton
      <4> QED
        BY <4>1, <4>2
    <3> QED
      BY <3>2, <3>3
  <2>2. ASSUME NEW p \in 1..MaxInputs, <<"b", p, "game">> \in effects
        PROVE  FALSE
    <3>1. <<"b", p, "game">>[1] = "b" /\ <<"b", p, "game">>[3] = "game"
      OBVIOUS
    <3> QED
      BY <2>2, <3>1 DEF KeysInv, PickerHidesB
  <2>3. PressActsOnce
    BY <2>1, <2>2 DEF PressActsOnce
  <2>4. ASSUME NEW e \in effects, e[1] = "esc", e[2] \notin Excused
        PROVE  \E g \in DOMAIN log :
                 /\ log[g].press = e[2]
                 /\ log[g].owner = CASE e[3] = "game" -> "NATIVE_GAME"
                                     [] e[3] = "lobby" -> "LOBBY"
                                     [] OTHER -> "MOD_UI"
    <3>0. KeysTypes /\ EffectsMeant
      BY DEF KeysInv
    <3>1. PICK g \in 1..Len(log) : log[g].press = e[2] /\ OwnerDoes(log[g].owner, e[3])
      BY <2>4, <3>0 DEF EffectsMeant
    <3>2. log[g].owner \in {"NATIVE_GAME", "LOBBY", "MOD_UI"}
      BY <3>0, PressesAreNumbers DEF Owners
    <3>3. log[g].owner = CASE e[3] = "game" -> "NATIVE_GAME"
                           [] e[3] = "lobby" -> "LOBBY"
                           [] OTHER -> "MOD_UI"
      BY <3>1, <3>2 DEF OwnerDoes, PanelWords, PanelNames
    <3>4. g \in DOMAIN log
      BY <3>0, LenProperties DEF KeysTypes, Generations
    <3> QED
      BY <3>1, <3>3, <3>4
  <2>5. EscapeWhereMeant
    BY <2>4 DEF EscapeWhereMeant
  <2> QED
    BY <2>3, <2>5 DEF PressActsAsMeant
<1> QED
  BY <1>1, KeysInvariant, PTL

\* The game is not refused of a key that is its own.
THEOREM EscapeReachesTheGameAlways == KeysSpec => []EscapeReachesTheGame
<1>1. KeysInv => EscapeReachesTheGame
  BY DEF KeysInv
<1> QED
  BY <1>1, KeysInvariant, PTL

=============================================================================
