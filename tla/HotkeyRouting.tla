---------------------------- MODULE HotkeyRouting ----------------------------
(***************************************************************************)
(* Who gets an Escape: the lobby screen of the client stays alive while    *)
(* the game goes through its own scenes, and one key closes the mod's      *)
(* emote picker, quick messages, chat input and host list, leaves the      *)
(* lobby, and is the game's own key too.  The game reads the keyboard by   *)
(* itself once a frame (DirectInput); the mod learns of the same press     *)
(* from a window message, numbers it (a generation) and decides, when the  *)
(* message arrives, whom it belongs to.  filterNativeEscape then answers   *)
(* every question of the game about the key.  B closes the emote picker    *)
(* and is blocked from the game while it does.                             *)
(*                                                                         *)
(* Window messages may be dispatched at any time keyTimersMutex is free;   *)
(* it is held while the queue of events is drained ("routing",             *)
(* "chatting").  There is one KeymapManager.                               *)
(***************************************************************************)
EXTENDS Naturals, Sequences, FiniteSets

CONSTANTS
  MaxInputs,   \* bound: what the player does, and changes of scene
  MaxMessages  \* bound: window messages waiting

ASSUME KeysAssumption == {MaxInputs, MaxMessages} \subseteq Nat

VARIABLES
  esc,       \* the key Escape: [held, press], press counting its presses
  bkey,      \* the button B, likewise
  inputs,    \* how many of MaxInputs have happened
  focus,     \* our window is the foreground window
  messages,  \* window messages posted and not dispatched
  read,      \* what the game read this frame: [down, fresh], fresh the press or 0
  kb,        \* [down, gen]: _keyboardEscapeDown, _keyboardEscapeGeneration
  log,       \* generation: whom the press was found to belong to, in which scene
  mappedDown,\* _mappedEscapeDown
  blocking,  \* wasBlocking
  consumed,  \* _consumedKeyboardEscapeGeneration
  native,    \* _nativeKeyboardEscapeGeneration
  events,    \* _hotkeyEvents
  ui,        \* [picker, menu, editing]: what the mod shows over the game
  hostlist,  \* [open, exit]: _hostlist, and the press of _hostlistExitRequested or 0
  lobbyExit, \* the press of _lobbyExitRequested, or 0
  scene, newScene,     \* sceneId, newSceneId
  stage,     \* the step of the frame that comes next
  inBattle,  \* _battleChatActive
  effects,   \* history: <<key, press, what it did>>
  early,     \* history: presses asked about, or used up, while the last message was another's
  interrupted, \* history: presses the window lost the focus under
  refused    \* history: <<press, it was due>> for every press refused to the game

keyboard == <<esc, bkey, inputs, focus>>
history  == <<effects, early, interrupted, refused>>
panels   == <<ui, hostlist, lobbyExit, inBattle>>
escape   == <<kb, log, consumed, native>>
keysVars == <<keyboard, messages, read, escape, mappedDown, blocking, events,
              panels, scene, newScene, stage, history>>

Scenes == {"title", "select", "battle"}
Steps == {"keys", "route", "routing", "native", "list", "chat", "chatting", "leave",
          "closed"}
Owners == {"NATIVE_GAME", "LOBBY", "MOD_UI"}

\* What a frame calls, in order.  The lobby screen's onProcess in the title scene; the
\* hooks of the network scenes elsewhere: the chat comes before the game's own code in
\* the selection, after it in the battle.
FrameCalls ==
  [title  |-> <<"keys", "route", "native", "list", "chat", "leave">>,
   select |-> <<"keys", "route", "chat", "native">>,
   battle |-> <<"keys", "route", "native", "chat">>]

After(step) ==
  LET f == FrameCalls[scene]
      i == CHOOSE k \in DOMAIN f : f[k] = step
  IN  IF i = Len(f) THEN "keys" ELSE f[i + 1]

Locked == stage \in {"routing", "chatting"}
isInputing == ui.editing \/ ui.picker \/ ui.menu
InTitle == scene = "title" /\ newScene = "title"

\* Mutant: keys waiting to open the mod's panels are not looked at.
ClassifiesByPanels ==
  IF isInputing \/ (hostlist.open /\ InTitle) THEN "MOD_UI"
  ELSE IF InTitle THEN "LOBBY" ELSE "NATIVE_GAME"

\* Whom an Escape pressed now is for.
_classifyEscapeOwner ==
  IF \/ isInputing
     \/ hostlist.open /\ InTitle
     \/ \E i \in DOMAIN events : events[i].key \in {"F1", "F2"}
  THEN "MOD_UI"
  ELSE IF InTitle THEN "LOBBY" ELSE "NATIVE_GAME"

KeysInit ==
  /\ esc = [held |-> FALSE, press |-> 0] /\ bkey = esc
  /\ inputs = 0 /\ focus = TRUE
  /\ messages = <<>>
  /\ read = [down |-> FALSE, fresh |-> 0]
  /\ kb = [down |-> FALSE, gen |-> 0] /\ log = <<>>
  /\ mappedDown = FALSE /\ blocking = FALSE /\ consumed = 0 /\ native = 0
  /\ events = <<>>
  /\ ui = [picker |-> FALSE, menu |-> FALSE, editing |-> FALSE]
  /\ hostlist = [open |-> FALSE, exit |-> 0] /\ lobbyExit = 0
  /\ scene = "title" /\ newScene = "title" /\ stage = "keys" /\ inBattle = FALSE
  /\ effects = {} /\ early = {} /\ interrupted = {} /\ refused = {}

(***************************************************************************)
(* The player and the system.                                              *)
(***************************************************************************)
Post(kind) ==
  /\ Len(messages) < MaxMessages
  /\ messages' = Append(messages, [kind |-> kind, press |-> esc'.press])

\* What the keyboard does not change.
KeepProgram ==
  UNCHANGED <<read, escape, mappedDown, blocking, events, panels, scene, newScene, stage,
              history>>

Count == inputs < MaxInputs /\ inputs' = inputs + 1

PressEscape ==
  /\ ~esc.held /\ focus /\ Count
  /\ esc' = [held |-> TRUE, press |-> esc.press + 1]
  /\ Post("down")
  /\ UNCHANGED <<bkey, focus>> /\ KeepProgram

\* The keyboard repeats a key that is held: a key-down again.
RepeatEscape ==
  /\ esc.held /\ focus
  /\ \A i \in DOMAIN messages : messages[i].kind /= "down"
  /\ esc' = esc /\ Post("down")
  /\ UNCHANGED <<bkey, inputs, focus>> /\ KeepProgram

ReleaseEscape ==
  /\ esc.held
  /\ esc' = [esc EXCEPT !.held = FALSE]
  /\ IF focus THEN Post("up") ELSE UNCHANGED messages
  /\ UNCHANGED <<bkey, inputs, focus>> /\ KeepProgram

Tap(key) ==
  /\ focus /\ Count
  /\ UNCHANGED <<esc, bkey, focus>> /\ KeepProgram
  /\ Post(key)

SwitchAway ==
  /\ focus /\ Count
  /\ focus' = FALSE /\ UNCHANGED <<esc, bkey>> /\ KeepProgram
  /\ Post("blur")

SwitchBack ==
  /\ ~focus /\ focus' = TRUE
  /\ UNCHANGED <<esc, bkey, inputs, messages>> /\ KeepProgram

PressB ==
  /\ ~bkey.held /\ Count
  /\ bkey' = [held |-> TRUE, press |-> bkey.press + 1]
  /\ UNCHANGED <<esc, focus, messages>> /\ KeepProgram

ReleaseB ==
  /\ bkey.held /\ bkey' = [bkey EXCEPT !.held = FALSE]
  /\ UNCHANGED <<esc, inputs, focus, messages>> /\ KeepProgram

(***************************************************************************)
(* The window procedure.                                                   *)
(***************************************************************************)
\* Mutant: a key-down is always a new press.
NeverRepeated == FALSE

Repeated == kb.down

\* onWindowKeyEvent for Escape going down: a new generation, unless it is down already.
EscapeDown(press) ==
  IF Repeated
  THEN UNCHANGED <<kb, log, events>>
  ELSE LET owner == _classifyEscapeOwner
           gen == Len(log) + 1
       IN  /\ log' = Append(log, [press |-> press, owner |-> owner, scene |-> scene])
           /\ kb' = [down |-> TRUE, gen |-> gen]
           /\ events' = Append(events, [key |-> "esc", gen |-> gen, press |-> press])

WindowMessage ==
  /\ ~Locked /\ messages /= <<>> /\ stage /= "closed"
  /\ messages' = Tail(messages)
  /\ LET m == Head(messages) IN
       CASE m.kind = "down" -> EscapeDown(m.press) /\ UNCHANGED <<mappedDown, interrupted>>
         [] m.kind = "up" -> /\ kb' = [kb EXCEPT !.down = FALSE]
                             /\ UNCHANGED <<log, events, mappedDown, interrupted>>
         [] m.kind \in {"F1", "F2"} ->
              /\ events' = Append(events, [key |-> m.kind, gen |-> 0, press |-> 0])
              /\ UNCHANGED <<kb, log, mappedDown, interrupted>>
         [] m.kind = "blur" ->      \* onInputFocusLost
              /\ kb' = [kb EXCEPT !.down = FALSE] /\ mappedDown' = FALSE /\ events' = <<>>
              /\ interrupted' = IF kb.down THEN interrupted \cup {log[kb.gen].press} ELSE interrupted
              /\ UNCHANGED log
  /\ UNCHANGED <<keyboard, read, blocking, consumed, native, panels, scene,
                 newScene, stage, effects, early, refused>>

(***************************************************************************)
(* A frame.                                                                *)
(***************************************************************************)
\* Mutant: B is hidden only while a panel is open.
HiddenUnderPanels(b) == isInputing

\* B is hidden from the game while a panel is open, and until it is let go.
Hidden(b) == isInputing \/ (blocking /\ b)

\* The game sees B: noted if the same press has closed the picker before.
SeenByGame ==
  IF <<"b", bkey.press, "picker">> \in effects
  THEN effects \cup {<<"b", bkey.press, "game">>} ELSE effects

\* The scene changes between two frames.  The game reads the keyboard (nothing without
\* the focus), then KeymapManagerSetInputs: setMappedEscapeDown, and hides B.
ReadKeys ==
  /\ stage = "keys"
  /\ scene' = newScene
  /\ LET down == esc.held /\ focus
         b == bkey.held
     IN  /\ read' = [down |-> down, fresh |-> IF down /\ ~read.down THEN esc.press ELSE 0]
         /\ mappedDown' = b
         /\ events' = IF b /\ ~mappedDown /\ ui.picker
                      THEN Append(events, [key |-> "b", gen |-> 0, press |-> bkey.press])
                      ELSE events
         /\ blocking' = Hidden(b)
         /\ effects' = IF b /\ ~Hidden(b) THEN SeenByGame ELSE effects
  /\ stage' = "route"
  /\ UNCHANGED <<keyboard, messages, escape, panels, newScene, early, interrupted, refused>>

\* routePendingHotkeys and the head of _inputBoxUpdate: without the focus, nothing.
EnterRouting(step, inside) ==
  /\ stage = step
  /\ stage' = IF focus THEN inside ELSE After(step)
  /\ UNCHANGED <<keyboard, messages, read, escape, mappedDown, blocking, events,
                 panels, scene, newScene, history>>

\* F1 and F2 open their panel, close it, or replace the other one; not over the chat.
TogglePanel(mine, other) ==
  ui' = IF ui.editing THEN ui
        ELSE IF ui[other] THEN [ui EXCEPT ![mine] = TRUE, ![other] = FALSE]
        ELSE [ui EXCEPT ![mine] = ~@]

\* What an Escape of the keyboard does: whatever is open first, then its owner.
Escaped(e) ==
  LET did(what) == effects' = effects \cup {<<"esc", e.press, what>>}
      open == CHOOSE p \in {"picker", "menu", "editing"} :
                ui[p] /\ (ui.picker => p = "picker") /\ (~ui.picker /\ ui.menu => p = "menu")
  IN  IF isInputing
      THEN /\ ui' = [ui EXCEPT ![open] = FALSE] /\ did(open) /\ consumed' = e.gen
           /\ UNCHANGED <<hostlist, lobbyExit>>
      ELSE /\ UNCHANGED <<ui, effects>>
           /\ CASE log[e.gen].owner = "MOD_UI" ->
                     /\ hostlist' = IF hostlist.open THEN [hostlist EXCEPT !.exit = e.press]
                                    ELSE hostlist
                     /\ consumed' = e.gen /\ UNCHANGED lobbyExit
                [] log[e.gen].owner = "LOBBY" ->
                     /\ lobbyExit' = IF InTitle THEN e.press ELSE lobbyExit
                     /\ consumed' = e.gen /\ UNCHANGED hostlist
                [] OTHER -> UNCHANGED <<hostlist, lobbyExit, consumed>>

\* _processHotkeyEvents, one event.
HandleHotkey ==
  /\ Locked /\ events /= <<>>
  /\ events' = Tail(events)
  /\ LET e == Head(events) IN
       CASE e.key = "F1" -> /\ TogglePanel("picker", "menu")
                            /\ UNCHANGED <<hostlist, lobbyExit, consumed, effects>>
         [] e.key = "F2" -> /\ TogglePanel("menu", "picker")
                            /\ UNCHANGED <<hostlist, lobbyExit, consumed, effects>>
         [] e.key = "b" -> /\ ui' = [ui EXCEPT !.picker = FALSE]
                           /\ effects' = IF ui.picker
                                         THEN effects \cup {<<"b", e.press, "picker">>}
                                         ELSE effects
                           /\ UNCHANGED <<hostlist, lobbyExit, consumed>>
         [] e.key = "esc" -> Escaped(e)
  /\ UNCHANGED <<keyboard, messages, read, kb, log, native, mappedDown, blocking,
                 inBattle, scene, newScene, stage, early, interrupted, refused>>

Routed ==
  /\ stage = "routing" /\ events = <<>>
  /\ stage' = After("route")
  /\ UNCHANGED <<keyboard, messages, read, escape, mappedDown, blocking, events,
                 panels, scene, newScene, history>>

\* The rest of _inputBoxUpdate: a battle closes the chat when it begins; then the other
\* keys (modelled in ChatInput) may close what is open or open the chat.
Chat ==
  /\ stage = "chatting" /\ events = <<>>
  /\ LET battle == "battle" \in {scene, newScene}
         still == [ui EXCEPT !.editing = ui.editing /\ ~(battle /\ ~inBattle)]
     IN  /\ inBattle' = battle
         /\ \/ ui' = still /\ UNCHANGED inputs
            \/ /\ ui' = [still EXCEPT !.picker = FALSE, !.menu = still.picker /\ @,
                                      !.editing = (still.picker \/ still.menu) /\ @]
               /\ UNCHANGED inputs
            \/ ~isInputing /\ Count /\ ui' = [still EXCEPT !.editing = TRUE]
  /\ stage' = After("chat")
  /\ UNCHANGED <<esc, bkey, focus, messages, read, escape, mappedDown, blocking, events,
                 hostlist, lobbyExit, scene, newScene, history>>

Asked == read.fresh /= 0
Done(press) == {e \in effects : e[1] = "esc" /\ e[2] = press}

\* The press the game asks about is its own: its message has come, it was the game's when
\* it came and the scene is still the same, and it has done nothing yet and was not
\* refused when it was not due (in another scene).
Due ==
  /\ kb.gen /= 0 /\ log[kb.gen].press = read.fresh
  /\ log[kb.gen].owner = "NATIVE_GAME" /\ {scene, newScene} = {log[kb.gen].scene}
  /\ Done(read.fresh) = {} /\ <<read.fresh, FALSE>> \notin refused

\* Mutant: a press is refused as soon as the mod shows anything.
RefusesOverPanels ==
  LET g == kb.gen IN
  IF g = 0 THEN _classifyEscapeOwner /= "NATIVE_GAME"
  ELSE \/ log[g].owner /= "NATIVE_GAME" \/ scene /= log[g].scene \/ newScene /= log[g].scene
       \/ consumed = g \/ native = g \/ isInputing

\* filterNativeEscape(TRUE): the answer, and what it remembers of it.
Refuses ==
  LET g == kb.gen IN
  IF g = 0 THEN _classifyEscapeOwner /= "NATIVE_GAME"
  ELSE \/ log[g].owner /= "NATIVE_GAME" \/ scene /= log[g].scene \/ newScene /= log[g].scene
       \/ consumed = g \/ native = g

\* The game asks whether Escape was pressed this frame, once or more.
AskEscape ==
  /\ stage = "native" /\ Asked
  /\ LET g == kb.gen
         foreign == \/ log[g].owner /= "NATIVE_GAME" \/ scene /= log[g].scene
                    \/ newScene /= log[g].scene
     IN  IF Refuses
         THEN /\ consumed' = IF g /= 0 /\ foreign THEN g ELSE consumed
              /\ refused' = refused \cup {<<read.fresh, Due>>}
              /\ UNCHANGED <<native, effects>>
         ELSE /\ native' = g
              /\ effects' = effects \cup {<<"esc", read.fresh, "game">>}
              /\ UNCHANGED <<consumed, refused>>
  /\ early' = IF kb.gen /= 0 /\ log[kb.gen].press = read.fresh THEN early
              ELSE early \cup {read.fresh}
                         \cup (IF kb.gen = 0 \/ Refuses THEN {} ELSE {log[kb.gen].press})
  /\ UNCHANGED <<keyboard, messages, read, kb, log, mappedDown, blocking, events,
                 panels, scene, newScene, stage, interrupted>>

\* The game's own code of the frame; it may ask for another scene.
Native ==
  /\ stage = "native"
  /\ stage' = After("native")
  /\ \/ UNCHANGED <<newScene, inputs>>
     \/ /\ newScene = scene /\ Count
        /\ newScene' \in CASE scene = "title" -> {"select"}
                           [] scene = "select" -> {"battle", "title"}
                           [] scene = "battle" -> {"select", "title"}
  /\ UNCHANGED <<esc, bkey, focus, messages, read, escape, mappedDown, blocking, events,
                 panels, scene, history>>

\* The host list: closed by the request, or by itself.
UpdateHostlist ==
  /\ stage = "list"
  /\ \/ /\ hostlist.open
        /\ hostlist' = [open |-> FALSE, exit |-> 0]
        /\ effects' = IF hostlist.exit /= 0
                      THEN effects \cup {<<"esc", hostlist.exit, "hostlist">>} ELSE effects
        /\ stage' = "keys"
     \/ /\ ~hostlist.open \/ hostlist.exit = 0
        /\ stage' = "chat" /\ UNCHANGED <<hostlist, effects>>
  /\ UNCHANGED <<keyboard, messages, read, escape, mappedDown, blocking, events, ui,
                 lobbyExit, inBattle, scene, newScene, early, interrupted, refused>>

\* The end of the title frame: a request to leave is honoured unless the chat is open,
\* and forgotten either way; then the player may walk to the host list and open it.
LeaveOrWalk ==
  /\ stage = "leave"
  /\ lobbyExit' = 0
  /\ IF lobbyExit /= 0 /\ ~ui.editing
     THEN /\ stage' = "closed"
          /\ effects' = effects \cup {<<"esc", lobbyExit, "lobby">>}
          /\ UNCHANGED <<hostlist, inputs>>
     ELSE /\ stage' = "keys" /\ UNCHANGED effects
          /\ \/ UNCHANGED <<hostlist, inputs>>
             \/ /\ ~hostlist.open /\ ~isInputing /\ Count
                /\ hostlist' = [hostlist EXCEPT !.open = TRUE]
  /\ UNCHANGED <<esc, bkey, focus, messages, read, escape, mappedDown, blocking, events, ui,
                 inBattle, scene, newScene, early, interrupted, refused>>

KeysNext ==
  \/ PressEscape \/ RepeatEscape \/ ReleaseEscape \/ PressB \/ ReleaseB
  \/ Tap("F1") \/ Tap("F2") \/ SwitchAway \/ SwitchBack
  \/ WindowMessage \/ ReadKeys
  \/ EnterRouting("route", "routing") \/ EnterRouting("chat", "chatting")
  \/ HandleHotkey \/ Routed \/ Chat \/ AskEscape \/ Native \/ UpdateHostlist \/ LeaveOrWalk

KeysSpec == KeysInit /\ [][KeysNext]_keysVars

(***************************************************************************)
(* Properties.                                                             *)
(***************************************************************************)
PanelNames == {"picker", "menu", "editing"}

\* The type invariant.
KeysTypeOK ==
  /\ esc \in [held : BOOLEAN, press : 0..MaxInputs]
  /\ bkey \in [held : BOOLEAN, press : 0..MaxInputs]
  /\ inputs \in 0..MaxInputs /\ focus \in BOOLEAN
  /\ Len(messages) <= MaxMessages
  /\ read \in [down : BOOLEAN, fresh : 0..MaxInputs]
  /\ kb \in [down : BOOLEAN, gen : 0..Len(log)]
  /\ \A g \in DOMAIN log :
       log[g] \in [press : 1..MaxInputs, owner : Owners, scene : Scenes]
  /\ {consumed, native} \subseteq 0..Len(log)
  /\ \A i \in DOMAIN events :
       /\ events[i].key \in {"F1", "F2", "b", "esc"}
       /\ events[i].key = "esc" => events[i].gen \in DOMAIN log
  /\ ui \in [PanelNames -> BOOLEAN]
  /\ hostlist \in [open : BOOLEAN, exit : 0..MaxInputs]
  /\ lobbyExit \in 0..MaxInputs
  /\ {scene, newScene} \subseteq Scenes /\ stage \in Steps
  /\ {mappedDown, blocking, inBattle} \subseteq BOOLEAN

Excused == early \cup interrupted

\* One press of a key does one thing.  Escape, however long it is held and however often
\* the game asks: it never closes a panel and leaves the lobby, or closes a panel and quits
\* the selection.  Not so for a press the game asked about before its message came (or after
\* the next one's), nor for one held while the window lost the focus: it is announced again.
\* And the B that closed the emote picker is not then seen by the game.
PressActsOnce ==
  \A p \in 1..MaxInputs :
    /\ p \notin Excused => Cardinality(Done(p)) <= 1
    /\ ~({<<"b", p, "picker">>, <<"b", p, "game">>} \subseteq effects)

\* What a press did is what the player saw it was for when it was made: the game got
\* only what belonged to it, and nothing that belonged to the game closed a panel.
EscapeWhereMeant ==
  \A e \in effects :
    e[1] = "esc" /\ e[2] \notin Excused =>
      \E g \in DOMAIN log :
        /\ log[g].press = e[2]
        /\ log[g].owner = CASE e[3] = "game" -> "NATIVE_GAME"
                            [] e[3] = "lobby" -> "LOBBY"
                            [] OTHER -> "MOD_UI"

\* A press does one thing, and what it was made for.
PressActsAsMeant == PressActsOnce /\ EscapeWhereMeant

\* The game is not refused of its key: if it asks about a press whose message has come,
\* that belonged to the game, in the scene it was made in, and did nothing yet, the
\* game gets it, whatever was opened in the meantime.
EscapeReachesTheGame ==
  \A p \in 1..MaxInputs : <<p, TRUE>> \in refused => p \in Excused
=============================================================================
