# TLA+ models of the TOS desktop environment

TDE is a window manager: a C core that talks to the X server and embeds Lua, a
Lua library on top of the core, and a desktop shell written in that Lua. The
core is a fork of AwesomeWM. These modules model the parts of the core whose
correctness depends on the *order* of things: Lua calls any exported function
from any callback, the X server and its clients act concurrently and are heard
of later, most work is put off until the next refresh, and processes, timers and
other X clients come and go when they like.

- [Inventory](#inventory): the system's components, their state and what makes them correct
- [Modules](#modules): which module models what, and how it corresponds to the code
- [Runs](#runs): what TLC checks, the bounds and why they are enough
- [Fairness](#fairness)
- [Proofs](#proofs): what holds for every value of the constants
- [What the models leave out](#what-the-models-leave-out)
- [Where the code departs from what it says](#where-the-code-departs-from-what-it-says)
- [Plan](#plan)

To check a model: `tlc -config FocusSafety.cfg MCTakeOver.tla`. To check the
proofs of a module: `tlapm ClientFocus_proofs.tla`. PROJECT.json maps each
definition to the lines it models, lists the runs, and for every property gives
plausible bugs (operators marked "mutant" in the modules) that the property
would catch.

## Inventory

One thread runs everything. `a_glib_poll` (awesome.c) does, in each turn:
`awesome_refresh` (event.h), which is the Lua "refresh" signal, `drawin_refresh`,
`client_refresh` (geometry, borders, **focus**), `banning_refresh`,
`stack_refresh`, `client_destroy_later` and a flush; then it sleeps in `g_poll`;
then it handles every X event that xcb has; then GLib dispatches timers, D-Bus,
the child pipe, idle callbacks and the startup timeouts. Lua runs inside of nearly
all of these.

| Component | State | Operations | Who else touches it | What makes it correct |
|---|---|---|---|---|
| Clients: life cycle and visibility (objects/client.c, objects/tag.c, banning.c) | `globalconf.clients`, per client `hidden`, `minimized`, `sticky`, `isbanned`; `globalconf.tags`, `tag_t.clients`, `selected`; `need_lazy_banning`; X: which windows are mapped | manage, unmanage, tag, untag, select, activate, minimize, hide, ban, unban | X events (MapRequest, Unmap, Destroy), Lua, the refresh | no pointer to a freed client; banned exactly when invisible; mapped exactly as recorded |
| Focus (objects/client.c, event.c) | `globalconf.focus.client`, `need_update`, `nofocus`; X: the focus window and its time | focus, unfocus, focus refresh, FocusIn | clients that take the focus themselves; FocusIn arrives late | X and the record agree when the manager rests |
| Stacking (stack.c, objects/client.c) | `globalconf.stack`, `transient_for`, the four layer flags, `need_stack_refresh`; X: the stacking order | raise, lower, set a layer, change WM_TRANSIENT_FOR, restack | drawins, focus (the fullscreen layer) | no loop in `transient_for`; the list holds exactly the clients; X shows layers, families and order |
| Special layers (objects/client.c, ewmh.c) | `ontop`, `above`, `below`, `fullscreen`; `_NET_WM_STATE` | four setters that call each other and emit signals | handlers call setters in the middle | only what the request and handlers asked for, and nothing of it missing that no handler undid; the published state agrees |
| Geometry (objects/client.c) | `geometry`, titlebars, border, size hints; the frame and window as X has them; what the client was told | resize, set a titlebar or the border, fullscreen, configure requests, refresh | handlers resize again in the middle | no size negative, titlebars where the geometry puts them, hints kept, the client knows where it is |
| Maximized states (client.c, ewmh.c, awful/permissions) | three flags, two atoms, a timer | setters, messages of applications, merging | handlers, messages in a burst | applications see the flags, and get what their messages add up to |
| EWMH desktops (ewmh.c) | root properties, `_NET_WM_DESKTOP` | update on tag changes, requests of pagers | pagers with an index that is old | the property names a tag of the client |
| Window properties (property.c, xwindow.c, objects/window.c) | titles, icons, hints, protocols, opacity, struts | ask, read, store; Lua overrides | the application changes them meanwhile | the record is what the property says when everything was handled |
| Child processes (spawn.c, awesome.c) | `running_children`, the self-pipe | spawn, SIGCHLD, reap, callback | the kernel: signals and exits at any instruction; callbacks that spawn | each end reported once, to the right callback |
| Startup notification (spawn.c, awful/startup_notification.lua) | `sn_waits`, references, timeouts, the busy cursor | announce, change, complete, time out, manage a client with an id | other launchers and programs, over X messages | nothing waits for ever, references exact, cursor agrees |
| Selections (objects/selection_*.c) | the owner object, transfers in progress, getters; X: owner, properties, event masks | acquire, release, answer, send in pieces, ask | other clients as owner and as requestor | the whole data, in order, once; the record of ownership agrees with X |
| Main loop and pointer events (awesome.c, event.c) | the pending event, the held motion, `ignore_enter_leave_events` | refresh, poll, merge motions, ignore enter/leave | xcb reads events whenever somebody waits for a reply | no event slept on, none out of order, only the spurious dropped |
| Pointer and mouse grabber (event.c, mousegrabber.c) | button bindings, the frozen pointer, the grab, `drawable_under_mouse` | press, motion, enter, leave, grab, stop | another client grabs; drawins are hidden under the pointer | the pointer thaws; a press is told once; the record is where the pointer is |
| Keyboard (xkb.c, objects/key.c, keygrabber.c, xwindow.c) | the keymap, key lists and their grabs, the grabber | bind, grab, reload, match | the keymap changes at once in the server | X grabs what is bound in the current keymap; no press of a bound key is lost |
| Tray (systray.c, common/xembed.c) | `globalconf.embedded`, the window of the tray | dock, show, hide, destroy, move the tray | icons of other clients; drawins that are destroyed | an icon in the tray is in the list, once, an entry is of an icon in the tray, and it is shown as it asks |
| Screens (objects/screen.c) | `globalconf.screens`, viewports, work areas, primary | scan, refresh on RandR events, fake screens, move clients | Lua in the middle of a refresh | screens are the monitors; every client on a live screen |
| Drawins, drawables (objects/drawin.c, drawable.c) | geometry, surface, map state, struts | resize, show, hide, draw, refresh | handlers in the middle; Expose | the window shows the record; work areas leave room |
| Wallpaper (root.c, property.c) | a pixmap that outlives its connection, two root properties | set, publish, tell, close | other programs set and kill it | the record is what is published; no pixmap leaks |
| Objects (common/luaobject.c, luaclass.c, signal.h) | references per parent, signal handlers | ref, unref, connect, disconnect, emit, collect | handlers that connect and disconnect during emission | nothing collected that is connected; an emission calls what it began with |
| Start and restart (awesome.c) | WM_Sn, redirection, the saved order | acquire, redirect, scan, exit, restart, crash | another manager; windows come and go | every window managed, order kept |
| Options and configuration (options.c, luaa.c) | the modeline, the files tried, errors | parse, find, load, fall back | lines longer than the buffer; files that fail half-way | options as written, as far as the buffer goes; the loop starts with a configuration |
| D-Bus, drawing, watcher, Lua API tables (dbus.c, draw.c, selection_watcher.c) | handlers, pixels | convert | the bus | conversion |
| Lua libraries (lib/) and the shell (tde/, plugins/) | widgets, layouts, notifications, settings | user interface | the core, through signals | mostly what is drawn |

The behaviours that are hard here, and that the hazards in PROJECT.json list line
by line: **two writers** of the focus; **deferred work** whose flag is cleared and
set again in one turn; **Lua in the middle** of a C function; **events about the
past**; **process ids and windows that are reused**; **references** held by
timeouts; **numbers that wrap**; **protocols with other clients** that may stop
half-way.

## Modules

A C function is one step, with everything it calls, wherever Lua cannot run in
the middle of it or nothing Lua may do there matters; where it does matter
(`client:tags()`, the unmanage signals, the setters of the layers, exit
callbacks) the steps are split. Deferred work is an action of its own that is
enabled by the flag the code sets. What X, other clients and the kernel do are
actions too, and they reach the manager as events in a queue.

**ClientFocus** (client.c, tag.c, banning.c, event.c). `managed`, `hidden`,
`minimized`, `sticky`, `isbanned`, `nofocus` are the clients with that field set;
`tags`, `selected`, `tagged` are the tag objects; `focus`, `needUpdate` and
`needBan` the globals; `winMapped`, `frameMapped` and `xfocus` the X server's
side; `xevents` what it sent and the manager has not handled; `phase` and `woken`
where `a_glib_poll` is and whether it would go to sleep. Actions: the three
event handlers, `EnterRoot`, one action for each Lua function that changes this
state (`LuaCall`), the phases of the loop (`MainLoop`), and the clients
(`XMapRequest`, `XWithdraw`, `XTakeFocus`). `SetInputFocus` knows what X refuses:
windows that are not viewable, and time stamps older than the last change
(`late`). A focus window that is unmapped gives the focus to nobody.

**Stacking** (stack.c, client.c, property.c). The list, the relation and the flags
as in the code; `xorder` is the order in X, and `Restacked` is what X makes of the
sequence of ConfigureWindow requests that `stack_refresh` sends, window by window,
in which one window can be visited twice; `Gather` is the loop that brings the
families of a layer one after the other. `Unmanage` and `Unmanaged` are the two
halves of `client_unmanage`, with Lua in between. `unasked` is a history variable: a
change of the focus or of WM_TRANSIENT_FOR has changed what the order depends on and
nothing has asked for a restack (departures 6 and 7). Only `XFollowsStack` reads it.

**SpecialLayers** (client.c). The pending work of nested C calls is a list of
operations (`todo`): clear another layer, assign, emit; at an emission a handler
may push a call of its own. `called` is history, what handlers have called during a
request; `RequestGranted` measures the outcome by it, with and without such calls.

**ChildProcesses** (spawn.c, awesome.c). The kernel's side (`proc`, `pending`) runs
between any two steps of the manager: a child can end before `luaA_spawn` has
recorded it (`Register`), SIGCHLD merges, the pipe holds a number of bytes of
which a read takes at most `ReadMax`. `owner` is history: the callback a process
was spawned with.

**StartupNotification** (spawn.c and two Lua files). `refs` counts references, and
`known` is the library's list. The manager is launcher and monitor at once and
hears its own messages later. `leftover` is what stays on the Lua stack, which
`Poll` clears as awesome.c does.

**EventLoop** (awesome.c, event.c, client.c). Requests are numbered modulo 2^w (a
small modulus in the run), the server executes them later and stamps events; xcb
reads from the socket into its own queue at any reply. `position`, `handled` and
`ignored` record what Lua got to know.

**Selections** and **Conversion** (selection_acquire.c, selection_transfer.c,
selection_getter.c). Data is a sequence of numbered units, a piece is one unit, a
property holds nothing, a unit, an empty value or an INCR announcement. `watched`
is the set of windows whose property events the manager has selected. Conversion
is the abstract specification - units are offered, received in order, and the end
is seen when nothing is missing - and `Converts` says that Selections implements
it under the refinement mapping of `Abstract`.

**ClientGeometry** (client.c, xwindow.c). `geo` is the record; the frame, the window
and what the client was told are X's side and follow at the refresh. A change
(`client_resize_do`, a titlebar, the border) is a frame on `frames` while its
signals run; a handler may make another change before the outer one places the
titlebars. Size hints are computed as in the code, aspect ratio, base, increments
and limits, on small areas; differences of unsigned sizes are checked not to go
below zero.

**WmState** (client.c, ewmh.c, awful/permissions/init.lua). The C calls in progress
are a list as in SpecialLayers. `delayed` and `timer` are merge_maximization's;
`asked` is history, what the messages since the timer was armed add up to.

**Desktops** (ewmh.c, tag.c). What was written to each property, beside what it
would be if it were written now; `shifted` is history, the properties whose index
was moved by the deactivation of a tag in front.

**Properties** (property.c, client.c, xwindow.c). X's properties, the replies that
wait in the order the requests were sent, the events and the records.

**Pointer** (event.c, mousegrabber.c). X's grabs: a passive grab freezes the pointer
until AllowEvents; replayed presses come back through the frame. `sure` is history:
which records no ignored crossing has made uncertain.

**Keyboard** (xkb.c, key.c, keygrabber.c, xwindow.c). The server's keymap and the one
that was loaded, four flags, the grabs of three windows. `lost` records presses of
bound keys nobody was told of, `touched` keys that Lua changed after they were
grabbed.

**Tray** (systray.c, xembed.c). Docking is two steps because the property is read
before its changes are selected; `unheard` are icons whose property changed in
between, `early` those that were docked while an older move of theirs was on its way.

**ObjectSignals** (luaobject.c, luaclass.c, signal.h). An emission is a frame with the
snapshot it took and what it has called so far; `counts` is the environment table of
an object and the registry.

**Screens** (screen.c). `run` is how far `screen_refresh` is and its arrays; Lua's
actions come between its loops. `layout` and `main` are the monitors and change at
any time; `told` is the RandR event on its way. An object has a life: `valid`,
references, its viewport.

**Drawins** (drawin.c, drawable.c). A geometry change is a frame with the signals
still to emit; `window`, `content` and `expose` are X's side, `area` the screens
whose work area leaves room.

**Wallpaper** (root.c). One connection for each pixmap of this program; `frames` the
calls of root_set_wallpaper, which nest through the signal. KillClient, retained
pixmaps and foreign programs are X's side.

**TakeOver** (awesome.c). Several processes, each in a step of `main`; X keeps the
selection, the redirection, the tree of windows and the saved order. A crash is an
end at any step.

**Configuration** (options.c, luaa.c). `ReadStep` is the state machine of
options_init_config for one character, of those it tells apart; `Chars` carries it
through a text. `fgets` reads a line in pieces of at most READ_BUF_MAX - 1 characters
(`PieceAt`); the last one of a piece, unless the file ends there, is not looked at
(`Looked`), and the code takes the end of a piece for the end of the line (`Piece`):
`Line` and `Lines` put the pieces and the lines together. Then come the search for a
file, loading it and falling back. `LinesAssumption` says which lines surround the
modeline: code and comments of any text none of whose pieces begins like one, with a
newline each but for a last one, and no shebang in front. `Shown` says what the buffer
shows of a modeline, in terms of its keys and not of the reader.

The modules named `MC...` give the constants small values and compose modules. Those
named `..._proofs` hold the theorems.

**Composition.** Components that share state are in one module. Those that share
none are checked side by side: in MCTakeOver, MCProcesses, MCScreens, MCClient and
MCInput a variable `part` says which component a behaviour is of, and the others
rest in an initial state. This adds up state spaces instead of multiplying them and
loses nothing, because no action of one reads a variable of another. MCStacking runs
two instances of one module in the same way.

## Runs

| Run | Modules | What it shows | Bounds | States |
|---|---|---|---|---|
| FocusSafety | ClientFocus, TakeOver | no stale pointer, banning and mapping exact under awful's tag discipline, X and the record agree at rest; a new manager gets every window in the order that was left, and only one manager at a time is past the redirection | 2 windows, 1 tag, 2 undelivered events; 2 managers, 2 windows, 2 ends; symmetry | 1,325,690 |
| FocusLive | ClientFocus | what stays visible is eventually shown, and a refresh never brings a client back that does not have the focus | 1 window, 2 tags, 1 undelivered event, all optional behaviours | 273,200 |
| TagDangling | ClientFocus | *fails*: see finding below | 1 window, 2 tags | |
| Stack | Stacking twice | the list holds the clients, X shows what the list says; no loop in `transient_for` with WM_TRANSIENT_FOR and the focus changing at any time | 3 clients, 1 drawin, ontop and desktop windows; 3 clients, fullscreen; symmetry | 342,528 |
| Processes | ChildProcesses, StartupNotification | running_children exact, callbacks called once and for the right process, every end reported; references exact, the cursor agrees, nothing waits for ever | 2 process ids, 3 spawns, reads of 2 bytes; 2 startup ids, 3 undelivered messages | 11,313 |
| StartupWrong | StartupNotification | *fails*: see finding below | 2 ids | |
| Selection | Selections, Conversion | ownership and watching exact, late SelectionClear harmless, data whole and in order (refinement), every conversion ends | 2 owner objects, 1 getter, 1 other requestor, 2 units | 247,560 |
| SelectionOwn | Selections | *fails*: see finding below | 1 owner object, 1 getter, 2 units | |
| Loop | EventLoop | no event slept on, motions in order, only spurious crossings ignored, every event handled | modulus 32 from 29, 10 requests, 2 user events | 580,648 |
| Screens | Screens, Drawins, Wallpaper, Configuration | screens are the monitors and nothing refers to one that is gone; a drawin is in its window as on record; the wallpaper on record is the published one; the modeline is read as written, as far as the buffer goes, and the loop starts with a configuration | 5 layouts, 2 changes, 1 fake screen, 1 client, 1 action of Lua between refreshes; 2 screens, 3 sizes, 4 calls; 3 own and 2 foreign pixmaps; lines of 5 kinds before and after a modeline of 2 keys and 2 values, buffers of 8 and 13 | 936,563 |
| Client | SpecialLayers, ClientGeometry, WmState, Properties, Desktops | setters do what was asked and `_NET_WM_STATE` agrees; geometry, titlebars and hints; maximizing; records; desktops | 2 nested setters; 2 areas, 2 titlebars, 2 hints, 2 nested changes, 4 in all; 2 messages, 1 handler; 2 writes; 3 tags, 1 message | 1,389,482 |
| Input | Pointer, Keyboard, Tray, ObjectSignals | the pointer thaws and a press is told once; grabs follow the keymap; the tray holds what is in it; signals reach their handlers | 2 clicks, 3 moves; 2 keymaps, 1 key; 2 icons, 2 drawins; 2 handlers, 2 nested emissions | 2,000,150 |

Why these bounds are enough to see the interesting cases. *Focus*: each race is
between one writer on each side; a second client is needed for the focus to move
to, a second tag for a client to stay visible when one is deselected, and a second
event for one to be overtaken. *TakeOver*: two managers make a replacement and its
race; two ends make a restart after a crash; two windows make an order. *Stacking*:
three clients give chains, siblings, and a loop of length three; the layers are a
chain of tests, and the highest one together with desktop, normal and drawins
between them has every kind of neighbour. *Children*: two ids and three spawns make
an id be used again while another child is being reaped. *Startup*: two sequences
are needed for one to be mistaken for the other. *Selections*: two objects make a
late SelectionClear, two units make a first, a middle and a last piece together
with the INCR announcement and the empty property. *Loop*: the first move straddles
the wrap-around of the numbers, the second is beyond it, and the server may be any
number of requests behind. *Screens*: the layouts are two monitors, mirrored ones of
different sizes, one without outputs, none at all, and the compatibility output; a
second change comes while the first is being handled. *Drawins*: four calls nest
three deep. *Wallpaper*: three own pixmaps make a call inside the handler of
another. *Configuration*: with buffers of 8 and 13 characters instead of 64 and 127 a
modeline of one key fits, and the first piece of one with two keys ends before, within
or after the value of the second: two letters of it are lost, cut or whole; a comment
of 18 characters has a second piece that could pass for keys. *Geometry*: a change inside a change inside none; four changes make a bar,
a resize, a border and fullscreen in one history. *Keyboard*: two keymaps move a
symbol to another key and into another column. *Tray*: two icons, because one may
be in the way of the other in the list; a fourth act (`LastIsMove`) is one more move of
an icon that did the others, because a docking that an older move overtakes needs four:
docked, moved, asked again, moved again. *Signals*: two emissions, one in the handler
of the other.

Deadlock is checked in the runs of ClientFocus alone and of Stacking. The other
runs have inputs that are used up (each callback, id, conversion, event or bounded
call once), after which the model may stop: there `CHECK_DEADLOCK` is off. Where
something must happen in the end, a liveness property takes its place.

## Fairness

- ClientFocus: `WF(MainLoop)`, the loop turns when something has woken it, and
  `WF(HandleEvent)`, it handles what X sent. Lua and the clients owe nothing.
- ChildProcesses: the kernel delivers a pending signal; `luaA_spawn` and
  `reap_children`, once begun, go on; GLib dispatches a readable pipe. Processes
  need not end.
- StartupNotification: messages are read, the loop turns, and the GLib timer of a
  sequence expires. Programs need not do anything.
- EventLoop: the thread runs when it can (`WF(MainLoop)`); the server may execute
  requests as late as it likes. `WakeOther`, a timer or descriptor that happens to
  wake the loop, is *not* fair: an event that needed it would be slept on.
- Selections: the loop handles events, and each other client goes on with its part
  of a conversion or goes away. Nobody is obliged to give up or take the selection.

The other modules state safety: what holds when everything on its way has been
handled.

## Proofs

TLAPS proves the following for any number of windows, tags, processes, objects and
for any bounds. Each safety theorem has an inductive invariant that was first
checked by TLC; what is said of it here is what the property needs beside itself.

**ClientFocus_proofs**: `TypeCorrect`, `StaleReferencesNever`, `BanningExact`,
`MappingExact`, `FocusRight`.

- Stale references and banning share `TypeOK`, `NoStaleReferences`,
  `TagDiscipline` and `BannedIffInvisible`. Exact banning is not inductive alone:
  that setting `need_lazy_banning` in every function is enough depends on tags
  that are selected being activated and new tags being empty.
- Mapping: a managed window that is neither mapped nor minimized has its
  UnmapNotify in the queue. Only the refresh of the focus both maps windows and
  adds to the queue; it has a lemma of its own.
- `FocusRight` needs that the last FocusIn in the queue names the window X has
  given the focus to, and that when nothing is pending the record does, unless the
  server refused the request because the client was withdrawn, or is iconic and
  about to be banned. Its hypothesis is `Env = {}`, as in the run FocusSafety: Lua
  hides no client, every client takes input, and none has set the focus with a
  time that the manager has yet to see.

**Stacking_proofs**: `StackingTypes`, `TransientsAcyclic`, `StackHolds`,
`OrderKept`.

- Acyclicity is stated without paths: every set of clients has a member that is
  not transient for another member. When the bounded search found no way from w
  back to c, a set without such a member after `transient_for` of c became w would
  be closed under the relation from w on, so the way would stay in it or reach c.
- `StackHolds`: raising and lowering recur along chains of `transient_for`. The
  recursive functions `Raised` and `Lowered` exist *because* the relation is
  acyclic (the recursion theorem of well-founded relations), and each step of them
  keeps the list free of repetition and its set the same.
- `OrderKept` is `XFollowsStack` for any clients, drawins and layers. Beside the list
  and the acyclic relation it needs `XHolds`: X has the frames of the managed
  clients, of the dying one and the drawins, each once; while a client is dying a
  restack is due; the visible drawins do not repeat. The argument follows the code.
  `RestackedRight`: since each window is put above the one visited before, at the end
  the windows are in the order of their *last* visits, whatever the order was before
  and though the first one never moves. `Trees`: visiting a client and all that is
  transient for it is a recursion that ends, because a finite set of clients without
  a loop has a member with no child in it (`Childless`). `FamilyRight`: a family
  is the clients whose chain of parents holds its head, each after its parent.
  `LayerRight` and `DrawinsRight` say who is in each of the eight segments,
  `PartsRight` that a client's last visit is in the segment of its rank.
  Afterwards the order stays right (`ShowsKept`) because every function that changes
  the rank, the list or the relation either asks for a restack or sets `unasked`.

**Processes_proofs**: `ChildTypes`, `ChildrenRecorded`, `CallbacksOnce`,
`SignalsNotLost` of the children, `ReferencesSafe` and `CursorSafe` of startup
notification, `OneManagerAtATime`, `WindowsSafe`, `OrderSafe` of managers that
come and go, and `ConfigurationSafe` of what one of them starts with.

- Children: `Nesting` (a callback runs only inside of reap_children, what is being
  registered is a live process) and `OwnersDistinct` (no two processes share a
  callback).
- References: a sequence is announced once, what announces it is read before anything
  else about it, `sn_waits` has it once, and what waits was announced. The cursor is right if awful is connected to "initiated", "completed"
  and "timeout", which is a hypothesis, as it is in the run.
- One manager: the redirection of the root window, which X gives once, decides; the
  window found earlier as the owner of the selection may be a stale one.
- Windows: what is mapped is in the answer to QueryTree that is being scanned or
  among the clients; what asks to be mapped is neither; what was destroyed and is
  still a client has its DestroyNotify on the way.
- Order: between two managers the saved property holds the clients in their order,
  and the tree holds the windows in the order of the stack; while one scans, its
  stack with the rest of the answer behind it has that order. Lists are compared by
  which of two windows `Precedes` the other. `RestoreRight` shows that swapping each
  saved window to the next place, as restore_client_order does, sorts the clients by
  the saved list; `SameList` that two lists with the same elements in the same order
  are equal.
- Configuration: the reader is a recursive function over the characters of a line and
  over the lines of a file. Reading two pieces after each other is reading the whole
  (`CharsConcat`), so that a modeline can be read piece by piece: the name leaves the
  reader before a key (`NameRead`), a key with or without a value adds its words
  (`KeyRead`), one that is cut off those of what is there of it (`KeyCut`). By induction
  on the number of keys the first characters of a modeline, wherever they end, add the
  words they show and leave an empty buffer (`ModelineCut`), so its first piece does
  (`FirstPiece`). A piece that is no modeline stops the reader at its first telling
  character, with nothing added (`NoModelineRead`, `CodePiece`). That goes for the pieces
  of code and comments (`CodeLine`) and for the later ones of a modeline: they begin
  beyond its name, with a character of a key or value (`ModelineLine`, `RestOfLine`). By
  induction on the lines the text gives what its modeline shows (`ModelineOfText`). A
  piece of the proof that did not go through showed that only a mismatch within the name
  resets the position, which the model now follows. The search keeps that the errors, the
  file in use and the files left are the candidates in order, and that nothing of a file
  left has run.

**Selections_proofs**: `SelectionTypes`, `OwnershipKnown`, `LateClear`, `WatchesEnd`,
and the refinement `ConversionRefines`.

- Ownership needs `ClearsStale`: a window with a SelectionClear on its way was made
  and does not own the selection. It holds because an owner window is never used
  for a second object.
- The refinement relates what is in the property, the PropertyNotify and
  SelectionNotify events on their way, the position of the transfer and what the
  requestor has: the units form one sequence without a gap. Initial states map to
  initial states, and every step maps to a step of Conversion or to none.
- `WatchesEnd` and the refinement assume that requestors have a window each, and
  the refinement that the manager does not send in pieces to its own getter: those
  are departures 14 and the run SelectionOwn.

**Input_proofs**: `PointerSafe`, `MouseSafe`, `KeyboardSafe`, `TraySafe`,
`SignalsSafe`, and of the main loop `SleepsOnNothing` and `CrossingsSafe`.

- Pointer: the press of a frozen pointer is still in the queue, or its handler has yet
  to call `xcb_allow_events`; the last crossing on its way leads to the right record
  of what is under the pointer.
- Keyboard: when the loaded keymap is not the server's, the reload flag is set or the
  event is on its way; the grabs in X are the keys of the *loaded* keymap; no key
  between the two is lost.
- Tray: an entry of the list is a child of the tray, or the event that says it is not
  is in the queue, in the order in which they will be handled. For the other direction
  `HasEntry`: no move of an icon in the tray is on its way, `early` ones excepted, and
  no DestroyNotify of one that lives, so no handler takes its entry.
- Signals: the references of a function are its connections, those of the frames
  that are calling included; what a frame calls is what it copied.
- Loop: the queue is looked at after the loop's own requests were sent and before it
  sleeps. Crossings: events come in the order of their numbers, and each crossing of
  a move has a range that is still known. With w-bit numbers the comparison in
  `should_ignore` is exact while the numbers on their way span less than half of the
  modulus, which the bound on requests states.

**Client_proofs**: `LayersSafe`, `StatesSafe`, `RecordsSafe`, `DesktopsSafe`,
`GeometryKnown`, `TitlebarsPlaced`, `GeometrySafe`.

- Layers: the list of pending C calls says what will become of each flag (`WillGrant`).
  A layer that is set is one the request leaves, or handlers have set, or one that a
  pending call will clear; a layer that the request should leave is set, or a handler
  undid it, or a pending call will set it; and every pending call that sets or clears a
  layer is the request's own part or comes from a handler's call. Each step keeps this
  whatever calls are put in front of the list, so nothing is assumed of the handlers;
  with an empty list it is `RequestGranted`.
- States: the list of pending C calls is a stack whose tail has a known form.
- Records: for each property the reply that is waited for, the event that is on its
  way, or the record itself has the last value.
- Desktops: what a pager reads was written when the tags were what they are, except
  for the indices in `shifted`.
- Geometry: what the client was told is where X has it; the titlebars are placed, or a
  call of resize or fullscreen in progress has yet to place them.
- Sizes: `GeometrySafe` needs `SizesFit`: there are m and t with m + 2t at most 65535
  such that no first, requested, least or base size exceeds m and no titlebar t. X's
  windows are smaller than that, but Lua may ask for up to 65535, and then
  `titlebar_resize` wraps (departure 26). The invariant is `SizeInv`: the inner size
  stays between 0 and m whatever nests. Aspect ratios only shrink it
  (`RoundedDown`, `AspectArea`); increments step down to the base by whole steps
  (`StepDownRight`, which TLC cannot say for all numbers); two titlebars of one axis
  come and go around an inner size that stays. The attempt to prove the hints showed
  what they promise: the increment of a dimension is respected when *both* increments
  are given, because the code ignores a pair with a zero in it.

**Manager_proofs**: `WallpaperSafe`, `DrawinSafe`, and of the screens `ScreensSafe` and
`ScreensFollow`.

- Wallpaper: all calls but the innermost wait in their handlers; what a call paints
  is not published, and what is published exists; a pixmap whose connection is open
  or that was left behind is the one in ESETROOT_PMAP_ID, where the next one finds it.
- Drawins: the frames of nested geometry changes each owe the window, the work area
  or both, and the innermost one that owes will use the current record.
- Screens: `PointersRight` says that an object is in each of `globalconf.screens` and
  the arrays of `screen_refresh` at most once and has a reference for each one it is in;
  what is about to be removed is in no other; the viewports of what was scanned and
  of the listed screens exist; in which phase which array is empty; and that outside
  of the start some screen is real unless the screens are left to Lua. That is also why
  a client always has a screen to go to: the matching one is listed before a screen of
  the scan is removed. `ScreensSafe` follows.
- `PicturesRight` follows the monitors through a refresh: unless they have changed
  since, and then RandR's event is still on its way, the scan shows every monitor with
  an output; what is left of it after the removal of duplicates shows as much, each
  place and each xid once (`DeduplicateRight`, on the length of the list: every pass
  without an effect ends it, every other one shortens it); while screens are removed
  each new one has a listed one of its xid and the other way round; while they are
  adjusted those already visited have the new geometry. When all are, the two agree and
  `ScreensFollow` holds. Neither part is inductive without the other: that the screens
  left are not none needs the references, and what a listed screen shows needs that
  its object was not made again for another one.

**EventQueues** holds what several of these use: the elements and the order of a
queue after Append, Tail, removal and replacement, frames of nested calls as a
stack, the least of a set of numbers, and induction and recursion over numbers in
the form the provers can use. The library's induction theorems take an operator as
a parameter, which they cannot; stated for a *set* of numbers they can be
cited, and that is how the functions over lists above are shown to be what they are.

Assumed are the named assumptions on the constants in each module - the sentinels
differ from the objects, bounds are natural numbers, getters have windows of their
own - and the hypotheses named above. Some theorems state more than a run repeats:
the type theorems, `SignalsNotLost`, `OneManagerAtATime` and `TitlebarsPlaced`
were checked by TLC while the modules were written, inside of larger properties
or alone.

Only model-checked are:

- liveness (`ShownAndKept`, `EveryExitReported`, `NoEndlessWait`, `ConversionEnds`
  and `EventsHandled` in `HandledInOrder`), out of the prover's reach;
- `ConversionRefines` without its hypotheses, which is what the failing run is about.

## What the models leave out

Whatever the modules do not distinguish is data: the texts of titles, pixels, key
names, contents of selections. Beyond that:

- *ClientFocus*: icons, urgency without focus, screens. Lua handlers run between
  actions and not inside the setters (SpecialLayers, WmState and ClientGeometry show
  what re-entrancy does there). The frame of a client is destroyed at the end of
  `client_unmanage`, not by the later `client_destroy_later`. Requests take effect at
  X when they are sent: the manager flushes before it sleeps. The discipline of
  awful is assumed: a tag is activated before it is selected and filled.
- *Stacking*: Lua does not restack a client that is being unmanaged (departure 8);
  after a change of the focus that moves a fullscreen client, or of WM_TRANSIENT_FOR,
  nothing is said of the order in X until the next restack, because they do not ask for
  one (6 and 7). A request to put a window above itself changes nothing (9).
- *SpecialLayers*, *WmState*, *ClientGeometry*: one client each.
- *ClientGeometry*: the values of hints are a few records; content of titlebars.
- *ChildProcesses*: the pipe is unbounded; children of `io.popen` are absent.
- *StartupNotification*: `SN_MONITOR_EVENT_CANCELED`, which the library never
  reports; contents of the sequences. Dropping the rules of an id is immediate.
- *EventLoop*: what handlers do with an event; error replies, which take the place
  of events in the queue and are only logged.
- *Selections*: one selection; targets and types of the data; time stamps except
  that the server may ignore a request for ownership; garbage collection of a getter
  in the middle of a conversion; "release" handlers that acquire again; managed
  clients or getters that use one window for two conversions (14).
- *Screens*: handlers of a screen's property signals do not change the list of
  screens in the middle of `screen_refresh` (handlers of "list", "added" and
  "removed" may); `fake_remove` and `fake_resize` are called on screens that Lua made.
- *Drawins*: handlers of `property::surface` that show or hide the drawin in the
  middle of `drawin_map`.
- *Pointer*, *Keyboard*: the release of a button or key is merged with its press;
  synthetic input; modifiers that are not in a binding.
- *Tray*: focus messages of XEmbed, which are never sent.
- *TakeOver*: signals before the loop runs; a locale or a Lua that cannot start.

Not modelled at all, with the reason in PROJECT.json: D-Bus and drawing (conversion
without a protocol of their own), the selection watcher (one flag), the libraries
that compute what to draw, and the shell's panels and settings.

## Where the code departs from what it says

Three runs end in a violation of a comment in the code:

- **TagDangling**. client.c:2868 says "remove client from global list and
  everywhere else". The loop there visits `globalconf.tags`, the activated tags: a
  client unmanaged after one of its tags was deactivated stays in that tag's client
  list, and the tag has a pointer to a freed object when Lua activates it again.
- **StartupWrong**. spawn.c:236 says "Tell the spawn module that an app has been
  started". The comparison of the ids in `spawn_start_notify` matches when they
  *differ*, so managing a client completes some other sequence.
- **SelectionOwn**. selection_getter.c:164 says of the size estimate of an INCR
  property "which we ignore". When Lua asks for a selection it owns itself and sends
  it in pieces, the transfer has already selected property events on the getter's
  window, the new property is read as a piece, and the estimate goes to Lua as data.

Other behaviour that came up while the models were written, where no line of the
repository promises the contrary. The models contain it and the properties except
it by name, or they were narrowed where this says so.

Clients, focus, stacking:

1. `event_handle_focusin` (event.c:722) records the client of a FocusIn that was
   sent before the manager asked X to focus nobody: until the next event, Lua
   believes a client is focused that is not.
2. A client minimized since the last banning and then focused, in one turn:
   `client_focus_refresh` (client.c:1866) makes sure it is unbanned, which is a no-op
   as it is not banned yet, and sets the focus to a window that is not mapped.
3. `client_unban` (client.c:2842) clears `minimized` before `hidden`; the visibility
   is looked at in between, takes the focus away and X gets it nevertheless.
4. A FocusIn for a client that was banned since (event.c:723) makes an invisible
   client the focused one.
5. `tag.activated = true` (tag.c:566) on a tag that is selected and has clients
   makes them visible and does not ask for banning. awful never does it.
6. `client_layer_translator` (stack.c:139) depends on the focus, and a change of the
   focus does not ask for a restack: a fullscreen client stays in front of, or
   behind, others until something else restacks.
7. WM_TRANSIENT_FOR of a managed client (property.c:127) changes without a restack.
8. `raise()` in the unmanage signal (client.c:2897) puts the client, which is in no
   other list any more, back into `globalconf.stack`.
9. A transient client and its parent that are both ontop are visited twice in a
   row, and X is asked to put a window above itself (stack.c:192), which it refuses
   with BadMatch; stack.c:72 means to work "without causing errors". The order is
   right all the same.
10. A handler that sets a second layer while the setter still clears the others
    leaves a client with two special layers (client.c:2742), against the comment of the
    four setters, "You can only be part of one of the special layers" (client.c:2639,
    2742, 2767, 2810). `RequestGranted` and the theorem `LayersSafe` state what remains
    true however handlers interfere; that one layer is left is not among it.
11. The focus is set with the time of the last event (client.c:1884): X ignores it when
    a client has set the focus with a later time.
12. `client:tags()` untags before it tags (client.c:3276): a focused client that moves
    from one selected tag to another loses the focus on the way.
13. Of two maximized flags `merge_maximization` clears only "maximized": a client that
    asks for horizontal, then vertical, and then removes both keeps the horizontal one.

Processes, startup, selections, loop:

14. The end of a transfer in pieces sets the event mask of the requestor's window to
    nothing (selection_transfer.c:132). Of two transfers to one window the second is
    never continued; and a managed client that asks with its own top-level window
    loses the mask it was managed with.
15. The deprecated `selection()` (selection.c) waits for one SelectionNotify that
    carries a property. With no owner it carries none, and the call never returns;
    it also takes the notifications of other getters.
16. A requestor that disappears in the middle of a transfer leaves the transfer in
    the registry for ever. `ConversionEnds` therefore excepts a requestor that is
    gone.
17. `on_snid_cancel` (lib/awful/spawn.lua:334) indexes `snid_buffer` with the table of
    the signal in place of its id, so the rules of a sequence that timed out are kept.
18. `spawn_monitor_event` (spawn.c:222) pops its table only if somebody is connected
    to the signal; the check in awesome.c:458 then complains and cleans up.
19. The handler of SIGCHLD writes to a pipe that blocks (awesome.c:506), and
    `waitpid(-1)` (awesome.c:522) also collects the children of `io.popen`, whose
    `close` then cannot report the status.
20. The test whether an enter or leave falls into a range of request numbers
    (event.c:1085) does not know of wrap-around: once in 2^32 requests a spurious
    event gets through. `CrossingsRight` excepts exactly that.

Screens, tray:

21. `screen_update_primary` (screen.c) takes the last screen that matches: after two
    monitors swapped names it may be another than the one X calls primary. If the
    first scan finds no monitor, RandR is not asked again; the scan of the whole root
    window that replaces it leaves a viewport without a screen.
22. A new screen's work area ignores struts until the next update, and a client that
    moves to another screen does not update either work area.
23. `screen_client_moveto` (screen.c:1395) reads the geometry of the old screen, which
    is NULL for a client that is on none.
24. A dock request (systray.c) names a window that nobody checks to be alive: the
    entry of one that is gone stays. `_XEMBED_INFO` is read before its changes are
    selected (systray.c:145), so a change in between is not heard of. A late
    ReparentNotify after the icon docked again ends the entry of an icon that is in the
    tray: event_handle_reparentnotify (event.c:998) looks at the parent in the event, not
    at where the window is (`early`).
25. Deleting `_XEMBED_INFO` hides an icon, docking without it shows it.

Geometry, pointer, keys:

26. Titlebars that take all of a client's area leave an inner size of 0, which X
    refuses while the record says it is done; sizes of titlebars wrap at 65536.
27. A border that changes alone sends no ConfigureNotify, so the client's idea of
    where it is stays off by the border.
28. A resize inside of a handler leaves the titlebars' drawables where the outer one
    puts them. Increments are applied after the minimum and may go below it. A
    titlebar that changes in fullscreen changes the size of the frame.
29. `client_resize_do` emits property::x or property::y, not both, when a client
    moves in both directions, and likewise for width and height.
30. The grabbers take any reply for success, AlreadyGrabbed too (mousegrabber.c,
    keygrabber.c). The press that was on its way when the grab failed is then not
    allowed by the manager, which believes its grab is active: the pointer stays
    frozen until something ungrabs it. `PointerFree` excepts a grab held by another.
31. The comment above event.c:219 wants to allow the events of a press that was grabbed
    on the drawin; the test is whether the press has no child window. On the tray in a
    drawin with a button bound it has one, and is never allowed.
32. A callback that stops its grabber, starts another and then fails stops the new one.
33. Hiding a drawin under the pointer leaves it recorded; a leave handler may nest.
34. A keysym that is bound but sits in another column than the first is grabbed and
    never matches; without XKB the keymap's changes are ignored; key objects that Lua changes
    are not grabbed again until their list is set; an invalid key name clears the key
    without an error.

Start, configuration, properties, wallpaper:

35. Of two managers that both found the same owner to replace, both may end
    (awesome.c); MapRequests that are pending at a restart are lost; without raising
    by Lua, the stack is reversed at each restart.
36. `options_detect_shebang` (options.c) reads one character and tests it the wrong way
    round. The modeline is read from the first file that exists even if another one is
    run; its last word is lost if the file ends without a newline; a line that is a
    prefix of a modeline hides one in the next line; a second modeline is followed too.
    The buffer holds READ_BUF_MAX - 1 = 126 characters (options.c:33, 141). The end of a
    full buffer passes for the end of the line (options.c:329): its last character is
    skipped, the key or value in it is taken as far as it goes, and the rest is read as a
    line of its own (options.c:337). A longer modeline, one with long search paths say, is
    silently cut: `ModelineRead` says what is left of it.
    What a failing file did before it failed stays.
37. `has_NET_WM_WINDOW_TYPE` is TRUE after managing even without the property
    (property.c), so a later WM_TRANSIENT_FOR never makes a dialog of the client; a
    deleted WM_TRANSIENT_FOR leaves it one. Hints without the input flag keep the old
    `nofocus`; `_NET_WM_ICON` is never forgotten; a type is read only when managing.
38. Opacity 0 at the start is recorded and never given to the frame. For a drawin,
    `property_handle_net_wm_opacity` pops one value too many off the Lua stack.
39. `ewmh_client_update_desktop` writes an index: after a tag in front is deactivated or
    activated, it names another tag until the client is tagged again. Deactivating a
    tag that is not selected writes no current desktop.
40. A manager that is killed between asking X to retain its wallpaper's pixmap and
    closing the connection leaves the pixmap for ever; a program that frees the pixmap
    it had published leaves a stale record (root.c).
41. A scan that finds the viewport of an area again appends the outputs to those it
    has (screen.c:497, screen.c:678, screen.c:775): they are listed once more after
    every refresh, and an area that once had the output "default" is taken for a
    compatibility layer while it has a viewport. `ScreensFollowMonitors` excepts those.

## Plan

Done: every part of the C core that has state of its own over time, in the 20 modules
above, and proofs about each of them.

What is left, the most valuable first:

1. **SelectionWatch** (selection_watcher.c), with the window that is made and
   destroyed by `active`; **gears.timer** and the delayed calls it keeps; the redraw
   queue of wibox.drawable; the settings of tde/module/state.lua.
2. `client:swap` outside of a restart; the property `urgent`; handlers inside the
   setters of ClientFocus.
3. Composition of Screens with ClientFocus: which clients are visible when their
   screen's tags are gone is decided by awful's handlers of "removed".
