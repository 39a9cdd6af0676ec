-------------------------------- MODULE TakeOver --------------------------------
(***************************************************************************)
(* Window managers that come and go while the clients stay: a manager      *)
(* starts, claims the selection WM_Sn, waits for the one it replaces, asks *)
(* for the redirection of the root window, takes over the windows that are *)
(* there, and gives them back when it ends or restarts; it may also crash. *)
(* A window that is mapped without a manager is mapped at once, with one   *)
(* it becomes a MapRequest.                                                *)
(*                                                                         *)
(* Source: main, acquire_WM_Sn, scan, restore_client_order, awesome_atexit *)
(* and awesome_restart of awesome.c; event_handle_selectionclear.          *)
(***************************************************************************)
EXTENDS Naturals, Sequences, SequencesExt, FiniteSets

CONSTANTS
    Manager,   \* processes of the window manager
    Window,    \* windows of applications
    MaxEnds    \* bound: exits, restarts and crashes

ASSUME TakeOverAssumption == MaxEnds \in Nat /\ "none" \notin Manager

VARIABLES
    stage,     \* where main is
    replaces,  \* the option --replace
    old,       \* the owner that acquire_WM_Sn found, which it waits for
    holder,     \* X: the owner of WM_Sn
    clear,     \* X: SelectionClear events on their way
    redirect,  \* X: who has SubstructureRedirect on the root window
    tree,      \* X: the windows that are there, bottom first
    mapped,    \* X: those that are mapped or in the save-set of a manager
    requests,  \* MapRequest events on their way
    gone,      \* DestroyNotify events of clients on their way
    saved,     \* AWESOME_CLIENT_ORDER
    clients,   \* globalconf.clients
    stack,     \* globalconf.stack
    toScan,    \* the answer to QueryTree that scan works on
    raises,    \* Lua raises every client it gets, or leaves it where it is
    before,    \* the order and the stacking when the last manager ended well
    ends       \* how many ended so far

takeVars == <<stage, replaces, old, holder, clear, redirect, tree, mapped, requests, gone, saved, clients, stack,
              toScan, raises, before, ends>>

Phase == {"off", "new", "found", "claimed", "starting", "scanning", "running"}

TakeOverTypeOK ==
    /\ stage \in [Manager -> Phase] /\ replaces \in [Manager -> BOOLEAN]
    /\ old \in [Manager -> Manager \cup {"none"}]
    /\ holder \in Manager \cup {"none"} /\ redirect \in Manager \cup {"none"} /\ clear \subseteq Manager
    /\ tree \in Seq(Window) /\ mapped \subseteq Window /\ requests \subseteq Window /\ gone \subseteq Window
    /\ {saved, clients, stack, toScan, before.clients, before.stack} \subseteq Seq(Window)
    /\ raises \in BOOLEAN /\ before.clean \in BOOLEAN /\ ends \in 0..MaxEnds

\* the elements of a list that are in a set, in their order
Among(l, s) ==
    LET kept[i \in 0..Len(l)] ==
            IF i = 0 THEN <<>> ELSE IF l[i] \in s THEN Append(kept[i - 1], l[i]) ELSE kept[i - 1]
    IN  kept[Len(l)]
Without(l, w) == Among(l, ToSet(l) \ {w})

----------------------------------------------------------------------------
(* Start. *)

windowVars == <<tree, mapped, saved, clients, stack, raises, before>>

Start(p, r) ==
    /\ stage[p] = "off"
    /\ stage' = [stage EXCEPT ![p] = "new"] /\ replaces' = [replaces EXCEPT ![p] = r]
    /\ UNCHANGED <<old, holder, clear, redirect, requests, gone, toScan, ends, windowVars>>

\* X closes the connection: the selection and the redirection are free again,
\* whoever waits for the window of the process sees it gone, and a MapRequest
\* that nobody read is lost
Closed(p, next) ==
    /\ stage' = [stage EXCEPT ![p] = next]
    /\ old' = [q \in Manager |-> IF q = p \/ old[q] = p THEN "none" ELSE old[q]]
    /\ requests' = IF redirect = p THEN {} ELSE requests
    /\ gone' = IF redirect = p THEN {} ELSE gone
    /\ holder' = IF holder = p THEN "none" ELSE holder
    /\ redirect' = IF redirect = p THEN "none" ELSE redirect
    /\ clear' = clear \ {p}

\* acquire_WM_Sn asks for the owner
FindOwner(p) ==
    /\ stage[p] = "new"
    /\ IF holder # "none" /\ ~replaces[p] THEN Closed(p, "off")
       ELSE /\ stage' = [stage EXCEPT ![p] = "found"] /\ old' = [old EXCEPT ![p] = holder]
            /\ UNCHANGED <<holder, clear, redirect, requests, gone>>
    /\ UNCHANGED <<replaces, toScan, ends, windowVars>>

\* and takes the selection, whoever has it now; the other one is told
Claim(p) ==
    /\ stage[p] = "found" /\ stage' = [stage EXCEPT ![p] = "claimed"]
    /\ holder' = p /\ clear' = IF holder = "none" THEN clear ELSE clear \cup {holder}
    /\ UNCHANGED <<replaces, old, redirect, requests, gone, toScan, ends, windowVars>>

\* It waits until the window of the owner it found is gone, and not for one that
\* claimed the selection later. The server is grabbed from the redirection to the answer of QueryTree. The
\* redirection is refused while another process has it.
Redirect(p) ==
    /\ stage[p] = "claimed" /\ old[p] = "none"
    /\ IF redirect # "none" THEN Closed(p, "off") /\ UNCHANGED toScan
       ELSE /\ redirect' = p /\ toScan' = tree
            /\ stage' = [stage EXCEPT ![p] = "starting"] /\ UNCHANGED <<old, holder, clear, requests, gone>>
    /\ UNCHANGED <<replaces, ends, windowVars>>

\* rc.lua is loaded, or there is none that works; scan reads and deletes
\* AWESOME_CLIENT_ORDER later, and nobody writes it in between
ParseRc(p, ok) ==
    /\ stage[p] = "starting"
    /\ IF ok THEN stage' = [stage EXCEPT ![p] = "scanning"] /\ UNCHANGED <<old, holder, clear, redirect, requests, gone, toScan>>
       ELSE Closed(p, "off") /\ toScan' = <<>>
    /\ UNCHANGED <<replaces, ends, windowVars>>

\* mutant: windows that nobody mapped are managed too
ScansAll(w) == w \in ToSet(tree)

\* scan: what is not mapped is left alone
Manageable(w) == w \in ToSet(tree) \cap mapped

\* client_manage: a client is pushed under the others and Lua may raise it
Managed(w) ==
    /\ clients' = <<w>> \o clients
    /\ stack' = IF raises THEN Append(stack, w) ELSE <<w>> \o stack

ScanOne(p) ==
    /\ stage[p] = "scanning" /\ toScan # <<>>
    /\ LET w == Head(toScan) IN
       IF Manageable(w) THEN Managed(w) ELSE UNCHANGED <<clients, stack>>
    /\ toScan' = Tail(toScan)
    /\ UNCHANGED <<stage, replaces, old, holder, clear, redirect, tree, mapped, requests, gone, saved, raises, before, ends>>

\* mutant: the clients keep the places in which they were found
Untouched(l, order) == l

\* restore_client_order: each saved window that is found is swapped to the next place
RestoreOrder(l, order) ==
    LET place(acc, w) ==
            IF w \notin ToSet(acc.list) THEN acc
            ELSE [list |-> [acc.list EXCEPT ![acc.next] = w,
                                            ![CHOOSE i \in DOMAIN acc.list : acc.list[i] = w] = acc.list[acc.next]],
                  next |-> acc.next + 1]
        placed[k \in 0..Len(order)] ==
            IF k = 0 THEN [list |-> l, next |-> 1] ELSE place(placed[k - 1], order[k])
    IN  placed[Len(order)].list

Scanned(p) ==
    /\ stage[p] = "scanning" /\ toScan = <<>>
    /\ stage' = [stage EXCEPT ![p] = "running"]
    /\ clients' = RestoreOrder(clients, saved) /\ saved' = <<>>
    /\ UNCHANGED <<replaces, old, holder, clear, redirect, tree, mapped, requests, gone, stack, toScan, raises, before, ends>>

----------------------------------------------------------------------------
(* While a manager runs. *)

TakeMapRequest(p, w) ==
    /\ stage[p] = "running" /\ w \in requests
    /\ requests' = requests \ {w} /\ mapped' = mapped \cup {w} /\ Managed(w)
    /\ before' = [before EXCEPT !.clean = FALSE]
    /\ UNCHANGED <<stage, replaces, old, holder, clear, redirect, tree, gone, saved, toScan, raises, ends>>

\* Lua changes the order of clients and raises one of them
Swap(p) ==
    /\ stage[p] = "running" /\ Len(clients) > 1
    /\ clients' = Reverse(clients) /\ before' = [before EXCEPT !.clean = FALSE]
    /\ UNCHANGED <<stage, replaces, old, holder, clear, redirect, tree, mapped, requests, gone, saved, stack, toScan, raises, ends>>
Raise(p, w) ==
    /\ stage[p] = "running" /\ w \in ToSet(stack)
    /\ stack' = Append(Without(stack, w), w) /\ before' = [before EXCEPT !.clean = FALSE]
    /\ UNCHANGED <<stage, replaces, old, holder, clear, redirect, tree, mapped, requests, gone, saved, clients, toScan, raises, ends>>

\* the frames of a manager lie in the order of its stack; windows of other
\* processes are under them here
InFrames == Among(tree, ToSet(tree) \ ToSet(stack))

\* awesome_atexit reparents what is there in the order of the stack, which puts each on top
BackByStack == Among(stack, ToSet(tree))

\* awesome_quit, a signal or a lost selection ends the main loop; awesome_restart
\* executes the program again. X maps what is in the save-set.
Quit(p, again) ==
    /\ stage[p] = "running" /\ ends < MaxEnds /\ ends' = ends + 1
    /\ p \in clear => ~again
    /\ tree' = InFrames \o BackByStack /\ saved' = clients
    /\ before' = [clients |-> Among(clients, ToSet(tree)), stack |-> BackByStack, clean |-> TRUE]
    /\ clients' = <<>> /\ stack' = <<>>
    /\ Closed(p, IF again THEN "new" ELSE "off")
    /\ UNCHANGED <<replaces, mapped, toScan, raises>>

\* a crash while it runs: the save-set brings the clients back, in any order
Crash(p) ==
    /\ stage[p] \in {"scanning", "running"} /\ ends < MaxEnds /\ ends' = ends + 1
    /\ Closed(p, "off")
    /\ \E l \in SetToAllKPermutations(ToSet(BackByStack)) :
          Len(l) = Len(BackByStack) /\ tree' = InFrames \o l
    /\ before' = [before EXCEPT !.clean = FALSE]
    /\ clients' = <<>> /\ stack' = <<>> /\ toScan' = <<>>
    /\ UNCHANGED <<replaces, mapped, saved, raises>>

----------------------------------------------------------------------------
(* Applications. *)

Create(w) ==
    /\ w \notin ToSet(tree) \cup gone /\ tree' = Append(tree, w)
    /\ UNCHANGED <<stage, replaces, old, holder, clear, redirect, mapped, requests, gone, saved, clients, stack, toScan, raises, before, ends>>

Map(w) ==
    /\ w \in ToSet(tree) \ (mapped \cup requests)
    /\ IF redirect = "none" THEN mapped' = mapped \cup {w} /\ UNCHANGED requests
       ELSE requests' = requests \cup {w} /\ UNCHANGED mapped
    /\ before' = [before EXCEPT !.clean = FALSE]
    /\ UNCHANGED <<stage, replaces, old, holder, clear, redirect, tree, gone, saved, clients, stack, toScan, raises, ends>>

\* the manager hears of the end of a client in its main loop
Destroy(w) ==
    /\ w \in ToSet(tree)
    /\ tree' = Without(tree, w) /\ mapped' = mapped \ {w} /\ requests' = requests \ {w}
    /\ gone' = IF w \in ToSet(clients) THEN gone \cup {w} ELSE gone
    /\ UNCHANGED <<stage, replaces, old, holder, clear, redirect, saved, clients, stack, toScan, raises, ends>>
    /\ before' = [before EXCEPT !.clients = Without(@, w), !.stack = Without(@, w)]

HandleDestroy(p, w) ==
    /\ stage[p] = "running" /\ w \in gone /\ gone' = gone \ {w}
    /\ clients' = Without(clients, w) /\ stack' = Without(stack, w)
    /\ UNCHANGED <<stage, replaces, old, holder, clear, redirect, tree, mapped, requests, saved, toScan, raises, before, ends>>

TakeOverInit ==
    /\ stage = [p \in Manager |-> "off"] /\ replaces = [p \in Manager |-> FALSE]
    /\ old = [p \in Manager |-> "none"] /\ holder = "none" /\ redirect = "none" /\ clear = {}
    /\ tree = <<>> /\ mapped = {} /\ requests = {} /\ gone = {} /\ saved = <<>> /\ clients = <<>> /\ stack = <<>>
    /\ toScan = <<>> /\ raises \in BOOLEAN /\ ends = 0
    /\ before = [clients |-> <<>>, stack |-> <<>>, clean |-> FALSE]

TakeOverNext ==
    \/ \E p \in Manager : \/ FindOwner(p) \/ Claim(p) \/ Redirect(p) \/ ScanOne(p) \/ Scanned(p) \/ Swap(p) \/ Crash(p)
                          \/ \E b \in BOOLEAN : Start(p, b) \/ ParseRc(p, b) \/ Quit(p, b)
                          \/ \E w \in Window : TakeMapRequest(p, w) \/ HandleDestroy(p, w) \/ Raise(p, w)
    \/ \E w \in Window : Create(w) \/ Map(w) \/ Destroy(w)

TakeOverSpec == TakeOverInit /\ [][TakeOverNext]_takeVars

----------------------------------------------------------------------------
(* Properties. *)

Runs(p) == stage[p] = "running"

\* Between the claim of the selection and the redirection a manager relies on a
\* window that it found earlier, and two may claim at once: still at most one
\* process loads its configuration, scans or runs, the one X redirects to.
OneManager == \A p \in Manager : redirect = p <=> stage[p] \in {"starting", "scanning", "running"}

\* No window is forgotten or taken twice when managers change: once a manager
\* has scanned, every mapped window is one client of it, whether it was mapped
\* before, between two managers, while it started or later (the grab in main,
\* scan, awesome_atexit and the save-set).
EveryWindowManaged ==
    /\ TakeOverTypeOK /\ OneManager
    /\ \A p \in Manager : Runs(p) => ToSet(clients) \ gone = mapped /\ ToSet(stack) = ToSet(clients)
    /\ IsInjective(clients) /\ IsInjective(stack)
    /\ clients # <<>> => redirect # "none" /\ stage[redirect] \in {"scanning", "running"}

\* A manager that follows one that ended well has its clients in the order they
\* had, and, if Lua raises new clients, in the same stacking; a window that
\* died in between does not disturb the others (restore_client_order, the order
\* of reparenting in awesome_atexit).
OrderSurvives ==
    \A p \in Manager : Runs(p) /\ before.clean =>
        Among(clients, ToSet(tree)) = before.clients /\ (raises => BackByStack = before.stack)

=============================================================================
