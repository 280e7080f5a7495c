------------------------------- MODULE Window -------------------------------
(***************************************************************************)
(* The desktop shell's window and tray (main.rs, tray.rs, client.ts): the  *)
(* threads that start the engine and open the window, forward_state, the   *)
(* page in the webview, and closing the window.  Snapshots are sent to the *)
(* page only while the window is on screen.                                *)
(***************************************************************************)
EXTENDS Naturals

CONSTANT MaxPublished   \* bound on the snapshots of the engine

VARIABLES
  host,     \* what is fixed: a tray host, sandbox, autostart, settings
  trayed,   \* TrayItems::available
  checked,  \* detect_status_notifier has answered
  engine,   \* "starting", "up", "failed"
  pub,      \* the engine's snapshot
  start,    \* thread sp-engine-start
  first,    \* thread sp-first-window has still to open the window
  opening,  \* show_main_window, under its lock
  window,   \* the window
  page,     \* the page in it
  late,     \* the page shows less than it was told, until the next snapshot
  fwd,      \* forward_state
  login,    \* SoundPush starts at sign-in
  grants,   \* settings the portal's answer writes
  missed,   \* settings that changed before forward_state could see what they were
  lost      \* the window went while nothing else could bring it back

vars == <<host, trayed, checked, engine, pub, start, first, opening, window, page,
          late, fwd, login, grants, missed, lost>>

Themes == {"light", "dark"}

NoSnapshot == [n |-> 0, theme |-> "none", login |-> FALSE]
NoWindow == [exists |-> FALSE, visible |-> FALSE, theme |-> "none"]
NoPage == [phase |-> "none", shows |-> 0, answer |-> 0]
NotOpening == [by |-> "none", at |-> "idle", fresh |-> FALSE, theme |-> "none",
               snap |-> 0]

Init ==
  /\ host \in {[tray |-> t, portal |-> FALSE, auto |-> ~t, keep |-> t] : t \in BOOLEAN}
            \cup {[tray |-> t, portal |-> t, auto |-> FALSE, keep |-> FALSE] : t \in BOOLEAN}
  /\ trayed = TRUE /\ checked = host.tray /\ engine = "starting"
  /\ pub = [n |-> 1, theme |-> "dark", login |-> FALSE]
  /\ start = [at |-> "engine", login |-> FALSE, snap |-> 0]
  /\ first = ~host.auto /\ opening = NotOpening
  /\ window = NoWindow /\ page = NoPage /\ late = FALSE
  /\ fwd = [at |-> "off", seen |-> 0, snap |-> NoSnapshot, theme |-> "none",
            login |-> "none"]
  /\ login = FALSE /\ grants = {} /\ missed = {} /\ lost = FALSE

\* detect_status_notifier
DetectTray ==
  /\ ~checked /\ checked' = TRUE /\ trayed' = host.tray
  /\ UNCHANGED <<host, engine, pub, start, first, opening, window, page, late, fwd,
                 login, grants, missed, lost>>

----------------------------------------------------------------------------
(* The page: it listens, asks for the snapshot, and applies what it gets.  *)

Listening == page.phase \in {"asked", "ready"}

\* A snapshot reaches the page, if it listens.
Shown(n) ==
  /\ page' = IF Listening THEN [page EXCEPT !.shows = n] ELSE page
  /\ late' = IF Listening THEN n < page.shows \/ (late /\ n # pub.n) ELSE late

\* The page registers its listener, then get_state; nothing while the engine starts.
GetState ==
  /\ page.phase = "loading"
  /\ page' = [page EXCEPT !.phase = "asked",
                          !.answer = IF engine = "up" THEN pub.n ELSE 0]
  /\ late' = (late \/ ~window.visible)
  /\ UNCHANGED <<host, trayed, checked, engine, pub, start, first, opening, window,
                 fwd, login, grants, missed, lost>>

PageInitial ==
  /\ page.phase = "asked"
  /\ page' = [page EXCEPT !.phase = "ready", !.answer = 0,
                          !.shows = IF page.answer = 0 THEN @ ELSE page.answer]
  /\ late' = (late \/ page.answer \in 1..page.shows - 1)
  /\ UNCHANGED <<host, trayed, checked, engine, pub, start, first, opening, window,
                 fwd, login, grants, missed, lost>>

----------------------------------------------------------------------------
(* show_main_window: one at a time.                                        *)

Find(by) ==
  /\ opening = NotOpening
  /\ opening' = [NotOpening EXCEPT
       !.by = by, !.at = "show", !.fresh = ~window.exists,
       !.theme = IF engine = "up" /\ ~window.exists THEN pub.theme ELSE "none"]

FirstOpen ==
  /\ first /\ first' = FALSE /\ Find("first")
  /\ UNCHANGED <<host, trayed, checked, engine, pub, start, window, page, late, fwd,
                 login, grants, missed, lost>>

\* A click on the tray, its menu entry, or a second launch.
UserOpen ==
  /\ ~window.visible /\ Find("user")
  /\ UNCHANGED <<host, trayed, checked, engine, pub, start, first, window, page, late,
                 fwd, login, grants, missed, lost>>

\* The window is built, hidden.
Build ==
  /\ opening.at = "show" /\ opening.fresh /\ ~window.exists
  /\ window' = [exists |-> TRUE, visible |-> FALSE, theme |-> opening.theme]
  /\ page' = [NoPage EXCEPT !.phase = "loading"] /\ late' = FALSE
  /\ UNCHANGED <<host, trayed, checked, engine, pub, start, first, opening, fwd, login,
                 grants, missed, lost>>

\* Bug: a window that was kept in memory is only shown.
ShowsOnly == NotOpening

\* A window that was kept in memory is told the snapshot after it is shown.
Shows == IF opening.fresh \/ engine # "up" THEN NotOpening
         ELSE [opening EXCEPT !.at = "emit"]

Show ==
  /\ opening.at = "show" /\ (opening.fresh => window.exists)
  /\ window' = [window EXCEPT !.visible = window.exists]
  /\ opening' = Shows
  /\ UNCHANGED <<host, trayed, checked, engine, pub, start, first, page, late, fwd,
                 login, grants, missed, lost>>

ShowRead ==
  /\ opening.at = "emit"
  /\ opening' = [opening EXCEPT !.at = "send", !.snap = pub.n]
  /\ UNCHANGED <<host, trayed, checked, engine, pub, start, first, window, page, late,
                 fwd, login, grants, missed, lost>>

ShowSend ==
  /\ opening.at = "send" /\ Shown(opening.snap) /\ opening' = NotOpening
  /\ UNCHANGED <<host, trayed, checked, engine, pub, start, first, window, fwd, login,
                 grants, missed, lost>>

----------------------------------------------------------------------------
(* sp-engine-start                                                         *)

StartEngine ==
  /\ start.at = "engine" /\ engine' = "up"
  /\ start' = [start EXCEPT !.at = "sync", !.login = pub.login]
  /\ UNCHANGED <<host, trayed, checked, pub, first, opening, window, page, late, fwd,
                 login, grants, missed, lost>>

StartFails ==
  /\ start.at = "engine" /\ engine' = "failed" /\ first' = FALSE
  /\ start' = [start EXCEPT !.at = "open"]
  /\ UNCHANGED <<host, trayed, checked, pub, opening, window, page, late, fwd, login,
                 grants, missed, lost>>

\* Bug: what the portal decided is not written to the settings.
DeniedIgnored(wanted, granted) == {}

\* The portal's answer goes to the setting when it is another one.
Denied(wanted, granted) == IF granted = wanted THEN {} ELSE {granted}

\* sync_autostart.  The portal may refuse to start SoundPush at sign-in.
SyncAutostart(wanted) ==
  \E granted \in IF host.portal THEN {wanted, FALSE} ELSE {wanted} :
    /\ login' = granted
    /\ grants' = grants \cup Denied(wanted, granted)

\* After sign-in (with start_minimized) the window opens only without a tray.
StartSync ==
  /\ start.at = "sync" /\ SyncAutostart(start.login)
  /\ start' = [start EXCEPT !.at = IF host.auto /\ ~trayed THEN "open" ELSE "emit"]
  /\ lost' = (lost \/ (host.auto /\ trayed # host.tray))
  /\ UNCHANGED <<host, trayed, checked, engine, pub, first, opening, window, page,
                 late, fwd, missed>>

StartOpen ==
  /\ start.at = "open" /\ Find("start")
  /\ start' = [start EXCEPT !.at = IF engine = "up" THEN "emit" ELSE "done"]
  /\ UNCHANGED <<host, trayed, checked, engine, pub, first, window, page, late, fwd,
                 login, grants, missed, lost>>

StartRead ==
  /\ start.at = "emit" /\ opening.by # "start"
  /\ start' = [start EXCEPT !.at = "send", !.snap = pub.n]
  /\ UNCHANGED <<host, trayed, checked, engine, pub, first, opening, window, page, late,
                 fwd, login, grants, missed, lost>>

\* The last of the thread, and forward_state's subscription: what was published
\* since the thread read the snapshot is not forwarded.
StartSend ==
  /\ start.at = "send"
  /\ page' = IF Listening THEN [page EXCEPT !.shows = start.snap] ELSE page
  /\ late' = (late \/ start.snap < page.shows \/ start.snap # pub.n)
  /\ start' = [at |-> "done", login |-> FALSE, snap |-> 0]
  /\ fwd' = [fwd EXCEPT !.at = "idle", !.seen = pub.n]
  /\ UNCHANGED <<host, trayed, checked, engine, pub, first, opening, window, login,
                 grants, missed, lost>>

----------------------------------------------------------------------------
(* forward_state                                                           *)

Publish(theme, wanted) ==
  /\ engine = "up" /\ pub.n < MaxPublished
  /\ pub' = [n |-> pub.n + 1, theme |-> theme, login |-> wanted]
  /\ LET unseen == fwd.at # "off" /\ fwd.seen # pub.n
     IN missed' = missed
          \cup {s \in {"login"} : wanted # pub.login /\ (fwd.login = "none" \/ unseen)}
          \cup {s \in {"theme"} : theme # pub.theme /\ unseen}

\* Statistics, or a setting changed in the window.
Change ==
  /\ \E theme \in Themes, wanted \in BOOLEAN :
       /\ Publish(theme, wanted)
       /\ ~window.visible => theme = pub.theme /\ wanted = pub.login
       /\ theme = pub.theme \/ (wanted = pub.login /\ ~host.portal)
       /\ wanted # pub.login => grants = {}
  /\ UNCHANGED <<host, trayed, checked, engine, start, first, opening, window, page,
                 late, fwd, login, grants, lost>>

\* update_settings with the portal's answer.
Granted ==
  \E g \in grants :
    /\ Publish(pub.theme, g) /\ grants' = grants \ {g}
    /\ UNCHANGED <<host, trayed, checked, engine, start, first, opening, window, page,
                   late, fwd, login, lost>>

Forward ==
  /\ fwd.at = "idle" /\ fwd.seen # pub.n
  /\ fwd' = [fwd EXCEPT !.at = "window", !.seen = pub.n, !.snap = pub]
  /\ UNCHANGED <<host, trayed, checked, engine, pub, start, first, opening, window, page,
                 late, login, grants, missed, lost>>

\* Bug: a theme that was set before the window went counts as set.
ThemeKept == IF window.visible THEN fwd.snap.theme ELSE fwd.theme

\* last_theme: forgotten while no window is on screen.
ThemeSet == IF window.visible THEN fwd.snap.theme ELSE "none"

\* To the webview, only while the window is on screen.  Launch at sign-in follows
\* the setting; the first snapshot only tells it.
ForwardWindow ==
  /\ fwd.at = "window"
  /\ fwd' = [fwd EXCEPT !.at = "idle", !.snap = NoSnapshot, !.theme = ThemeSet,
                        !.login = IF fwd.snap.login THEN "on" ELSE "off"]
  /\ IF window.visible
     THEN /\ Shown(fwd.snap.n)
          /\ window' = IF fwd.theme = fwd.snap.theme THEN window
                       ELSE [window EXCEPT !.theme = fwd.snap.theme]
     ELSE UNCHANGED <<window, page, late>>
  /\ IF fwd.login \notin {"none", fwd'.login}
     THEN SyncAutostart(fwd.snap.login)
     ELSE UNCHANGED <<login, grants>>
  /\ UNCHANGED <<host, trayed, checked, engine, pub, start, first, opening, missed, lost>>

----------------------------------------------------------------------------
(* Closing.                                                                *)

\* Bug: without a tray the window closes as it does with one.
ClosesAlways == IF engine = "up" /\ host.keep
                THEN [window EXCEPT !.visible = FALSE] ELSE NoWindow

\* on_close_requested, close_main_window: a window without a tray stays, minimized;
\* one kept in memory is hidden.  Before the engine is up the close goes ahead.
\* (With close_to_tray off the process ends.)
Closes ==
  CASE engine = "up" /\ ~trayed -> window
    [] engine = "up" /\ trayed /\ host.keep -> [window EXCEPT !.visible = FALSE]
    [] OTHER -> NoWindow

Close ==
  /\ window.visible /\ window' = Closes
  /\ page' = IF window'.exists THEN page ELSE NoPage
  /\ late' = (window'.exists /\ late)
  /\ lost' = (lost \/ engine # "up" \/ trayed # host.tray)
  /\ UNCHANGED <<host, trayed, checked, engine, pub, start, first, opening, fwd, login,
                 grants, missed>>

Next ==
  \/ DetectTray \/ GetState \/ PageInitial
  \/ FirstOpen \/ UserOpen \/ Build \/ Show \/ ShowRead \/ ShowSend
  \/ StartEngine \/ StartFails \/ StartSync \/ StartOpen \/ StartRead \/ StartSend
  \/ Change \/ Granted \/ Forward \/ ForwardWindow \/ Close

Spec == Init /\ [][Next]_vars

----------------------------------------------------------------------------
(* Properties.                                                             *)

\* The types of the variables; a hidden page is no older than the snapshots.
TypeOK ==
  /\ engine \in {"starting", "up", "failed"} /\ pub.n \in 1..MaxPublished
  /\ page.phase \in {"none", "loading", "asked", "ready"}
  /\ page.shows <= pub.n /\ opening.at \in {"idle", "show", "emit", "send"}
  /\ fwd.at \in {"off", "idle", "window"} /\ fwd.theme \in Themes \cup {"none"}
  /\ window.exists = (page.phase # "none") /\ (window.visible => window.exists)

Quiet == opening = NotOpening /\ start.at = "done" /\ fwd.at = "idle" /\ fwd.seen = pub.n

\* A window on screen shows the last snapshot once the threads are through, also
\* when it was hidden or closed in between (show_main_window, forward_state).
Current ==
  Quiet /\ window.visible /\ page.phase = "ready" /\ ~late => page.shows = pub.n

\* A theme forward_state has set is the theme of the window on screen, unless it changed
\* twice before forward_state looked (its last_theme, window_theme).
Themed ==
  Quiet /\ window.visible /\ fwd.theme # "none" /\ "theme" \notin missed =>
    window.theme = pub.theme

\* SoundPush starts at sign-in as its setting says, also when the portal refused, unless the
\* setting changed between sp-engine-start's copy and forward_state, or twice before
\* forward_state looked (sync_autostart, forward_state).
StartsAsSet == Quiet /\ grants = {} /\ "login" \notin missed => login = pub.login

\* While it runs, SoundPush has a tray icon or a window (on_close_requested,
\* close_main_window, main).  A close before the engine is up goes ahead, and
\* the tray is taken for granted until it is known.
Reachable ==
  start.at = "done" /\ opening = NotOpening /\ ~first /\ checked /\ ~lost =>
    host.tray \/ window.exists
----------------------------------------------------------------------------
(* The inductive invariant: what is not as it should be is on its way.     *)

Snapshot == [n: Nat \ {0}, theme: Themes, login: BOOLEAN]
Starting == [at: {"engine", "sync", "open", "emit", "send", "done"}, login: BOOLEAN, snap: Nat]
Opening == [by: {"none", "first", "user", "start"}, at: {"idle", "show", "emit", "send"},
            fresh: BOOLEAN, theme: Themes \cup {"none"}, snap: Nat]
Windows == [exists: BOOLEAN, visible: BOOLEAN, theme: Themes \cup {"none"}]
Page == [phase: {"none", "loading", "asked", "ready"}, shows: Nat, answer: Nat]
Forwarded == [at: {"off", "idle", "window"}, seen: Nat,
              snap: [n: Nat, theme: Themes \cup {"none"}, login: BOOLEAN],
              theme: Themes \cup {"none"}, login: {"none", "on", "off"}]

Typed ==
  /\ host \in [tray: BOOLEAN, portal: BOOLEAN, auto: BOOLEAN, keep: BOOLEAN]
  /\ trayed \in BOOLEAN /\ checked \in BOOLEAN /\ engine \in {"starting", "up", "failed"}
  /\ pub \in Snapshot /\ start \in Starting /\ first \in BOOLEAN /\ opening \in Opening
  /\ window \in Windows /\ page \in Page /\ late \in BOOLEAN /\ fwd \in Forwarded
  /\ login \in BOOLEAN /\ grants \subseteq BOOLEAN /\ missed \subseteq {"login", "theme"}
  /\ lost \in BOOLEAN

\* The phases of the threads fit together, and nobody knows a later snapshot than the last.
Phases ==
  /\ engine = "starting" <=> start.at = "engine"
  /\ start.at \in {"sync", "emit", "send"} => engine = "up"
  /\ fwd.at = "off" <=> (engine # "up" \/ start.at # "done")
  /\ fwd.at = "off" => fwd.seen = 0 /\ fwd.theme = "none" /\ fwd.login = "none"
  /\ fwd.seen <= pub.n /\ (fwd.at = "window" => fwd.snap.n = fwd.seen /\ fwd.snap.theme # "none")
  /\ fwd.at = "window" /\ fwd.seen = pub.n => fwd.snap.theme = pub.theme
  /\ page.shows <= pub.n /\ page.answer <= pub.n
  /\ opening.snap <= pub.n /\ start.snap <= pub.n
  /\ page.phase \in {"none", "loading", "ready"} => page.answer = 0
  /\ window.exists <=> page.phase # "none"
  /\ window.visible => window.exists
  /\ opening.at = "show" /\ opening.fresh => ~window.visible
  /\ engine # "up" /\ window.exists => window.visible \/ (opening.at = "show" /\ opening.fresh)

\* The page knows the last snapshot, or is late, or will be told.
Pending ==
  \/ start.at # "done" \/ fwd.seen # pub.n \/ fwd.at = "window"
  \/ opening.at \in {"emit", "send"}
PageKnows ==
  /\ Listening /\ window.visible /\ ~late => page.shows = pub.n \/ page.answer = pub.n \/ Pending
  /\ Listening /\ opening.at = "show" /\ opening.fresh => late
  /\ /\ Listening /\ window.visible /\ ~late /\ opening.at = "send" /\ opening.snap # pub.n
     /\ start.at = "done" /\ fwd.seen = pub.n /\ fwd.at # "window"
     => page.answer = pub.n \/ page.shows > opening.snap

\* Another theme than the one set last is still to be forwarded.
NewTheme ==
  \/ /\ fwd.at = "window"
     /\ fwd.snap.theme # fwd.theme \/ (fwd.seen # pub.n /\ pub.theme # fwd.snap.theme)
  \/ fwd.at = "idle" /\ fwd.seen # pub.n /\ pub.theme # fwd.theme
ThemeInv ==
  "theme" \notin missed /\ fwd.theme # "none" =>
    /\ fwd.seen = pub.n =>
         pub.theme = IF fwd.at = "window" THEN fwd.snap.theme ELSE fwd.theme
    /\ window.exists => window.theme = fwd.theme \/ NewTheme
    /\ opening.at = "show" /\ opening.fresh => opening.theme = fwd.theme \/ NewTheme

\* So is another wish to start at sign-in.
Wished == fwd.login = "on"
Handled == IF fwd.at = "window" THEN fwd.snap.login ELSE Wished
NewWish ==
  \/ fwd.at = "window" /\ fwd.snap.login # Wished
  \/ fwd.seen # pub.n /\ pub.login # Handled
LoginInv ==
  "login" \notin missed =>
    /\ grants \subseteq {FALSE}
    /\ fwd.login = "none" =>
         /\ ~pub.login /\ ~login /\ grants = {} /\ ~start.login
         /\ fwd.at = "window" => ~fwd.snap.login
    /\ fwd.login # "none" =>
         /\ fwd.seen = pub.n => pub.login = Handled
         /\ grants = {} => login = Wished \/ NewWish
         /\ grants # {} => ~login /\ (pub.login => Handled) /\ (Handled => Wished)

\* Without a tray a window is there or will be opened.
Opened ==
  ~host.tray /\ ~lost /\ ~window.exists =>
    \/ first \/ start.at = "open" \/ (opening.at = "show" /\ opening.fresh)
    \/ start.at \in {"engine", "sync"} /\ host.auto

Inv == Typed /\ Phases /\ PageKnows /\ ThemeInv /\ LoginInv /\ Opened
=============================================================================
