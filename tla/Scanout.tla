---- MODULE Scanout ----
(***************************************************************************)
(* What the renderer picks when it opens a display                         *)
(* (crates/lprender/src/backend/drm.rs): the card, a connector, a mode, a  *)
(* CRTC, a primary plane and an EGL configuration, and how long it tries   *)
(* to become DRM master.  The one card there is is external: a connector   *)
(* is a record of its name, whether a panel is on it, its modes and its    *)
(* encoders; an encoder and a plane know the CRTCs they reach.             *)
(***************************************************************************)
EXTENDS Integers, Sequences, SequencesExt, FiniteSetsExt

Auto == "auto"
Nowhere == << >>     \* an error, where the code returns Err
Found(x) == <<x>>

FirstOf(seq, Test(_)) ==
    LET hits == {i \in DOMAIN seq : Test(seq[i])}
    IN IF hits = {} THEN Nowhere ELSE Found(seq[Min(hits)])

\* Card::connector and first_connected: only a connector that is not named has
\* to have modes.
Connector(card, want) ==
    IF want = Auto THEN FirstOf(card.connectors, LAMBDA c : c.connected /\ c.modes # << >>)
    ELSE LET named == FirstOf(card.connectors, LAMBDA c : c.name = want)
         IN IF named # Nowhere /\ named[1].connected THEN named ELSE Nowhere

\* Card::open: a card that is not named has to have a panel on it.
Openable(card, want) == want.card = Auto => Connector(card, Auto) # Nowhere

Size(mode) == <<mode.w, mode.h>>
Area(mode) == mode.w * mode.h
Surpasses(m, n) == Area(m) > Area(n) \/ (Area(m) = Area(n) /\ m.hz >= n.hz)

\* Mutant: the first mode of the size will do.
OfSize(want, m) == Size(m) = <<want.w, want.h>>

\* An explicit mode; hz is 0 when it was not given.
Asked(want, m) == Size(m) = <<want.w, want.h>> /\ want.hz \in {0, m.hz}

\* choose_mode; a text that parse_mode_spec cannot read is "malformed", and of
\* equals max_by_key takes the last.
Mode(connector, want) ==
    LET modes == connector.modes
        preferred == FirstOf(modes, LAMBDA m : m.preferred)
    IN CASE modes = << >> -> Nowhere
         [] modes # << >> /\ want.mode = "auto" ->
              IF preferred # Nowhere THEN preferred ELSE Found(Head(modes))
         [] modes # << >> /\ want.mode = "highest" ->
              Found(FoldLeft(LAMBDA best, m : IF Surpasses(m, best) THEN m ELSE best,
                             Head(modes), Tail(modes)))
         [] modes # << >> /\ want.mode = "explicit" -> FirstOf(modes, LAMBDA m : Asked(want, m))
         [] OTHER -> Nowhere

\* choose_crtc: the one an encoder drives already, or the first it can.
CrtcOf(card, encoder) ==
    IF encoder.crtc # 0 THEN Found(encoder.crtc)
    ELSE FirstOf(card.crtcs, LAMBDA c : c \in encoder.possible)

Crtc(card, connector) ==
    LET choices == [i \in DOMAIN connector.encoders |-> CrtcOf(card, connector.encoders[i])]
        found == FirstOf(choices, LAMBDA c : c # Nowhere)
    IN IF found = Nowhere THEN Nowhere ELSE found[1]

\* choose_primary_plane
PrimaryPlane(card, crtc) ==
    FirstOf(card.planes, LAMBDA p : crtc \in p.possible /\ p.primary)

\* init_egl: the format of the buffers, or the one with alpha.
EglConfig(card) ==
    LET plain == FirstOf(card.formats, LAMBDA f : f = "XRGB8888")
    IN IF plain # Nowhere THEN plain ELSE FirstOf(card.formats, LAMBDA f : f = "ARGB8888")

\* Props::resolve: the properties that every commit sets.
NeededProperties ==
    {"CRTC_ID", "MODE_ID", "ACTIVE", "FB_ID", "SRC_X", "SRC_Y", "SRC_W", "SRC_H",
     "CRTC_X", "CRTC_Y", "CRTC_W", "CRTC_H"}

(* Becoming master *)

MasterAttempts == 10
\* master_backoff_ms
Backoff(attempt) == Min({50 * 2^Min({attempt, 4}), 1000})
WaitedBefore[attempt \in 0 .. MasterAttempts] ==
    IF attempt = 0 THEN 0 ELSE WaitedBefore[attempt - 1] + Backoff(attempt - 1)

\* acquire_master, when whoever is master lets go after some milliseconds.
BecomesMaster(held) == \E n \in 0 .. MasterAttempts - 1 : WaitedBefore[n] >= held

(* Display::open and run_drm *)

Assembled(card, connector, want) ==
    LET mode == Mode(connector, want)
        crtc == Crtc(card, connector)
        plane == PrimaryPlane(card, crtc[1])
        config == EglConfig(card)
    IN IF \/ mode = Nowhere \/ crtc = Nowhere \/ plane = Nowhere \/ config = Nowhere
          \/ card.missing \cap NeededProperties # {}
       THEN Nowhere
       ELSE Found([connector |-> connector, mode |-> mode[1], crtc |-> crtc[1],
                   plane |-> plane[1], format |-> config[1]])

\* It waits while there is no connector; any other failure ends the process, that
\* to find the card included.
Opened(card, want) ==
    LET connector == Connector(card, want.connector)
        display == Assembled(card, connector[1], want)
        ready == Openable(card, want) /\ BecomesMaster(card.held)
    IN CASE ~ready -> [is |-> "ended"]
         [] ready /\ connector = Nowhere -> [is |-> "waiting"]
         [] OTHER -> IF display = Nowhere THEN [is |-> "ended"]
                     ELSE [is |-> "lit", display |-> display[1]]

----
(* What is promised *)

\* The card can show something on the connector: an encoder of it reaches only
\* CRTCs that have a primary plane, and there is a format to draw in.
Usable(card, c) ==
    /\ \E i \in DOMAIN c.encoders : c.encoders[i].crtc # 0 \/ c.encoders[i].possible # {}
    /\ \A i \in DOMAIN c.encoders :
         \A crtc \in c.encoders[i].possible \cup ({c.encoders[i].crtc} \ {0}) :
           \E p \in ToSet(card.planes) : p.primary /\ crtc \in p.possible
    /\ ToSet(card.formats) \cap {"XRGB8888", "ARGB8888"} # {}

HasPanel(c) == c.connected /\ c.modes # << >>

\* What is promised of what came of opening the display.
FitsTogether(o, card, want) ==
    LET d == o.display
        Meant(c) == c.connected /\ want.connector \in {Auto, c.name}
    IN /\ o.is = "lit" =>
            /\ Meant(d.connector) /\ d.mode \in ToSet(d.connector.modes)
            /\ CASE want.mode = "explicit" ->
                      Size(d.mode) = <<want.w, want.h>> /\ want.hz \in {0, d.mode.hz}
                 [] want.mode = "highest" ->
                      \A m \in ToSet(d.connector.modes) : Surpasses(d.mode, m)
                 [] OTHER ->
                      d.mode.preferred \/ \A m \in ToSet(d.connector.modes) : ~m.preferred
            /\ \E e \in ToSet(d.connector.encoders) : d.crtc = e.crtc \/ d.crtc \in e.possible
            /\ d.plane.primary /\ d.crtc \in d.plane.possible
       /\ o.is = "ended" =>
            \/ card.held > 4500 \/ card.missing # {}
            \/ want.card = Auto /\ \A c \in ToSet(card.connectors) : ~HasPanel(c)
            \/ \E c \in ToSet(card.connectors) :
                 /\ Meant(c)
                 /\ \/ ~Usable(card, c)
                    \/ want.mode = "malformed"
                    \/ c.modes = << >> /\ want.connector = c.name
                    \/ want.mode = "explicit" /\ \A m \in ToSet(c.modes) : ~Asked(want, m)
       /\ o.is = "waiting" =>
            /\ \A c \in ToSet(card.connectors) : Meant(c) => c.modes = << >>
            /\ want.card = Auto => \E c \in ToSet(card.connectors) : HasPanel(c)

\* What is lit fits together, shows what was asked for, and is found whenever the
\* panel offers it; another master is waited for, for four and a half seconds, and
\* so is a panel that is not there, without an end, but only if the card is named or
\* was found by another panel on it.  (drm.rs, Card::open, choose_mode, choose_crtc,
\* choose_primary_plane, master_backoff_ms; main.rs, run_drm.)
ThePipelineFits(card, want) == FitsTogether(Opened(card, want), card, want)
====
