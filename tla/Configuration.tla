---- MODULE Configuration ----
(***************************************************************************)
(* The configuration files (crates/lpframe-config) and what the daemon     *)
(* makes of them when it starts (artd/src/main.rs, web/mod.rs).            *)
(*                                                                         *)
(* A file is a function from paths to leaves; a leaf is <<kind, v>>.  A    *)
(* duration is written as [tenths, unit] and read as milliseconds, a size  *)
(* as [n, unit] and read as bytes; other values are what they are.         *)
(***************************************************************************)
EXTENDS Naturals, Sequences, SequencesExt

CONSTANTS
    Kilo,       \* 1 << 10
    MaxBytes    \* u64::MAX

Leaf(kind, v) == <<kind, v>>
Only(path, leaf) == [p \in {path} |-> leaf]

\* One file over another that says less or the same.
Over(upper, lower) ==
    [p \in DOMAIN upper \cup DOMAIN lower |-> IF p \in DOMAIN upper THEN upper[p] ELSE lower[p]]

(* Durations and sizes *)

Millis == [ms |-> 1, s |-> 1000, m |-> 60000, h |-> 3600000]
Bytes == [B |-> 1, KiB |-> Kilo, MiB |-> Kilo * Kilo, GiB |-> Kilo * Kilo * Kilo]
Unread == << >>     \* Err

\* duration::parse rounds to the nearest millisecond.
ParsedDuration(text) ==
    IF text.unit \in DOMAIN Millis THEN <<(text.tenths * Millis[text.unit] + 5) \div 10>>
    ELSE Unread

\* MaybeVisitor: what it reads is an Option, << >> or <<d>>.
ParsedMaybe(text) ==
    CASE text.unit \in {"off", "never"} -> << << >> >>
      [] text.unit \in DOMAIN Millis -> <<ParsedDuration(text)>>
      [] OTHER -> Unread

\* render: the largest unit that divides it.
RenderedDuration(ms) ==
    LET unit == CASE ms = 0 -> "s"
                  [] ms # 0 /\ ms % Millis.h = 0 -> "h"
                  [] ms % Millis.h # 0 /\ ms % Millis.m = 0 -> "m"
                  [] ms % Millis.m # 0 /\ ms % Millis.s = 0 -> "s"
                  [] OTHER -> "ms"
    IN [tenths |-> 10 * (ms \div Millis[unit]), unit |-> unit]

\* parse_bytes: a product that does not fit is refused.
ParsedBytes(text) ==
    IF text.unit \in DOMAIN Bytes /\ text.n <= MaxBytes \div Bytes[text.unit]
    THEN <<text.n * Bytes[text.unit]>> ELSE Unread

RenderedBytes(n) ==
    LET whole == {u \in {"GiB", "MiB", "KiB"} : n >= Bytes[u] /\ n % Bytes[u] = 0}
        unit == IF whole = {} THEN "B"
                ELSE CHOOSE u \in whole : \A w \in whole : Bytes[w] <= Bytes[u]
    IN [n |-> n \div Bytes[unit], unit |-> unit]

(* The schema: each setting with its default *)

Stall == <<"timeouts", "stall">>
SessionAfter == <<"timeouts", "session">>
BlankAfter == <<"power", "display", "blank_after">>
AmbientAfter == <<"power", "display", "ambient_after">>
Rotation == <<"display", "rotation">>
Margin == <<"display", "margin_percent">>
Dim == <<"render", "background_dim">>
ArtRetain == <<"ipc", "art_retain">>
CacheSize == <<"cache", "max_bytes">>
Enriches == <<"enrichment", "enabled">>
Sources == <<"enrichment", "sources">>
Contact == <<"enrichment", "contact">>
WebEnabled == <<"web", "enabled">>
Bind == <<"web", "bind">>
WebAuth == <<"web", "auth">>
WebHash == <<"web", "password_hash">>
Insecure == <<"web", "insecure_no_auth">>

Secs(n) == Leaf("duration", [tenths |-> 10 * n, unit |-> "s"])

TimeoutDefaults == Over(Only(Stall, Secs(15)), Only(SessionAfter, Secs(60)))
PowerDefaults ==
    Over(Only(BlankAfter, Secs(300)), Only(AmbientAfter, Leaf("maybe", [tenths |-> 0, unit |-> "off"])))
DisplayDefaults == Over(Only(Rotation, Leaf("number", 0)), Only(Margin, Leaf("number", 0)))
RenderDefaults == Only(Dim, Leaf("number", 35))      \* in hundredths
EnrichmentDefaults ==
    Over(Only(Enriches, Leaf("flag", TRUE)),
         Over(Only(Sources, Leaf("names", {"itunes"})), Only(Contact, Leaf("text", ""))))
IpcDefaults == Only(ArtRetain, Leaf("number", 4))
CacheDefaults == Only(CacheSize, Leaf("size", [n |-> 2, unit |-> "GiB"]))
WebDefaults ==
    Over(Over(Only(WebEnabled, Leaf("flag", TRUE)), Only(Bind, Leaf("text", "lan"))),
         Over(Only(WebAuth, Leaf("flag", TRUE)),
              Over(Only(WebHash, Leaf("text", "")), Only(Insecure, Leaf("flag", FALSE)))))

Defaults ==
    Over(Over(Over(TimeoutDefaults, PowerDefaults), Over(DisplayDefaults, RenderDefaults)),
         Over(Over(EnrichmentDefaults, IpcDefaults), Over(CacheDefaults, WebDefaults)))

(* Loading *)

Under(p, q) == IsPrefix(p, q) \/ IsPrefix(q, p)

\* Mutant: a table of the overlay replaces the table of the base.
MergedByTable(base, local) ==
    LET kept == {p \in DOMAIN base : \A q \in DOMAIN local : p[1] # q[1]}
    IN Over(local, [p \in kept |-> base[p]])

\* merge: a leaf of the overlay replaces what the base has there, and a table
\* replaces a leaf.
Merged(base, local) ==
    LET kept == {p \in DOMAIN base : \A q \in DOMAIN local : ~Under(p, q)}
    IN Over(local, [p \in kept |-> base[p]])

\* What serde reads at a path; a maybe is a duration or off.
ReadAs(kind, leaf) ==
    CASE kind = "duration" /\ leaf[1] = "duration" -> ParsedDuration(leaf[2])
      [] kind = "maybe" /\ leaf[1] \in {"duration", "maybe"} -> ParsedMaybe(leaf[2])
      [] kind = "size" /\ leaf[1] = "size" -> ParsedBytes(leaf[2])
      [] kind \notin {"duration", "maybe", "size"} /\ leaf[1] = kind -> <<leaf[2]>>
      [] OTHER -> Unread

Refused == [ok |-> FALSE]

\* Config::validate
Valid(c) ==
    /\ c[Rotation] \in {0, 90, 180, 270} /\ c[Margin] \in 0 .. 45 /\ c[Dim] \in 0 .. 100
    /\ c[Stall] < c[SessionAfter]
    /\ c[AmbientAfter] # << >> => c[AmbientAfter][1] < c[BlankAfter]
    /\ c[ArtRetain] >= 2
    /\ c[Enriches] =>
         /\ c[Sources] \subseteq {"itunes", "musicbrainz"}
         /\ "musicbrainz" \in c[Sources] => c[Contact] # ""
    /\ c[WebEnabled] =>
         /\ c[Bind] \in {"lan", "loopback"}
         /\ c[Bind] = "loopback" \/ c[WebAuth] \/ c[Insecure]

\* Config::load
Load(base, local) ==
    LET merged == Merged(base, local)
        kind(p) == Defaults[p][1]
        readable == \A p \in DOMAIN merged :
                      p \in DOMAIN Defaults /\ ReadAs(kind(p), merged[p]) # Unread
        config == [p \in DOMAIN Defaults |-> ReadAs(kind(p), Over(merged, Defaults)[p])[1]]
    IN IF ~readable \/ ~Valid(config) THEN Refused
       ELSE [ok |-> TRUE, config |-> config, overridden |-> DOMAIN local]

\* flatten: every setting as it is written.
Flattened(config) ==
    [p \in DOMAIN Defaults |->
       LET kind == Defaults[p][1]
           v == config[p]
       IN Leaf(kind,
            CASE kind = "duration" -> RenderedDuration(v)
              [] kind = "maybe" -> IF v = << >> THEN [tenths |-> 0, unit |-> "off"]
                                   ELSE RenderedDuration(v[1])
              [] kind = "size" -> RenderedBytes(v)
              [] OTHER -> v)]

(* Starting *)

Hashed == [first |-> "hash of first", second |-> "hash of second"]

\* prepare_auth: one outcome for each of the two writes, which only log when
\* they fail.
PreparedAuth(c, local, phrase, outcome) ==
    IF ~c[WebAuth] \/ c[WebHash] # ""
    THEN [config |-> c, local |-> local, logged |-> {}]
    ELSE [config |-> [c EXCEPT ![WebHash] = Hashed[phrase]],
          local |-> IF outcome.stored THEN Over(Only(WebHash, Leaf("text", Hashed[phrase])), local)
                    ELSE local,
          logged |-> {phrase}]

\* check_bind
CheckedBind(c) ==
    CASE c[Bind] \notin {"lan", "loopback"} -> "refused"
      [] c[Bind] = "loopback" -> "quiet"
      [] c[Bind] = "lan" /\ c[WebAuth] -> IF c[WebHash] = "" THEN "refused" ELSE "quiet"
      [] c[Bind] = "lan" /\ ~c[WebAuth] -> IF c[Insecure] THEN "warned" ELSE "refused"

\* main, as far as the web interface.
Started(c, local, phrase, outcome) ==
    IF ~c[WebEnabled] THEN [bound |-> "off", config |-> c, local |-> local, logged |-> {}]
    ELSE LET p == PreparedAuth(c, local, phrase, outcome)
         IN [bound |-> CheckedBind(p.config), config |-> p.config, local |-> p.local,
             logged |-> p.logged]

----
(* What is promised *)

\* Whatever the two files and the disk do: a configuration that is accepted reads
\* every overridden setting from the override and every other from the base; it
\* means the same when it is written out and read again; the daemon never refuses
\* to start with it, never serves a network without a password unless that was
\* asked for, and after another start the password that counts is one that was
\* printed.  (lib.rs, merge, validate and duration::render; web/mod.rs, check_bind
\* and prepare_auth; the comment on the order of the two in main.rs.)
AcceptedMeansStarts(base, local, outcome) ==
    LET l == Load(base, local)
        c == l.config
        again == Load(base, Flattened(c))
        one == Started(c, local, "first", outcome)
        reloaded == Load(base, one.local)
        two == Started(reloaded.config, one.local, "second", outcome)
        Reads(p, file) == c[p] = ReadAs(Defaults[p][1], file[p])[1]
    IN l.ok =>
         /\ \A p \in DOMAIN Defaults :
              Reads(p, IF p \in l.overridden THEN local ELSE Over(base, Defaults))
         /\ again.ok /\ again.config = c
         /\ one.bound # "refused"
         /\ one.bound = "quiet" /\ c[Bind] = "lan" =>
              one.config[WebAuth] /\ one.config[WebHash] # ""
         /\ reloaded.ok /\ two.bound = one.bound
         /\ two.bound = "quiet" /\ c[WebAuth] /\ c[WebHash] = "" =>
              \E phrase \in one.logged \cup two.logged : two.config[WebHash] = Hashed[phrase]
====
