------------------------------ MODULE Settings ------------------------------
(* The configuration: the file and its check at boot, the thread that        *)
(* watches the file, the tasks that write a loaded file into the shared      *)
(* configuration, PUT /xira/config, and the task that carries the shared     *)
(* configuration into the components once a second.  A save takes two        *)
(* writes (truncate, fill) to the file that is watched; a loaded file is     *)
(* written by a task of its own.                                             *)
EXTENDS Integers, Sequences

CONSTANTS
  Limits,        \* rate_limit.max_requests, the section PUT can change
  Patterns,      \* waf.custom_block_patterns
  Keys,          \* what is read at boot alone; "weak" is refused
  MaxWrites,     \* bound on the tasks that hold a loaded file
  Broken         \* contents that do not parse

VARIABLES
  file,          \* contents of the file
  pending,       \* an event waits in the watcher's channel
  watching,      \* the watcher: "off", "waiting", "debounced" (drained, not yet loaded)
  writes,        \* loaded files whose tasks still wait for the write lock
  sharedConfig,  \* SharedConfig
  installed,     \* what limiter and WAF have, and the hash of the patterns
  up,            \* the process passed its checks at boot
  base,          \* the last file written into the shared configuration (history)
  dirty,         \* the sections a reload wrote since the last sync (history)
  overlap,       \* two loaded files waited at once (history)
  missed         \* a save before the watch began (history)

settingsVars ==
  <<file, pending, watching, writes, sharedConfig, installed, up, base, dirty, overlap, missed>>

Config == [limit: Limits, waf: Patterns, key: Keys]
Sections == {"limit", "waf"}
Default == [limit |-> CHOOSE l \in Limits : l # 0, waf |-> CHOOSE p \in Patterns : TRUE,
            key |-> "weak"]

\* XiraConfig::validate, as far as these sections go.
Validate(c) == c.limit # 0 /\ c.key # "weak"

Booted(c) ==
  /\ up' = Validate(c) /\ sharedConfig' = c /\ base' = c
  /\ installed' = [limit |-> c.limit, waf |-> c.waf, hash |-> 0]
  /\ watching' = "off" /\ pending' = FALSE /\ writes' = <<>>
  /\ dirty' = {} /\ overlap' = FALSE /\ missed' = FALSE

SettingsInit ==
  \E c \in Config :
    /\ file = c /\ sharedConfig = c /\ base = c /\ up = Validate(c)
    /\ installed = [limit |-> c.limit, waf |-> c.waf, hash |-> 0]
    /\ watching = "off" /\ pending = FALSE /\ writes = <<>>
    /\ dirty = {} /\ overlap = FALSE /\ missed = FALSE

\* A crash or a stop, and main again: load, or the defaults, then validate.
Boot ==
  /\ Booted(IF file = Broken THEN Default ELSE file)
  /\ UNCHANGED file

SaveFile(c) ==
  /\ IF file = Broken THEN c \in Config ELSE c = Broken
  /\ file' = c
  /\ pending' = (up /\ watching # "off") /\ missed' = (missed \/ (up /\ watching = "off"))
  /\ UNCHANGED <<watching, writes, sharedConfig, installed, up, base, dirty, overlap>>

StartWatch ==
  /\ up /\ watching = "off" /\ watching' = "waiting"
  /\ UNCHANGED <<file, pending, writes, sharedConfig, installed, up, base, dirty, overlap, missed>>

\* recv, half a second, and the events of that half second.
Debounce ==
  /\ up /\ watching = "waiting" /\ pending
  /\ watching' = "debounced" /\ pending' = FALSE
  /\ UNCHANGED <<file, writes, sharedConfig, installed, up, base, dirty, overlap, missed>>

LoadFile ==
  /\ up /\ watching = "debounced" /\ Len(writes) < MaxWrites
  /\ watching' = "waiting"
  /\ writes' = IF file = Broken THEN writes ELSE Append(writes, file)
  /\ overlap' = (overlap \/ (file # Broken /\ writes # <<>>))
  /\ UNCHANGED <<file, pending, sharedConfig, installed, up, base, dirty, missed>>

\* The task of a loaded file; the tasks run on several workers, in any order.
WriteLoaded(i) ==
  /\ up /\ i \in DOMAIN writes
  /\ sharedConfig' = writes[i] /\ base' = writes[i] /\ dirty' = Sections
  /\ writes' = SubSeq(writes, 1, i - 1) \o SubSeq(writes, i + 1, Len(writes))
  /\ UNCHANGED <<file, pending, watching, installed, up, overlap, missed>>

\* update_config, under the write lock.
PutLimit(l) ==
  /\ up
  /\ sharedConfig' = [sharedConfig EXCEPT !.limit = l]
  /\ installed' = [installed EXCEPT !.limit = l] /\ dirty' = dirty \ {"limit"}
  /\ UNCHANGED <<file, pending, watching, writes, up, base, overlap, missed>>

Sync_KeepsPatterns ==   \* mutant
  /\ up
  /\ installed' = [installed EXCEPT !.limit = sharedConfig.limit, !.hash = sharedConfig.waf]
  /\ dirty' = {}
  /\ UNCHANGED <<file, pending, watching, writes, sharedConfig, up, base, overlap, missed>>

\* One tick of spawn_config_sync, under the read lock.
Sync ==
  /\ up
  /\ installed' = [limit |-> sharedConfig.limit, hash |-> sharedConfig.waf,
                   waf |-> IF sharedConfig.waf # installed.hash THEN sharedConfig.waf ELSE installed.waf]
  /\ dirty' = {}
  /\ UNCHANGED <<file, pending, watching, writes, sharedConfig, up, base, overlap, missed>>

SettingsNext ==
  \/ Boot \/ \E c \in Config \cup {Broken} : SaveFile(c)
  \/ StartWatch \/ Debounce \/ LoadFile \/ \E i \in 1..MaxWrites : WriteLoaded(i)
  \/ \E l \in Limits : PutLimit(l)
  \/ Sync

SettingsSpec == SettingsInit /\ [][SettingsNext]_settingsVars

-----------------------------------------------------------------------------
(* The two checks of the [jwt] section: validate, which `xira system         *)
(* validate` shows, and JwtAuth::new, which Serve stops on.                  *)
Secrets == {"example", "short", "long", "pem"}
Algorithms == {"HS256", "RS256", "none"}
ValidJwt(on, alg, secret) ==
  on => /\ secret # "example"
        /\ \/ alg = "HS256" /\ secret \in {"long", "pem"}
           \/ alg = "RS256" /\ secret = "pem"
NewJwt(on, alg, secret) ==
  /\ alg # "none"
  /\ on => /\ secret # "example"
           /\ alg = "HS256" => secret # "short"
           /\ alg = "RS256" => secret = "pem"

SettingsTypeOK ==
  /\ file \in Config \cup {Broken} /\ {sharedConfig, base} \subseteq Config \cup {Default}
  /\ watching \in {"off", "waiting", "debounced"} /\ pending \in BOOLEAN
  /\ writes \in UNION {[1..n -> Config] : n \in 0..MaxWrites}
  /\ installed \in [limit: Limits, waf: Patterns, hash: Patterns \cup {0}]
  /\ up \in BOOLEAN /\ dirty \subseteq Sections /\ overlap \in BOOLEAN /\ missed \in BOOLEAN

\* Once nothing is under way the configuration is that of the file as it was
\* saved last, unless two loaded files waited together or the save came before
\* the watch; and a component lags behind it only in a section a reload wrote
\* since the last sync.
SettingsAreCurrent ==
  /\ up /\ ~pending /\ watching = "waiting" /\ writes = <<>> /\ ~overlap /\ ~missed
       => file \in {base, Broken}
  /\ up => \A s \in Sections \ dirty : installed[s] = sharedConfig[s]

\* With JWT on, a configuration that validate accepts is one Serve starts with
\* and the reverse.  With JWT off validate looks at nothing, and Serve still
\* stops on an unknown algorithm (config/mod.rs:674, jwt.rs:91).
JwtChecksAgree ==
  \A alg \in Algorithms, secret \in Secrets :
    /\ ValidJwt(TRUE, alg, secret) <=> NewJwt(TRUE, alg, secret)
    /\ NewJwt(FALSE, alg, secret) => ValidJwt(FALSE, alg, secret)

=============================================================================
