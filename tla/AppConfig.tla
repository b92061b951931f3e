------------------------------ MODULE AppConfig ------------------------------
(***************************************************************************)
(* The configuration of an application: NewConfig and the options of       *)
(* scrapemateapp/config.go.                                                *)
(*                                                                         *)
(* NewConfig applies the options one after the other to one Config and     *)
(* stops at the first error.  Most options validate the whole Config, as   *)
(* it is by then; at the end it is validated once more.                    *)
(*                                                                         *)
(* An option is a function from the fields it sets to their values.  The   *)
(* fields that no rule and no decision below depends on are left out.      *)
(***************************************************************************)
EXTENDS Integers

CONSTANTS
    Writer,     \* Config.Writers
    Option      \* the options that the program may give, each at most once

VARIABLES
    config,     \* where NewConfig is: building, accepted or rejected
    cfg,        \* the Config
    given       \* options applied so far (history)

configVars == <<config, cfg, given>>

DefaultConfig ==
    [Concurrency |-> 1, BrowserPoolSize |-> 0, MaxPagesPerBrowser |-> 1,
     CacheType |-> "", CachePath |-> "", UseJS |-> FALSE,
     ExitOnInactivity |-> FALSE]

Field == DOMAIN DefaultConfig

\* Numbers and flags; WithCache sets its two fields together.
TypesOK(c) ==
    /\ \A f \in DOMAIN c \cap {"Concurrency", "BrowserPoolSize", "MaxPagesPerBrowser"} :
         c[f] \in Int
    /\ \A f \in DOMAIN c \cap {"UseJS", "ExitOnInactivity"} : c[f] \in BOOLEAN

ASSUME OptionsAssumption ==
    \A o \in Option :
        /\ DOMAIN o \subseteq Field
        /\ TypesOK(o)
        /\ "CacheType" \in DOMAIN o <=> "CachePath" \in DOMAIN o

\* The rules of the validate tags.
Valid(c) ==
    /\ c.Concurrency >= 1
    /\ c.BrowserPoolSize >= 0
    /\ c.MaxPagesPerBrowser >= 1
    /\ c.CacheType \in {"", "file", "leveldb"}
    /\ c.CacheType # "" => c.CachePath # ""
    /\ Writer # {}

\* WithExitOnInactivity does not validate, nor do the options without a field
\* here: WithProvider, WithInitJob, WithProxies and the reuse limits.
Validates(o) == DOMAIN o # {"ExitOnInactivity"}

Apply(c, o) == [f \in Field |-> IF f \in DOMAIN o THEN o[f] ELSE c[f]]

\* Mutant of DerivedBrowserPoolSize: the quotient is rounded down.
DerivedBrowserPoolSize_RoundsDown(c) ==
    IF c.BrowserPoolSize > 0 THEN c.BrowserPoolSize
    ELSE c.Concurrency \div c.MaxPagesPerBrowser

\* The number of browsers that New of jshttp.go is asked for.  It is computed
\* from a Config that was accepted; the code's correction of a number of pages
\* below 1 never applies.
DerivedBrowserPoolSize(c) ==
    IF c.BrowserPoolSize > 0 THEN c.BrowserPoolSize
    ELSE (c.Concurrency + c.MaxPagesPerBrowser - 1) \div c.MaxPagesPerBrowser

ConfigTypeOK ==
    /\ config \in {"building", "accepted", "rejected"}
    /\ given \subseteq Option
    /\ DOMAIN cfg = Field /\ TypesOK(cfg)

ConfigInit ==
    /\ config = "building"
    /\ cfg = DefaultConfig
    /\ given = {}

\* Mutant of ApplyOption: only NewConfig validates, at the end.
ApplyOption_NotValidated(o) ==
    /\ config = "building"
    /\ o \in Option \ given
    /\ cfg' = Apply(cfg, o)
    /\ given' = given \cup {o}
    /\ UNCHANGED config

ApplyOption(o) ==
    /\ config = "building"
    /\ o \in Option \ given
    /\ cfg' = Apply(cfg, o)
    /\ given' = given \cup {o}
    /\ config' = IF Validates(o) /\ ~Valid(cfg') THEN "rejected" ELSE config

NewConfigReturns ==
    /\ config = "building"
    /\ config' = IF Valid(cfg) THEN "accepted" ELSE "rejected"
    /\ UNCHANGED <<cfg, given>>

ConfigNext == NewConfigReturns \/ \E o \in Option : ApplyOption(o)

ConfigSpec == ConfigInit /\ [][ConfigNext]_configVars

-----------------------------------------------------------------------------
(***************************************************************************)
(* Properties.                                                             *)
(***************************************************************************)
ValidAlone(o) == Valid(Apply(DefaultConfig, o))

\* Whether NewConfig accepts a list of options does not depend on their order,
\* though each one validates what those before it have left: it is rejected
\* exactly if one of them is bad by itself, even one that a later option
\* overrides.
OrderDoesNotMatter ==
    /\ config = "accepted" => \A o \in given : ValidAlone(o)
    /\ config = "rejected" => Writer = {} \/ \E o \in given : ~ValidAlone(o)

\* Unless the size of the pool is set, there are as many pages as workers, so
\* no worker waits for another one's page, and no browser is launched in vain.
PageForEveryWorker ==
    config = "accepted" /\ cfg.BrowserPoolSize = 0 =>
        LET size == DerivedBrowserPoolSize(cfg) IN
          /\ size * cfg.MaxPagesPerBrowser >= cfg.Concurrency
          /\ (size - 1) * cfg.MaxPagesPerBrowser < cfg.Concurrency
=============================================================================
