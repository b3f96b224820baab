----------------------------- MODULE Visibility -----------------------------
(***************************************************************************)
(* What the local settings of Claude Code, Codex and Hermes say of a Skill *)
(* (src/claude_visibility.rs, src/codex_visibility.rs,                     *)
(* src/hermes_visibility.rs): whether the Agent would list it.  A Roster   *)
(* Plan asks the same operators what they will say once it is applied.     *)
(*                                                                         *)
(* Settings are already parsed; `known` is FALSE where a file could not be *)
(* read or parsed.  Every package declares its name.                       *)
(***************************************************************************)
EXTENDS SkillDisk

CONSTANTS PackageName,    \* the native name each package declares
          Explicit,       \* packages that block invocation by the model
          OtherPlatform,  \* packages for another platform
          Conditional,    \* packages with runtime conditions
          CodexRoots,     \* user_roots of Codex
          NoName

Unset == "unset"
Listed(mode) == mode \in {"on", "name_only"}
Exposing(mode) == mode \in {"on", "name_only", "unknown"}

(***************************************************************************)
(* Codex: the rules of config.toml in order; the last that applies wins.   *)
(* A path rule names what its path resolved to when the Scan froze it, be  *)
(* it an entrypoint or the place of a missing one.                         *)
(***************************************************************************)
Identity(d, p) == [resolved |-> Exists(d, p), path |-> Real(d, p)]
VerifiedName(d, p) ==
    IF PackageAt(d, p) = NoPackage THEN NoName ELSE PackageName[PackageAt(d, p)]

Wanted(rule) == IF rule.enabled THEN "on" ELSE "off"
Applied(d, p, name, mode, rule) ==
    IF rule.by = "name" /\ name = NoName THEN IF mode = Wanted(rule) THEN mode ELSE "unknown"
    ELSE IF rule.by = "name" /\ name = rule.name THEN Wanted(rule)
    ELSE IF rule.by = "path" /\ rule.identity = Identity(d, p) THEN
            IF rule.enabled /\ ~rule.identity.resolved THEN "unknown" ELSE Wanted(rule)
    ELSE mode

CodexEvaluate(d, codex, p, name) ==
    IF ~codex.known THEN "unknown"
    ELSE FoldLeft(LAMBDA mode, rule : Applied(d, p, name, mode, rule), "on", codex.rules)

CodexScoped(d, codex, p, name) ==
    IF Head(p) \in CodexRoots THEN CodexEvaluate(d, codex, p, name) ELSE "unknown"

CodexCoreModes(d, codex, target, source) ==
    {CodexScoped(d, codex, target, VerifiedName(d, source)),
     CodexEvaluate(d, codex, source, VerifiedName(d, source))}

CodexRetargeted(d, codex, old, new) ==
    IF /\ codex.known /\ Exists(d, old)
       /\ \E i \in DOMAIN codex.rules :
             codex.rules[i].by = "path" /\ codex.rules[i].identity = Identity(d, old)
    THEN "unknown" ELSE CodexEvaluate(d, codex, new, VerifiedName(d, old))

(* The settings as the Scan freezes them. *)
FreezeCodex(d, codex) ==
    [codex EXCEPT !.rules =
        [i \in DOMAIN @ |->
            IF @[i].by = "path"
            THEN [by |-> "path", identity |-> Identity(d, @[i].path), enabled |-> @[i].enabled]
            ELSE @[i]]]

(***************************************************************************)
(* Claude Code: skillOverrides by directory name, and the package's own    *)
(* block on model invocation.                                              *)
(***************************************************************************)
ClaudeMode(claude, name, explicit) ==
    LET configured == IF name \in DOMAIN claude.overrides THEN claude.overrides[name] ELSE Unset
    IN  IF ~claude.known THEN "unknown"
        ELSE IF configured \in {"off", "user_only"} THEN configured
        ELSE IF explicit THEN IF configured = Unset THEN "user_only" ELSE "unknown"
        ELSE IF configured = Unset THEN "on" ELSE configured

(***************************************************************************)
(* Hermes: names disabled everywhere or in one channel, roots configured   *)
(* elsewhere, the platforms and the conditions of the package.             *)
(***************************************************************************)
HermesMode(hermes, dirname, k) ==
    LET name == PackageName[k]
        ambiguous == dirname # name /\ dirname \in hermes.disabled
    IN  IF ~hermes.known THEN "unknown"
        ELSE IF name \in hermes.disabled THEN "off"
        ELSE IF ambiguous \/ hermes.extraRoots THEN "unknown"
        ELSE IF k \in OtherPlatform THEN "off"
        ELSE IF name \in hermes.channel \/ (dirname # name /\ dirname \in hermes.channel)
             \/ k \in Conditional THEN "unknown"
        ELSE "on"

(* visibility_for_replacement_source: attributes verified by the Scan. *)
HermesProjected(d, hermes, at, source) ==
    IF PackageAt(d, source) = NoPackage THEN "unknown"
    ELSE HermesMode(hermes, Last(at), PackageAt(d, source))
=============================================================================
