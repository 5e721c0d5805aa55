---------------------------- MODULE OpenNICSystem ----------------------------
(***************************************************************************)
(* The operating system side of the service on Linux: /etc/resolv.conf,    *)
(* the copy of it that startup() preserves and shutdown() restores, and    *)
(* the enabled flag whose changes call one or the other                    *)
(* (opennicsystem.cpp, opennicsystem_linux.cpp).                           *)
(*                                                                         *)
(* A file is the sequence of its lines, and all lines are as long: what is *)
(* abstracted is that a shorter line leaves a piece of the one it covers.  *)
(***************************************************************************)
EXTENDS Integers, Sequences

CONSTANTS Line,         \* the lines a resolv.conf can have
          Original,     \* the lines of resolv.conf before the service ran
          WriteFails    \* can a file refuse to be opened for writing?

ASSUME SystemAssumption == Original \in Seq(Line) /\ WriteFails \in BOOLEAN

VARIABLES resolvConf,   \* RESOLVE_CONF
          backup,       \* RESOLVE_CONF_BACKUP
          mEnabled      \* OpenNICSystem::mEnabled

systemVars == <<resolvConf, backup, mEnabled>>

SystemTypeOK == /\ resolvConf \in Seq(Line)
                /\ backup \in Seq(Line)
                /\ mEnabled \in BOOLEAN

(* fileCopy(): the target is opened without truncation, so what it held    *)
(* beyond the length of the source stays; when it cannot be opened nothing *)
(* is copied, and the caller is told the copy was made.                    *)
fileCopy(from, to) ==
    {from \o SubSeq(to, Len(from) + 1, Len(to))} \cup (IF WriteFails THEN {to} ELSE {})

SystemInit == /\ resolvConf = Original
              /\ backup = <<>>

startup == /\ backup' \in fileCopy(resolvConf, backup)
           /\ UNCHANGED resolvConf

(* Mutant: shutdown() leaves resolv.conf as it is. *)
shutdown_restoresNothing == UNCHANGED <<resolvConf, backup>>

shutdown == /\ resolvConf' \in fileCopy(backup, resolvConf)
            /\ UNCHANGED backup

(* setEnabled(): only a change of the flag calls startup() or shutdown(). *)
setEnabled(enabled) ==
    /\ mEnabled' = enabled
    /\ IF enabled = mEnabled THEN UNCHANGED <<resolvConf, backup>>
       ELSE IF enabled THEN startup ELSE shutdown

(* Mutant: the file is rewritten without truncation. *)
writeResolvers_untruncated(list, applied) ==
    /\ applied \/ (WriteFails /\ list # <<>>)
    /\ resolvConf' = IF applied
                     THEN list \o SubSeq(resolvConf, Len(list) + 1, Len(resolvConf))
                     ELSE resolvConf
    /\ UNCHANGED <<backup, mEnabled>>

(* beginUpdateResolvers(), updateResolver() for each of the list, and      *)
(* endUpdateResolvers(), which rewrites the file (with truncation) unless  *)
(* the list is empty; "applied" is its result.                             *)
writeResolvers(list, applied) ==
    /\ applied \/ (WriteFails /\ list # <<>>)
    /\ resolvConf' = IF applied /\ list # <<>> THEN list ELSE resolvConf
    /\ UNCHANGED <<backup, mEnabled>>
=============================================================================
