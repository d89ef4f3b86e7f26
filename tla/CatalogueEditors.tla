-------------------------- MODULE CatalogueEditors --------------------------
(***************************************************************************)
(* Two parts of the catalogue that several editors change: the command     *)
(* chains of the procedures, and the transport policy that a run reads.    *)
(* They are tables of their own and share no variable.                     *)
(***************************************************************************)
EXTENDS Naturals

CONSTANTS Unset,  \* None of Python
          ProcedureIds, CommandIds, CommandEditors, Names, MaxSequence,
          Forms, SettingsCommands, Chains, MaxSaves

VARIABLES command, pending,
          procedure, platform, transport, copy, stage, policy, chain, context, during, saves

CommandRows == INSTANCE CommandChain WITH
  Procedures <- ProcedureIds, Rows <- CommandIds, Editors <- CommandEditors, row <- command,
  None <- Unset

Policy == INSTANCE DriverChain WITH
  Commands <- SettingsCommands, settings <- transport, pc <- stage, None <- Unset

---------------------------------------------------------------------------
\* A save that finds the commands its validation read leaves the whole procedure
\* it is saved into resolved, whatever deletions did to it before, and makes no
\* output ambiguous; any save leaves its commands in an order.
SaveResolves == CommandRows!SaveResolves

\* A run uses one policy, and one it can run with: every chain has a driver that
\* needs no Ansible, and chain and connection settings are of the same row.
RunsOnOnePolicy == Policy!RunsOnOnePolicy

=============================================================================
