------------------------------ MODULE MCTools -------------------------------
(***************************************************************************)
(* Four components that share no state: the block editor, the layout cache,*)
(* the function editor and the shell's session.  A behaviour is of one of  *)
(* them, chosen at first; the others stay as they begin.                   *)
(***************************************************************************)
EXTENDS MCTagBlock, LayoutCache, FunctionEditor, ShellSession

VARIABLE component

toolsVars == <<component, blockVars, cacheVars, functionVars, sessionVars>>

(* A point is moved, or put, left of the curve, into it and right of it.   *)
MCXs == {-1, 1, Unit + 1}

(* Where the blocks stay as they begin, one beginning is enough.           *)
ToolsInit ==
  /\ component \in {"blocks", "layouts", "functions", "shell"}
  /\ InitBlocks /\ CacheInit /\ FunctionInit /\ SessionInit
  /\ component # "blocks" => layout = Plain /\ \A b \in BlockName : blocks[b] = EmptyBlock

ToolsNext ==
  /\ UNCHANGED component
  /\ \/ component = "blocks" /\ NextEdit /\ UNCHANGED <<cacheVars, functionVars, sessionVars>>
     \/ component = "layouts" /\ CacheNext /\ UNCHANGED <<blockVars, functionVars, sessionVars>>
     \/ component = "functions" /\ FunctionNext /\ UNCHANGED <<blockVars, cacheVars, sessionVars>>
     \/ component = "shell" /\ SessionNext /\ UNCHANGED <<blockVars, cacheVars, functionVars>>

ToolsSpec == ToolsInit /\ [][ToolsNext]_toolsVars
=============================================================================
