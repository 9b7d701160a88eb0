---------------------------- MODULE MCMcpSession ----------------------------
(* Small instances of McpSession for TLC. *)
EXTENDS McpSession, TLC

CONSTANTS x, y, fx, fy, idx, a, b

\* One component by its id; a file, found only by the model; a symbol; two
\* components at once; nothing that exists.
MCIntents ==
    { [words |-> {x}, exact |-> {x}],
      [words |-> {fx}, exact |-> {}],
      [words |-> {SymbolAt(fx)}, exact |-> {SymbolAt(fx)}],
      [words |-> {x, fy}, exact |-> {x, fy}],
      [words |-> {y}, exact |-> {}] }
=============================================================================
