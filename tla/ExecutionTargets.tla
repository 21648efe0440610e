-------------------------- MODULE ExecutionTargets --------------------------
(***************************************************************************)
(* The ExecutionTarget of src-tauri/src/domain/command_policy/types.rs: the *)
(* value that says which shell, over which route and in which reported     *)
(* context, an operation was reviewed for.  Every store of the session     *)
(* (command intents, independent SSH tasks, file baselines) compares it     *)
(* with `=' before it acts, so it is one record shared by all the modules.  *)
(***************************************************************************)
EXTENDS Naturals

CONSTANTS
  Sessions,        \* session ids, the keys of AppState::sessions
  Contexts,        \* the execution contexts the front end can report
  UnknownContext   \* ExecutionContext::default(): nothing is known

ASSUME ContextsAssumption == UnknownContext \in Contexts

(* A session_instance is a fresh UUID; the model numbers them.  The profile *)
(* of a session never changes, so its id is left out of the record.         *)
Target ==
  [session : Sessions, instance : Nat, route : Nat, version : Nat,
   context : Contexts]

(* ExecutionTarget::new                                                    *)
NewTarget(s, instance) ==
  [session |-> s, instance |-> instance, route |-> 0, version |-> 0,
   context |-> UnknownContext]

\* (a bug to try: the version stays)
SameVersion(t) == [t EXCEPT !.context = UnknownContext]

(* ExecutionTarget::invalidate_context                                     *)
InvalidateContext(t) ==
  [t EXCEPT !.version = @ + 1, !.context = UnknownContext]

(* One profile save or delete, as invalidate_profile_intents applies it to  *)
(* the target of a session of that profile.                                *)
InvalidateRoute(t) == InvalidateContext([t EXCEPT !.route = @ + 1])

=============================================================================
