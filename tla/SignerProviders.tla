---------------------------- MODULE SignerProviders ----------------------------
(***************************************************************************)
(* signer/registry.go and registry/: the signer registry makes a provider  *)
(* by name, with its defaults and the caller's setters, and its Signer is  *)
(* called.  One provider is in use; the others stay as they were           *)
(* initialised.                                                            *)
(***************************************************************************)
EXTENDS FulcioSigner, KmsSigner, LocalSigners

CONSTANT RegisteredNames

VARIABLE entity \* the provider NewSignerProvider returned

signerVars == <<entity, fulcioVars, kmsVars, localVars>>

NoEntity == "none"

SignersInit ==
  /\ entity = NoEntity
  /\ FulcioInit
  /\ KmsInit
  /\ LocalInit

\* NewEntity: an unknown name, or a setter that meets the wrong type, is an
\* error; else the entry's factory is called, the defaults are set, and then
\* the caller's options in order.
NewSignerProvider ==
  /\ entity = NoEntity
  /\ \E name \in RegisteredNames \cup {"unregistered"} :
       \/ entity' = "error"
       \/ name \in RegisteredNames /\ entity' = name
  /\ UNCHANGED <<fulcioVars, kmsVars, localVars>>

UseFulcio == entity = "fulcio" /\ FulcioNext /\ UNCHANGED <<entity, kmsVars, localVars>>
UseKms == entity = "kms" /\ KmsNext /\ UNCHANGED <<entity, fulcioVars, localVars>>
UseLocal ==
  /\ entity \in {"file", "vault", "spiffe"}
  /\ LocalNext /\ lin'.provider = entity
  /\ UNCHANGED <<entity, fulcioVars, kmsVars>>

SignersNext == NewSignerProvider \/ UseFulcio \/ UseKms \/ UseLocal

\* Signer takes the steps that depend on nobody else, time passes and the renewal
\* goroutine is scheduled; Fulcio, the key services and the user need not answer,
\* contexts not end, keys not rotate, and a lease may be renewed for ever.
SignersSpec ==
  /\ SignersInit
  /\ [][SignersNext]_signerVars
  /\ WF_signerVars(UseFulcio /\ FulcioOwnStep)
  /\ WF_signerVars(UseKms /\ Tick)
  /\ WF_signerVars(UseKms /\ (ContextDone \/ Relogin))
=============================================================================
