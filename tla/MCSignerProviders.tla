--------------------------- MODULE MCSignerProviders ---------------------------
(* Small instances of the signer providers.                                *)
EXTENDS SignerProviders

MCFulcioURLs == {"noHost", "https", "ftp"}
MCFulcioTokens == {"malformed", "email"}
MCFulcioChains ==
  {<<"leaf", "ca">>, <<"ca", "leaf", "leaf2">>, <<"ca">>, <<"leaf", "garbage">>, <<"nochain">>}
MCHashOf == <<"SHA256", "SHA384">>
MCCurveOf == <<"P384", "rsa">>
MCPemFiles ==
  {Pem("rsa", "none", ""), Pem("ecdsa", "sigstore", "p1"), Pem("rsa", "pkcs8", ""),
   Pem("publicKey", "none", ""), Pem("certificate", "none", ""), Pem("garbage", "none", "")}
=============================================================================
