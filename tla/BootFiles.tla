----------------------------- MODULE BootFiles -----------------------------
(***************************************************************************)
(* The settings files somebody leaves on the BOOT partition and what the   *)
(* parsers of epilykos_wifi.py, epilykos_ssh.py, epilykos_dashboard.py and *)
(* epilykos_reset.py make of them.  A file is a record of the fields that  *)
(* its parsers look for, not its text:                                     *)
(*   blank    nothing but zero bytes and white space                       *)
(*   block    the part that holds the Wi-Fi settings (the key=value lines, *)
(*            the network block, the here-document, the access point, the  *)
(*            [wlan] table): "absent", "broken", "found", or "other" for a *)
(*            wlan that is something else than a table                     *)
(*   ssid, pass, open, country    in it; "" is an empty or missing field,  *)
(*            "bad" one of a length or form that is not allowed            *)
(*   asks, keyonly, hash, keys    the SSH settings; `badkey' says that a   *)
(*            line is no key, "odd" is a key with a byte in its comment    *)
(*            that is not UTF-8                                            *)
(*   word     the password or the word of the other files                  *)
(***************************************************************************)
EXTENDS Sequences

NoFile == [blank |-> TRUE, block |-> "none"]
Nothing == [is |-> "nothing"]   \* a parser's None: no Wi-Fi settings in the file
Refused == [is |-> "refused"]   \* an exception that the import expects
Raised == [is |-> "raised"]     \* one that it does not

Empty == [blank |-> FALSE, block |-> "absent", ssid |-> "", pass |-> "", open |-> FALSE,
          country |-> "", asks |-> FALSE, keyonly |-> FALSE, hash |-> "", keys |-> <<>>,
          badkey |-> FALSE, word |-> ""]

-----------------------------------------------------------------------------
(* Wi-Fi.                                                                  *)

\* WifiNetwork(...).validate().
validate(ssid, pass, country) ==
  IF ssid \in {"", "bad"} \/ pass = "bad" \/ country = "bad" THEN Refused
  ELSE [is |-> "net", ssid |-> ssid, pass |-> pass, country |-> country]

parse_wifi_txt(t) ==
  IF t.block # "found" THEN Refused ELSE validate(t.ssid, t.pass, t.country)

\* key_mgmt=NONE clears a password; a country that is none is not seen.
parse_wpa_supplicant(t) ==
  IF t.block # "found" THEN Refused
  ELSE validate(t.ssid, IF t.open THEN "" ELSE t.pass, IF t.country = "bad" THEN "" ELSE t.country)

parse_firstrun(t) ==
  IF t.block = "absent" THEN Nothing ELSE parse_wpa_supplicant(t)

\* An access point without a name is passed over.
parse_network_config(t) ==
  IF t.block = "broken" THEN Refused
  ELSE IF t.block = "absent" \/ t.ssid = "" THEN Nothing
  ELSE validate(t.ssid, t.pass, t.country)

parse_preseed_toml(t) ==
  CASE t.block = "broken" -> Refused
    [] t.block = "absent" -> Nothing
    [] t.block = "other" -> Raised    \* AttributeError: it has no get
    [] OTHER -> validate(t.ssid, t.pass, t.country)

\* In the order they are applied.
BOOT_SOURCES ==
  <<"wpa_supplicant.conf", "firstrun.sh", "network-config", "rpi-preseed.toml", "wifi.txt", "wifi.txt.txt">>

parse(name, t) ==
  CASE name = "wpa_supplicant.conf" -> parse_wpa_supplicant(t)
    [] name = "firstrun.sh" -> parse_firstrun(t)
    [] name = "network-config" -> parse_network_config(t)
    [] name = "rpi-preseed.toml" -> parse_preseed_toml(t)
    [] OTHER -> parse_wifi_txt(t)

-----------------------------------------------------------------------------
(* SSH, the dashboard password, the factory reset.                         *)

\* A hash is taken in password mode only, and only of a kind it knows.
parse_firstrun_ssh(t) ==
  [enabled |-> t.asks,
   hash |-> IF t.asks /\ ~t.keyonly /\ t.hash # "bad" THEN t.hash ELSE "",
   keys |-> IF t.asks THEN t.keys ELSE <<>>]

\* One bad line refuses the file: no keys.
parse_authorized_keys(t) == IF t.badkey THEN <<>> ELSE t.keys

\* "" when it is refused.
parse_boot_file(t) == IF t.word = "bad" THEN "" ELSE t.word

\* A line that says ERASE; "asked" is the text of reset.request.
confirmed(t) == ~t.blank /\ t.word \in {"erase", "asked"}

=============================================================================
