---------------------------- MODULE MCProvision ----------------------------
(* Provision on a small instance: the files a card may carry.              *)
EXTENDS Provision, TLC

Home(pass, country) ==
  [Empty EXCEPT !.block = "found", !.ssid = "home", !.pass = pass, !.country = country]
File(name, text) == [name |-> name, text |-> text]

MCZoneCountry == [z \in {"UTC", "Lagos"} |-> IF z = "Lagos" THEN "NG" ELSE ""]

\* firstrun.sh of Imager with a password for SSH, its Wi-Fi part readable or
\* not, or with keys only, one of them with an odd byte, and no Wi-Fi.
WithPassword == [Home("p1", "NG") EXCEPT !.asks = TRUE, !.hash = "h1"]
WithKeys(keys) == [Empty EXCEPT !.asks = TRUE, !.keyonly = TRUE, !.hash = "h1", !.keys = keys]
Imager ==
  {WithPassword, [WithPassword EXCEPT !.pass = "bad"], WithKeys(<<"k1", "k2">>), WithKeys(<<"k1", "odd">>)}

KeysEdit(keys) == File(KeysFile, [Empty EXCEPT !.keys = keys])
Other == File("rpi-preseed.toml", [Empty EXCEPT !.block = "other"])
MCEdits ==
  {File("wifi.txt", Home("p2", "GB")), File("wifi.txt", [Home("", "") EXCEPT !.ssid = "bad"]),
   File("wifi.txt.txt", [Empty EXCEPT !.blank = TRUE]), File("network-config", Home("", "")),
   File("wpa_supplicant.conf", [Home("p2", "bad") EXCEPT !.open = TRUE]),
   File("rpi-preseed.toml", Home("p2", "")), Other,
   KeysEdit(<<"k1">>), KeysEdit(<<"odd">>),
   File(PasswordFile, [Empty EXCEPT !.word = "new"]),
   File(RequestFile, [Empty EXCEPT !.word = "erase"])}
  \cup {File("firstrun.sh", t) : t \in Imager}

\* hostd's threads are alike (safety properties only).
ThreadSymmetry == Permutations(Threads)

NoFiles == [n \in Names |-> NoFile]
MCCards == {NoFiles} \cup {[NoFiles EXCEPT !["firstrun.sh"] = t] : t \in Imager}

\* Single cards that show what FirstrunSshKept, OthersApplied and
\* UnlinkedIsDurable of Provision are violated by.
TwoFiles == {[NoFiles EXCEPT !["rpi-preseed.toml"] = Other.text, !["wifi.txt"] = Home("p2", "GB")]}
OddKey == {[NoFiles EXCEPT !["firstrun.sh"] = WithKeys(<<"k1", "odd">>)]}
OneKey == {[NoFiles EXCEPT ![KeysFile] = KeysEdit(<<"k1">>).text]}

=============================================================================
