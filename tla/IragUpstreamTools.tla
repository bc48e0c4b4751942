------------------------- MODULE IragUpstreamTools -------------------------
(***************************************************************************)
(* irag/service.go, continued: search, stalk and tools.                    *)
(***************************************************************************)
EXTENDS IragUpstreamMedia

buildSearchQuery(query) == Given(query, <<"q", "query", "ask", "text">>, asQuestion) @@ query

\* Where Ryzumi answers a search, and the parameters it narrows it to.
ryzumiSearches ==
    << <<{"google/image"}, "gimage">>, <<{"google"}, "google">>, <<{"bilibili"}, "bilibili">>,
       <<{"harga-emas", "gold"}, "harga-emas">>, <<{"jadwal-sholat", "sholat"}, "jadwal-sholat">>,
       <<{"youtube"}, "yt">>, <<{"mahasiswa", "pddikti"}, "mahasiswa">>,
       <<{"wallpaper"}, "wallpaper-moe">>, <<{"bstation"}, "bstation">> >>

ryzumiSearchCuts(slug, query) ==
    LET titled == Given(query, <<"query", "q", "title">>, asQuestion)
    IN  ByPrefix(<< <<{"jadwal-sholat", "sholat"}, Given(query, <<"kota", "city", "q", "query">>, {"kota", "city"})>>,
                    <<{"lens"}, Given(query, <<"url", "image_url", "imgUrl">>, {"url"})>>,
                    <<{"mahasiswa", "pddikti"}, Given(query, <<"query", "q", "name">>, asQuestion)>>,
                    <<{"pixiv", "wallpaper", "anime", "manga", "film", "drama", "bstation"}, titled>>,
                    <<{"weather"}, Given(query, <<"city", "q", "query">>, {"city"})>> >>, slug, NoQuery)

RyzumiSearch(slug, query) ==
    LET cut == ryzumiSearchCuts(slug, query)
        \* bmkg, chord, kurs-bca, lyrics and the like go by their own name
        named == {"bmkg", "chord", "kurs-bca", "lens", "spotify", "pinterest", "pixiv", "lyrics",
                  "tiktok", "tidal", "anime", "manga", "weather", "novel"}
        own == {w \in named : HasPrefix(slug, w)}
        path == IF HasPrefix(slug, "film") \/ HasPrefix(slug, "drama") THEN "/api/dramabox/search"
                ELSE "/api/search/" \o ByPrefix(ryzumiSearches, slug,
                                                IF own = {} THEN slug ELSE CHOOSE w \in own : TRUE)
    IN  Sent(path, IF cut = NoQuery THEN buildSearchQuery(query) ELSE cut)

NexureSearch(slug, query) ==
    Sent(ByPrefix(<< <<{"google/image"}, "/api/search/gimage">>, <<{"google"}, "/api/search/google">>,
                     <<{"youtube"}, "/api/search/youtube">>, <<{"spotify"}, "/api/search/spotify">>,
                     <<{"pinterest"}, "/api/search/pinterest">>, <<{"lyrics"}, "/api/search/lyrics">>,
                     <<{"anime"}, "/api/otakudesu/search">>, <<{"manga"}, "/api/komiku/search">>,
                     <<{"novel"}, "/api/search/novel">>, <<{"bstation", "bilibili"}, "/api/search/bstation">>,
                     <<{"cookpad"}, "/api/search/cookpad">>, <<{"wallpaper"}, "/api/search/minwall">>,
                     <<{"pddikti", "mahasiswa"}, "/api/search/pddikti">>,
                     <<{"film", "drama"}, "/api/dramabox/search">>,
                     <<{"tiktok"}, "/api/search/tiktok">>, <<{"tidal"}, "/api/search/tidal">> >>,
                  slug, "/api/search/" \o slug), buildSearchQuery(query))

searchUpstreamPathAndQuery(path, provider, query) ==
    LET slug == After(path, "/v1/search/")
        kanata == ByPrefix(<< <<{"anime"}, "/otakudesu/search">>, <<{"manga"}, "/komiku/search">>,
                              <<{"film"}, "/nontonfilm/search">> >>, slug, "none")
    IN  CASE provider = "ryzumi" -> RyzumiSearch(slug, query)
          [] provider = "nexure" -> NexureSearch(slug, query)
          [] provider = "chocomilk" -> Sent("/search/", buildSearchQuery(query))
          [] provider = "kanata" /\ kanata # "none" -> Sent(kanata, buildSearchQuery(query))
          [] OTHER -> PassedOn(path, query)

buildStalkQuery(slug, query) ==
    LET mine(w) == Holds(slug, w)
    IN  (CASE mine("instagram") \/ mine("github") \/ mine("npm") ->
                  Given(query, <<"username", "user", "q", "query">>, {"username"})
           [] mine("mobile-legends") \/ slug = "ml" \/ mine("free-fire") \/ slug = "freefire" ->
                  Given(query, <<"id", "userId", "user_id", "player_id", "uid">>, {"id", "userId"})
                      @@ Given(query, <<"server", "zoneId", "zone_id", "zone">>, {"server", "zoneId"})
           [] mine("valorant") ->
                  Given(query, <<"name", "username", "q", "query">>, {"name"})
                      @@ Given(query, <<"tag", "server", "zone">>, {"tag"})
           [] mine("clash-of-clans") \/ mine("clash-royale") ->
                  Given(query, <<"name", "username", "q", "query">>, {"name"})
                      @@ Given(query, <<"token", "apikey", "api_key">>, {"token"})
           [] OTHER -> NoQuery) @@ query

stalkUpstreamPathAndQuery(path, provider, query) ==
    LET slug == After(path, "/v1/stalk/")
        games == {"github", "mobile-legends", "free-fire", "valorant", "clash-of-clans", "clash-royale",
                  "npm", "tiktok", "twitter", "youtube"}
        named == {w \in games : Holds(slug, w)}
        game == CASE slug = "ml" -> "mobile-legends"
                  [] slug = "freefire" -> "free-fire"
                  [] named # {} -> CHOOSE w \in named : TRUE
                  [] OTHER -> slug
    IN  CASE provider = "nexure" ->
                 Sent("/api/stalk/" \o (IF Holds(slug, "instagram") THEN "instagram" ELSE slug),
                      buildStalkQuery(slug, query))
          [] provider = "ryzumi" -> Sent("/api/stalk/" \o game, buildStalkQuery(slug, query))
          [] OTHER -> PassedOn(path, query)

------------------------------------------------------------------------------
(* Tools: a rule is a word, a path and what is left of the query.  The     *)
(* cctv words never come this far: upstreamPathAndQuery takes them first.  *)

cctvUpstreamPathAndQuery(path, provider, query) ==
    LET tail == After(After(After(path, "/v1/tools/cctv"), "/v1/bsw/cctv"), "/")
    IN  CASE provider # "nexure" -> PassedOn(path, query)
          [] tail = "search" -> Sent("/api/bsw/cctv/search",
                                     CutTo(query, <<"q", "query", "text", "name", "location">>, {"query"}))
          [] tail \in {"", "all", "detail/"} -> Sent("/api/bsw/cctv/all", query)
          [] OTHER -> Sent("/api/bsw/cctv/detail/" \o After(tail, "detail/"), query)

KanataTools(path, query) ==
    LET to == Given(query, <<"to", "target">>, {"to"})
        from == Given(query, <<"from", "source">>, {"from"})
        inPath == IF HasPrefix(path, "/v1/tools/ipinfo") THEN After(After(path, "/v1/tools/ipinfo"), "/") ELSE ""
        ip == IF inPath # "" THEN inPath ELSE FirstGiven(query, <<"ip", "q">>)
    IN  ByWord(<< <<{"/translate"}, Sent("/googletranslate",
                                         Given(query, <<"text", "q", "ask">>, {"text"}) @@ to @@ from)>>,
                  <<{"/kbbi"}, Sent("/kbbi", Given(query, <<"q", "text", "query">>, {"q"}))>>,
                  <<{"/ipinfo"}, IF ip # "" THEN Sent("/ipinfo/" \o ip, NoQuery) ELSE Sent("/ipinfo", query)>>,
                  <<{"/carbon"}, Sent("/carbon", Given(query, <<"code", "text">>, {"code"}))>> >>,
               path, PassedOn(path, query))

NexureTools(path, query) ==
    LET written == Given(query, <<"text", "q">>, {"text"})
        domain == Given(query, <<"domain", "q">>, {"domain"})
        sitekey == Given(query, <<"sitekey", "url">>, {"sitekey", "url"})
        drama == IF HasSuffix(path, "/search")
                 THEN Sent("/api/dramabox/search", Given(query, question, {"q"}))
                 ELSE Sent("/api/dramabox", query)
    IN  ByWord(<< <<{"/dramabox"}, drama>>,
                  <<{"/server-info"}, Sent("/api/misc/server-info", query)>>,
                  <<{"/weather"}, Sent("/api/info/weather", Given(query, <<"city", "q">>, {"city"}))>>,
                  <<{"/cekresi"}, Sent("/api/tools/cekresi", Kept(query, {"ekspedisi"})
                        @@ Given(query, <<"noresi", "resi", "tracking_number">>, {"noresi", "resi"}))>>,
                  <<{"/qris-converter"}, Sent("/api/tool/qris-converter", Given(query, <<"url", "image_url">>, {"url"})
                        @@ Given(query, <<"nominal", "amount">>, {"nominal"}))>>,
                  <<{"/qr"}, Sent("/api/image/qr", written @@ Kept(query, {"frame"}))>>,
                  <<{"/nsfw"}, Sent("/api/tools/nsfw-check", Given(query, <<"url", "image_url">>, {"url", "image_url"}))>>,
                  <<{"/ssweb"}, Sent("/api/tools/ssweb", Given(query, <<"url", "target">>, {"url"}) @@ Kept(query, {"mode"}))>>,
                  <<{"/utility/upscale", "/tools/upscale"},
                    Sent("/api/tools/upscale", Given(query, <<"imgUrl", "image_url", "url">>, asImage))>>,
                  <<{"/pln"}, Sent("/api/tools/pln", Given(query, <<"id", "id_pel", "customer_id">>, {"id", "id_pel"}))>>,
                  <<{"/pajak"}, Sent("/api/tools/cek-pajak/jabar", Given(query, <<"plat", "no_pol", "plate">>, {"plat"}))>>,
                  <<{"/brat/animated"}, Sent("/api/image/brat/animated", written)>>,
                  <<{"/brat"}, Sent("/api/image/brat", written)>>,
                  <<{"/whois"}, Sent("/api/tool/whois", domain)>>,
                  <<{"/check-hosting"}, Sent("/api/tool/check-hosting", domain)>>,
                  <<{"/hargapangan"}, Sent("/api/tool/hargapangan", query)>>,
                  <<{"/mc-lookup"}, Sent("/api/tool/mc-lookup", Given(query, <<"ip", "q">>, {"ip"}))>>,
                  <<{"/turnstile-bypass"}, Sent("/api/tools/turnstile-min", sitekey)>>,
                  <<{"/turnstile/sitekey"}, Sent("/api/tool/turnstile/sitekey", sitekey)>> >>,
               path, PassedOn(path, query))

YTDLPTools(path, query) ==
    LET rate == Given(query, <<"dari", "from">>, {"dari"}) @@ Given(query, <<"ke", "to">>, {"ke"})
                    @@ Given(query, <<"jumlah", "amount">>, {"jumlah"})
        cutout == Given(query, <<"image_url", "url">>, {"image_url"})
    IN  ByWord(<< <<{"/screenshot"}, Sent("/screenshot", Given(query, <<"url", "target">>, {"url"}) @@ Kept(query, {"mode"}))>>,
                  <<{"/removebg"}, Sent("/removebg", IF cutout = NoQuery THEN query
                                                     ELSE cutout @@ [mode |-> "url"] @@ query)>>,
                  <<{"/shorturl"}, Sent("/shorturl", Given(query, <<"url", "long_url", "target">>, {"url", "long_url"}))>>,
                  <<{"/subdofinder"}, Sent("/subdofinder", Given(query, <<"domain", "q">>, {"domain"}))>>,
                  <<{"/yt-transcript"}, Sent("/api/tool/yt-transcript", Given(query, <<"url", "video_url", "link">>, {"url"}))>>,
                  <<{"/isrc"}, Sent("/api/tool/isrc", Given(query, <<"isrc", "q", "query">>, {"isrc", "q"}))>>,
                  <<{"/listbank"}, Sent("/listbank", query)>>,
                  <<{"/cekbank"}, Sent("/cekbank", Given(query, <<"bank_code", "bank", "kode_bank">>, {"bank_code", "bank"})
                        @@ Given(query, <<"account_number", "no_rek", "rekening">>, {"account_number", "no_rek"}))>>,
                  <<{"/distance"}, Sent("/jarak", Given(query, <<"from", "dari", "origin">>, {"dari", "from"})
                        @@ Given(query, <<"to", "ke", "destination">>, {"ke", "to"}))>>,
                  <<{"/kurs", "/currency-converter"}, Sent("/kurs", rate)>>,
                  <<{"/gsmarena"}, Sent("/gsmarena", Given(query, <<"q", "query", "device">>, {"q", "device"}))>>,
                  <<{"/iphonechat"}, Sent("/maker/iqc", Given(query, <<"text", "q">>, {"text"}) @@ Kept(query, {"user", "jam"})
                        @@ Given(query, <<"profile_url", "profileUrl">>, {"profile_url"}))>> >>,
               path, PassedOn(path, query))

toolsUpstreamPathAndQuery(path, provider, query) ==
    CASE provider = "kanata" -> KanataTools(path, query)
      [] provider = "nexure" -> NexureTools(path, query)
      [] provider = "ytdlp" -> YTDLPTools(path, query)
      [] OTHER -> PassedOn(path, query)
=============================================================================
