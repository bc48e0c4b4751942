------------------------- MODULE IragUpstreamMedia -------------------------
(***************************************************************************)
(* irag/service.go, continued: YouTube, anime, manga, films, novels, news, *)
(* weather, games and the other families that look things up.              *)
(*                                                                         *)
(* otakudesuAliasShort is the body of a mutant.                            *)
(***************************************************************************)
EXTENDS IragUpstreams

spoken == <<"q", "query", "ask", "text", "keyword">>
link == <<"url", "link", "source", "target">>

buildChocomilkYoutubeQuery(query) ==
    Given(query, spoken, {"q", "query", "search"}) @@ Given(query, link, {"url", "link"})
        @@ Kept(query, {"page"}) @@ Given(query, <<"quality", "format">>, {"quality", "format"})

buildYTDLPYoutubeSearchQuery(query) == Given(query, spoken, {"q", "query"}) @@ Kept(query, {"page"})

buildYTDLPYoutubeInfoQuery(query) == Given(query, link, {"url"})

buildYTDLPYoutubeDownloadQuery(query) ==
    buildYTDLPYoutubeInfoQuery(query) @@ Kept(query, {"lang"})
        @@ Given(query, <<"quality", "format", "itag">>, {"quality", "format"})

buildNexureYoutubeSearchQuery(query) == Given(query, spoken, {"q", "query"}) @@ Kept(query, {"page"})

youtubeUpstreamPathAndQuery(path, provider, query) ==
    LET what == ByName(<< <<{"/v1/youtube/search", "/v1/youtube/play"}, "search">>,
                          <<{"/v1/youtube/info"}, "info">>, <<{"/v1/youtube/download"}, "download">> >>,
                       path, "none")
    IN  CASE what = "none" -> PassedOn(path, query)
          [] provider = "chocomilk" -> Sent(path, buildChocomilkYoutubeQuery(query))
          [] provider = "ytdlp" /\ what = "search" -> Sent("/search/", buildYTDLPYoutubeSearchQuery(query))
          [] provider = "ytdlp" /\ what = "info" -> Sent("/info/", buildYTDLPYoutubeInfoQuery(query))
          [] provider = "ytdlp" -> Sent("/download/", buildYTDLPYoutubeDownloadQuery(query))
          [] provider = "nexure" /\ what = "search" ->
                 Sent("/api/search/youtube", buildNexureYoutubeSearchQuery(query))
          [] OTHER -> PassedOn(path, query)

bmkgUpstreamPathAndQuery(path, query) ==
    CASE path = "/v1/bmkg/earthquake" -> Sent("/bmkg/gempa", query)
      [] path = "/v1/bmkg/earthquake/felt" -> Sent("/bmkg/gempa/dirasakan", query)
      [] path = "/v1/bmkg/weather" ->
             Sent("/bmkg/cuaca", CutTo(query, <<"provinsi", "province", "slug", "q", "query">>, {"provinsi"}))
      [] path = "/v1/bmkg/weather/village" ->
             Sent("/bmkg/cuaca/desa", CutTo(query, <<"adm4", "code", "id", "wilayah">>, {"adm4"}))
      [] path = "/v1/bmkg/provinces" -> Sent("/bmkg/cuaca/provinces", query)
      [] path = "/v1/bmkg/region/search" ->
             Sent("/bmkg/wilayah/search", CutTo(query, <<"q", "query", "text", "name", "wilayah">>, {"q"}))
      [] OTHER -> PassedOn(path, query)

\* A path argument that becomes a parameter.
FromPath(path, prefix, name, query) ==
    IF After(path, prefix) = "" THEN query ELSE [n \in {name} |-> After(path, prefix)]

animeUpstreamPathAndQuery(path, provider, query) ==
    LET at(sub) == "/api/otakudesu" \o sub
        under(sub) == HasPrefix(path, "/v1/anime/" \o sub)
        tail(sub) == After(path, "/v1/anime/" \o sub)
    IN  CASE provider \notin {"kanata", "nexure"} -> PassedOn(path, query)
          [] path = "/v1/anime/home" -> Sent(at(""), query)
          [] path = "/v1/anime/schedule" -> Sent(at("/schedule"), query)
          [] path = "/v1/anime/genres" -> Sent(at("/genre"), query)
          [] path = "/v1/anime/nonce" -> Sent(at("/nonce"), query)
          [] path = "/v1/anime/search" -> Sent(at("/search"), CutTo(query, question, {"q"}))
          [] path = "/v1/anime/iframe" ->
                 Sent(at("/getiframe"), CutTo(query, <<"url", "embed_url", "iframe">>, {"url"}))
          [] under("genre/") -> Sent(at("/animebygenre"), FromPath(path, "/v1/anime/genre/", "genre", query))
          [] under("batch/") /\ provider = "kanata" ->
                 Sent(at("/download/batch"), FromPath(path, "/v1/anime/batch/", "slug", query))
          [] under("detail/") -> Sent(at("/detail/" \o tail("detail/")), query)
          [] under("episode/") -> Sent(at("/episode/" \o tail("episode/")), query)
          [] under("full/") -> Sent(at("/lengkap/" \o tail("full/")), query)
          [] OTHER -> PassedOn(path, query)

mangaUpstreamPathAndQuery(path, provider, query) ==
    CASE provider \notin {"kanata", "nexure"} -> PassedOn(path, query)
      [] path = "/v1/manga/search" -> Sent("/api/komiku/search", CutTo(query, question, {"q"}))
      [] HasPrefix(path, "/v1/manga/chapter/") ->
             Sent("/api/komiku/chapter", FromPath(path, "/v1/manga/chapter/", "slug", query))
      [] HasPrefix(path, "/v1/manga/detail/") ->
             Sent("/api/komiku/detail/" \o After(path, "/v1/manga/detail/"), query)
      [] path = "/v1/manga/latest" ->
             Sent(IF provider = "kanata" THEN "/api/komiku/terbaru" ELSE "/api/komiku/latest", query)
      [] OTHER -> PassedOn(path, query)

\* The alias with its own words for full and genre left as they are.
otakudesuAliasShort(path) ==
    IF path \in {"/v1/otakudesu", "/v1/otakudesu/home"} THEN "/v1/anime/home"
    ELSE "/v1/anime" \o After(path, "/v1/otakudesu")

otakudesuAliasPath(path) ==
    LET tail(sub) == After(path, "/v1/otakudesu/" \o sub)
    IN  CASE path \in {"/v1/otakudesu", "/v1/otakudesu/home"} -> "/v1/anime/home"
          [] path = "/v1/otakudesu/genre" -> "/v1/anime/genres"
          [] HasPrefix(path, "/v1/otakudesu/lengkap/") -> "/v1/anime/full/" \o tail("lengkap/")
          [] HasPrefix(path, "/v1/otakudesu/animebygenre/") -> "/v1/anime/genre/" \o tail("animebygenre/")
          [] OTHER -> "/v1/anime" \o After(path, "/v1/otakudesu")

komikuAliasPath(path) ==
    IF path \in {"/v1/komiku", "/v1/komiku/home", "/v1/komiku/latest"} THEN "/v1/manga/latest"
    ELSE "/v1/manga" \o After(path, "/v1/komiku")

filmUpstreamPathAndQuery(path, provider, query) ==
    LET searches == path \in {"/v1/film/search", "/v1/drama/search"}
        details == HasPrefix(path, "/v1/film/detail/") \/ HasPrefix(path, "/v1/drama/detail/")
        slug == After(After(path, "/v1/film/detail/"), "/v1/drama/detail/")
    IN  CASE provider = "kanata" /\ searches -> Sent("/api/nontonfilm/search", CutTo(query, question, {"q"}))
          [] provider = "kanata" /\ details -> Sent("/api/nontonfilm/detail/" \o slug, query)
          [] provider = "kanata" /\ path = "/v1/film/stream" ->
                 Sent("/api/nontonfilm/stream", CutTo(query, <<"id", "slug", "url">>, {"id"}))
          [] provider = "kanata" /\ path \in {"/v1/film/home", "/v1/film", "/v1/drama/home", "/v1/drama"} ->
                 Sent("/api/nontonfilm", query)
          [] provider = "nexure" /\ path \in {"/v1/lk21", "/v1/film/home", "/v1/drama/home"} ->
                 Sent("/api/lk21", query)
          [] provider = "nexure" /\ HasPrefix(path, "/v1/lk21/episode/") ->
                 Sent("/api/lk21/episode/" \o After(path, "/v1/lk21/episode/"), query)
          [] provider = "nexure" /\ details -> Sent("/api/lk21/detail/" \o slug, query)
          [] provider = "nexure" /\ searches -> Sent("/api/lk21/search", CutTo(query, question, {"q"}))
          [] OTHER -> PassedOn(path, query)

newsUpstreamPathAndQuery(path, provider, query) ==
    CASE provider = "kanata" /\ path = "/v1/news/top" -> Sent("/news/top", query)
      [] provider = "nexure" /\ path = "/v1/news/cnn" -> Sent("/api/info/cnn", query)
      [] provider = "nexure" /\ path = "/v1/news/top" -> Sent("/api/info/news", query)
      [] OTHER -> PassedOn(path, query)

mediaUpstreamPathAndQuery(path, provider, query) ==
    CASE path \notin {"/v1/media/tv", "/v1/media", "/v1/media/"} -> PassedOn(path, query)
      [] provider = "kanata" -> Sent("/tv/now", query)
      [] provider = "nexure" -> Sent("/api/info/tv", query)
      [] OTHER -> PassedOn(path, query)

novelUpstreamPathAndQuery(path, provider, query) ==
    LET paged(q) == Kept(query, {"page"}) @@ q
    IN  CASE provider # "chocomilk" -> PassedOn(path, query)
          [] path \in {"/v1/novel", "/v1/novel/home"} -> Sent("/v1/novel/home", query)
          [] path \in {"/v1/novel/hot", "/v1/novel/hot-search"} -> Sent("/v1/novel/hot-search", query)
          [] path = "/v1/novel/search" ->
                 Sent(path, paged(CutTo(query, <<"q", "query", "ask", "text">>, asQuestion)))
          [] path = "/v1/novel/genre" ->
                 Sent(path, paged(CutTo(query, <<"genre", "q", "query", "title">>, {"genre", "q"})))
          [] path = "/v1/novel/chapters" ->
                 Sent(path, CutTo(query, <<"url", "chapter_url", "href", "link">>, {"url"}))
          [] OTHER -> PassedOn(path, query)

dramaboxUpstreamPathAndQuery(path, provider, query) ==
    CASE provider # "nexure" -> PassedOn(path, query)
      [] HasSuffix(path, "/search") -> Sent("/api/dramabox/search", CutTo(query, question, {"q"}))
      [] OTHER -> Sent("/api/dramabox", query)

serverInfoUpstreamPathAndQuery(path, provider, query) ==
    IF provider = "nexure" THEN Sent("/api/misc/server-info", query) ELSE PassedOn(path, query)

miscUpstreamPathAndQuery(path, provider, query) ==
    CASE path = "/v1/misc/server-info" -> serverInfoUpstreamPathAndQuery(path, provider, query)
      [] path = "/v1/misc/ip-whitelist-check" /\ provider = "ryzumi" ->
             Sent("/api/misc/ip-whitelist-check", CutTo(query, <<"ip", "q", "query">>, {"ip"}))
      [] OTHER -> PassedOn(path, query)

gameUpstreamPathAndQuery(path, provider, query) ==
    LET sub == After(path, "/v1/game/growagarden/")
        static == sub \in {"crops", "pets", "gear", "eggs", "cosmetics", "events"}
    IN  CASE provider = "nexure" /\ sub = "stock" -> Sent("/api/info/growagarden", query)
          [] provider = "ryzumi" /\ sub = "stock" -> Sent("/api/tool/growagarden", query)
          [] provider = "ryzumi" /\ static ->
                 Sent("/api/tool/growagarden", [category |-> sub, type |-> sub])
          [] provider = "nexure" /\ static -> Sent("/api/info/growagarden", [category |-> sub])
          [] OTHER -> PassedOn(path, query)

weebsUpstreamPathAndQuery(path, provider, query) ==
    LET at == "/api/weebs/" \o After(path, "/v1/weebs/")
    IN  CASE provider # "ryzumi" -> PassedOn(path, query)
          [] path \in {"/v1/weebs/anime-info", "/v1/weebs/manga-info"} ->
                 Sent(at, CutTo(query, <<"query", "q", "title">>, {"query"}))
          [] path = "/v1/weebs/sfw-waifu" -> Sent(at, CutTo(query, <<"tag", "q", "query">>, {"tag"}))
          [] path = "/v1/weebs/whatanime" -> Sent(at, CutTo(query, image, {"url"}))
          [] OTHER -> PassedOn(path, query)

uploadUpstreamPathAndQuery(path, provider, query) ==
    CASE provider = "nexure" -> Sent("/api/upload", query)
      [] provider = "kanata" -> Sent("/upload", query)
      [] provider = "ryzumi" -> Sent("/api/uploader/ryzumicdn", query)
      [] OTHER -> PassedOn(path, query)

ytdlpIslamicPathAndQuery(path, query) ==
    LET tail == After(path, "/v1/islamic/hadith/")
    IN  CASE path = "/v1/islamic/quran" -> Sent("/quran/surah", query)
          [] HasPrefix(path, "/v1/islamic/quran/") ->
                 Sent("/quran/surah/" \o After(path, "/v1/islamic/quran/"), query)
          [] path = "/v1/islamic/tafsir" -> Sent("/tafsir", CutTo(query, <<"surah", "nomor">>, {"surah"}))
          [] path = "/v1/islamic/topegon" -> Sent("/topegon", CutTo(query, <<"text", "ask", "q">>, {"text"}))
          [] HasPrefix(path, "/v1/islamic/hadith/") ->
                 LET cut == {i \in 1 .. Len(tail) : SubSeq(tail, i, i) = "/"}
                     rest == SubSeq(tail, Min(cut) + 1, Len(tail))
                     ends == {i \in 1 .. Len(rest) : SubSeq(rest, i, i) = "/"} \cup {Len(rest) + 1}
                 IN  Sent("/hadits", IF cut = {} THEN query
                                     ELSE [book |-> SubSeq(tail, 1, Min(cut) - 1),
                                           hadith_id |-> SubSeq(rest, 1, Min(ends) - 1)])
          [] OTHER -> PassedOn(path, query)
=============================================================================
