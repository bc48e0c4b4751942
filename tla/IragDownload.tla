---------------------------- MODULE IragDownload ----------------------------
(***************************************************************************)
(* irag/download.go: what a provider is asked for a download route.        *)
(***************************************************************************)
EXTENDS IragUpstreamTools

downloadURL == <<"url", "link", "target", "source">>
downloadQuality == <<"quality", "format">>

buildDownloadURLQuery(query) ==
    Given(query, downloadURL, {"url"}) @@ Given(query, downloadQuality, {"quality", "format"}) @@ query

buildDownloadSearchQuery(query) ==
    Given(query, <<"q", "query", "keyword", "search">> \o downloadURL, asQuestion) @@ query

\* The caller's quality, or the provider's own word for the usual one.
setDownloadQuality(query, raw, fallback) ==
    Given(raw, downloadQuality, {"quality", "format"}) @@ [quality |-> fallback, format |-> fallback] @@ query

kanataDownloadPathAndQuery(slug, query) ==
    LET out == buildDownloadURLQuery(query)
        names == << <<{"youtube/info"}, "/youtube/info">>, <<{"youtube/audio"}, "/youtube/download-audio">>,
                    <<{"tiktok"}, "/tiktok/fetch">>, <<{"tiktok/hd", "douyin"}, "/tiktok2">> >>
        prefixes == << <<{"youtube/playlist", "youtube/subtitle"}, "/youtube2/info">>,
                       <<{"instagram"}, "/instagram/fetch">>, <<{"facebook"}, "/facebook/fetch">>,
                       <<{"threads"}, "/threads/fetch">>, <<{"pinterest"}, "/pinterest/fetch">>,
                       <<{"mediafire"}, "/mediafire/fetch">>, <<{"reddit"}, "/reddit/fetch">> >>
    IN  CASE slug = "youtube/video" -> Sent("/youtube/download", setDownloadQuality(out, query, "720"))
          [] slug = "youtube/search" -> Sent("/youtube2/info", buildDownloadSearchQuery(query))
          [] OTHER -> Sent(ByName(names, slug, ByPrefix(prefixes, slug, "/" \o slug)), out)

nexureDownloadPathAndQuery(slug, query) ==
    LET out == buildDownloadURLQuery(query)
        at == "/api/download/"
        own == {"twitter", "threads", "pinterest", "soundcloud", "gdrive", "scribd", "mediafire", "mega",
                "terabox", "pixeldrain", "danbooru", "reddit", "facebook", "tiktok", "spotify"}
        named == {w \in own : HasPrefix(slug, w)}
        path == ByPrefix(<< <<{"instagram/story"}, "ig-story">>, <<{"instagram"}, "instagram">>,
                            <<{"bilibili", "bstation"}, "bstation">>, <<{"krakenfiles"}, "kfiles">> >>,
                         slug, IF named = {} THEN slug ELSE CHOOSE w \in named : TRUE)
    IN  CASE HasPrefix(slug, "youtube/search") -> Sent("/api/search/youtube", buildDownloadSearchQuery(query))
          [] HasPrefix(slug, "youtube") -> Sent(at \o "youtube", setDownloadQuality(out, query, "720"))
          [] HasPrefix(slug, "tiktok/hd") -> Sent(at \o "tiktok", setDownloadQuality(out, query, "hd"))
          [] OTHER -> Sent(at \o path, out)

ryzumiDownloadPathAndQuery(slug, query) ==
    LET out == buildDownloadURLQuery(query)
        at == "/api/downloader/"
        path == ByPrefix(<< <<{"tiktok/hd", "douyin"}, "v2/ttdl">>, <<{"tiktok"}, "ttdl">>,
                            <<{"instagram"}, "igdl">>, <<{"facebook"}, "fbdl">>, <<{"twitter"}, "twitter">>,
                            <<{"threads"}, "threads">>, <<{"pinterest"}, "pinterest">>,
                            <<{"soundcloud"}, "soundcloud">>, <<{"gdrive"}, "gdrive">>,
                            <<{"bilibili", "bstation"}, "bilibili">>, <<{"mega"}, "mega">>,
                            <<{"terabox"}, "terabox">>, <<{"pixeldrain"}, "pixeldrain">>,
                            <<{"krakenfiles"}, "kfiles">>, <<{"danbooru"}, "danbooru">>,
                            <<{"mediafire"}, "mediafire">>, <<{"reddit"}, "all-in-one">> >>, slug, slug)
    IN  CASE slug = "aio" -> Sent(at \o "all-in-one", out)
          [] HasPrefix(slug, "youtube/search") -> Sent("/api/search/yt", buildDownloadSearchQuery(query))
          [] HasPrefix(slug, "youtube/audio") -> Sent(at \o "ytmp3", out)
          [] HasPrefix(slug, "youtube") -> Sent(at \o "ytmp4", setDownloadQuality(out, query, "720p"))
          [] OTHER -> Sent(at \o path, out)

chocomilkDownloadPathAndQuery(slug, query) ==
    LET named == {w \in {"twitter", "threads", "facebook", "tidal", "deezer", "capcut"} : HasPrefix(slug, w)}
    IN  Sent("/v1/download/" \o (IF named = {} THEN slug ELSE CHOOSE w \in named : TRUE),
             buildDownloadURLQuery(query))

ytdlpDownloadPathAndQuery(slug, query) ==
    LET out == buildDownloadURLQuery(query)
    IN  IF HasPrefix(slug, "youtube/video") THEN Sent("/download/", setDownloadQuality(out, query, "720"))
        ELSE Sent(ByPrefix(<< <<{"youtube/info"}, "/info/">>, <<{"youtube/audio"}, "/download/audio">>,
                              <<{"youtube/playlist"}, "/download/playlist">>,
                              <<{"youtube/subtitle"}, "/download/ytsub">>,
                              <<{"tiktok/hd", "douyin"}, "/downloader/tiktokhd">>,
                              <<{"spotify/playlist"}, "/spotify/download/playlist">>,
                              <<{"spotify"}, "/spotify/download/audio">>,
                              <<{"mediafire"}, "/downloader/mediafire">>,
                              <<{"soundcloud/playlist"}, "/downloader/soundcloud/playlist">>,
                              <<{"soundcloud"}, "/downloader/soundcloud">>, <<{"videy"}, "/downloader/videy">>,
                              <<{"sfile"}, "/sfile">>, <<{"shopee/video"}, "/shopee/video">>,
                              <<{"nhentai"}, "/nhentai">>, <<{"applemusic"}, "/download/applemusic">> >>,
                           slug, "/download/" \o slug), out)

downloadUpstreamPathAndQuery(path, provider, query) ==
    LET slug == After(path, "/v1/download/")
    IN  CASE provider = "kanata" -> kanataDownloadPathAndQuery(slug, query)
          [] provider = "nexure" -> nexureDownloadPathAndQuery(slug, query)
          [] provider = "ryzumi" -> ryzumiDownloadPathAndQuery(slug, query)
          [] provider = "chocomilk" -> chocomilkDownloadPathAndQuery(slug, query)
          [] provider = "ytdlp" -> ytdlpDownloadPathAndQuery(slug, query)
          [] OTHER -> PassedOn(path, query)
=============================================================================
